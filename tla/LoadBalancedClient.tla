------------------------- MODULE LoadBalancedClient -------------------------
(***************************************************************************)
(* client.LoadBalancedClient: the map of clients, one per server address,  *)
(* that dial() fills under a mutex it keeps while XMakeDial connects; any  *)
(* number of Call()s, one BroadcastCall() with a goroutine per server, and *)
(* Close().  A client.Client is what RpcCalls says of it: available until  *)
(* it is closed or shut down, and its calls end with an answer until it is *)
(* shut down, with an error, or with a timeout.                            *)
(***************************************************************************)
EXTENDS Naturals, FiniteSets

CONSTANTS
    Servers,    \* the addresses the load balancer knows
    Callers,    \* the goroutines that invoke LoadBalancedClient.Call
    Timeouts,   \* the values of ConnectionTimeout tried: 0 is no limit
    None        \* Go's nil, and the holder of a free mutex

ASSUME TasksAssumption ==
    /\ Servers \cap Callers = {}
    /\ None \notin Servers \cup Callers
    /\ Timeouts \subseteq {0, 1}

VARIABLES
    \* LoadBalancedClient: the holder of mutex, serverAddressToClientMap, and
    \* connectionInfo.ConnectionTimeout
    mutex, clientMap, timeout,
    \* the clients, named by the task that dialled them: those that are shut
    \* down, their connections, and the goroutines in createClient
    down, connection, creator,
    \* the tasks in call(), and BroadcastCall's variables
    task, cast,
    \* Close has been called; what ended the process, if something did
    closeCalled, crashed

\* BroadcastCall's goroutine for a server is named by the server.
Tasks == Servers \cup Callers

dialVars   == <<mutex, clientMap, timeout, connection, creator>>
globalVars == <<closeCalled, crashed>>

vars == <<dialVars, down, task, cast, globalVars>>

\* Type invariant; dial returns a client when it does not return an error.
TypeOK ==
    /\ mutex \in Tasks \cup {None}
    /\ clientMap \in [Servers -> Tasks \cup {None}]
    /\ timeout \in Timeouts
    /\ down \subseteq Tasks
    /\ connection \in [Tasks -> {"none", "open", "closed"}]
    /\ creator \in [Tasks -> {"none", "creating", "created", "failed"}]
    /\ task \in [Tasks ->
         [pc : {"idle", "lock", "connect", "create", "call", "wait", "settle",
                "returned"},
          address : Servers \cup {None}, client : Tasks \cup {None},
          result : {"none", "nil", "error"}, contextDone : BOOLEAN]]
    /\ \A t \in Tasks : task[t].pc \in {"call", "wait"} => task[t].client # None
    /\ cast \in
         [pc : {"idle", "waiting", "returned"}, serverList : SUBSET Servers,
          nilOutput : BOOLEAN, output : Servers \cup {None},
          error : BOOLEAN, replyDone : BOOLEAN, cancelled : BOOLEAN]
    /\ closeCalled \in BOOLEAN /\ crashed \in {"no", "nil", "race"}

\* CreateLoadBalancedClient.
Init ==
    /\ mutex = None /\ timeout \in Timeouts
    /\ clientMap = [s \in Servers |-> None]
    /\ down = {}
    /\ connection = [t \in Tasks |-> "none"]
    /\ creator = [t \in Tasks |-> "none"]
    /\ task = [t \in Tasks |->
         [pc |-> "idle", address |-> IF t \in Servers THEN t ELSE None,
          client |-> None, result |-> "none", contextDone |-> FALSE]]
    /\ \E nil \in BOOLEAN : cast =
         [pc |-> "idle", serverList |-> {}, nilOutput |-> nil, output |-> None,
          error |-> FALSE, replyDone |-> nil, cancelled |-> FALSE]
    /\ closeCalled = FALSE /\ crashed = "no"

Entry(t) == clientMap[task[t].address]

\* ~client.IsAvailable(): shut down, or closed.
Unavailable == down \cup {k \in Tasks : connection[k] = "closed"}

\* client.Close, once or again; the receiver still delivers what it has read.
CloseClients(K) ==
    connection' = [k \in Tasks |-> IF k \in K THEN "closed" ELSE connection[k]]

\* call() is over for t: Call returns, or BroadcastCall's goroutine goes on.
CallEnds(t, result) ==
    task' = [task EXCEPT ![t].result = result,
               ![t].pc = IF t \in Callers THEN "returned" ELSE "settle"]

-----------------------------------------------------------------------------
(* dial(), and the dialling it does with the mutex held. *)

\* Mutant: what the map has for the address is not compared with nil.
DialReusesNil(t) ==
    /\ task[t].pc = "lock" /\ mutex = None
    /\ Entry(t) \notin Unavailable
    /\ task' = [task EXCEPT ![t].pc = "call", ![t].client = Entry(t)]
    /\ UNCHANGED <<dialVars, down, cast, globalVars>>

\* The address has an available client.
DialReuses(t) ==
    /\ task[t].pc = "lock" /\ mutex = None
    /\ Entry(t) \notin Unavailable \cup {None}
    /\ task' = [task EXCEPT ![t].pc = "call", ![t].client = Entry(t)]
    /\ UNCHANGED <<dialVars, down, cast, globalVars>>

\* Mutant: an unavailable client is deleted without being closed.
DialForgets(t) ==
    /\ task[t].pc = "lock" /\ mutex = None
    /\ Entry(t) \in Unavailable \cup {None}
    /\ mutex' = t
    /\ clientMap' = [clientMap EXCEPT ![task[t].address] = None]
    /\ task' = [task EXCEPT ![t].pc = "connect"]
    /\ UNCHANGED <<timeout, down, connection, creator, cast, globalVars>>

\* It has none, or one that is not available, which is closed and deleted.
DialAnew(t) ==
    /\ task[t].pc = "lock" /\ mutex = None
    /\ Entry(t) \in Unavailable \cup {None}
    /\ mutex' = t
    /\ CloseClients({Entry(t)} \ {None})
    /\ clientMap' = [clientMap EXCEPT ![task[t].address] = None]
    /\ task' = [task EXCEPT ![t].pc = "connect"]
    /\ UNCHANGED <<timeout, down, creator, cast, globalVars>>

\* Mutant: the error returns past the Unlock.
DialErrorLocked(t) ==
    /\ CallEnds(t, "error")
    /\ UNCHANGED <<mutex, clientMap, timeout, down, creator, cast, globalVars>>

\* XMakeDial's error: dial returns it, and the mutex is released.
DialError(t) ==
    /\ CallEnds(t, "error")
    /\ mutex' = None
    /\ UNCHANGED <<clientMap, timeout, down, creator, cast, globalVars>>

\* XMakeDial: a malformed address, or net.DialTimeout fails.
ConnectFails(t) ==
    /\ task[t].pc = "connect"
    /\ UNCHANGED connection
    /\ DialError(t)

\* The connection is there; a goroutine starts createClient on it.
Connect(t) ==
    /\ task[t].pc = "connect"
    /\ connection' = [connection EXCEPT ![t] = "open"]
    /\ creator' = [creator EXCEPT ![t] = "creating"]
    /\ task' = [task EXCEPT ![t].pc = "create"]
    /\ UNCHANGED <<mutex, clientMap, timeout, down, cast, globalVars>>

\* CreateClient wrote ConnectionInfo, for CreateClientHTTP after the server
\* accepted its CONNECT; or it failed, as it does on a closed connection.
CreateClient(t) ==
    /\ creator[t] = "creating"
    /\ \E outcome \in {"created", "failed"} :
         /\ outcome = "created" => connection[t] = "open"
         /\ creator' = [creator EXCEPT ![t] = outcome]
    /\ UNCHANGED <<mutex, clientMap, timeout, connection, down, task, cast,
                   globalVars>>

\* Mutant: dial returns the new client and does not keep it.
DialSucceedsUnstored(t) ==
    /\ task[t].pc = "create" /\ creator[t] = "created"
    /\ creator' = [creator EXCEPT ![t] = "none"]
    /\ task' = [task EXCEPT ![t].pc = "call", ![t].client = t]
    /\ mutex' = None
    /\ UNCHANGED <<clientMap, timeout, connection, down, cast, globalVars>>

\* timeoutChannel, which is unbuffered, hands the client over to dial.
DialSucceeds(t) ==
    /\ task[t].pc = "create" /\ creator[t] = "created"
    /\ creator' = [creator EXCEPT ![t] = "none"]
    /\ clientMap' = [clientMap EXCEPT ![task[t].address] = t]
    /\ task' = [task EXCEPT ![t].pc = "call", ![t].client = t]
    /\ mutex' = None
    /\ UNCHANGED <<timeout, connection, down, cast, globalVars>>

\* createClient's error, or time.After first: the deferred Close.  After a
\* timeout nobody receives from timeoutChannel, and the goroutine stays there.
DialFails(t) ==
    /\ task[t].pc = "create"
    /\ creator[t] = "failed" \/ timeout # 0
    /\ connection' = [connection EXCEPT ![t] = "closed"]
    /\ DialError(t)

-----------------------------------------------------------------------------
(* client.Call, by the contract of RpcCalls. *)

CallFrame == <<dialVars, cast, globalVars>>

\* The client may have been closed or gone down since dial returned it; if not,
\* the request is written, as soon as the mutex is free and the server reads.
CallSent(t) ==
    /\ task[t].pc = "call"
    /\ IF task[t].client \in Unavailable
         THEN CallEnds(t, "error")
         ELSE task' = [task EXCEPT ![t].pc = "wait"]
    /\ UNCHANGED <<down, CallFrame>>

\* A nil output cannot be decoded into, and the client goes down with the error.
CallAnswered(t) ==
    LET undecodable == t \in Servers /\ cast.nilOutput
    IN  /\ task[t].pc = "wait" /\ task[t].client \notin down
        /\ CallEnds(t, IF undecodable THEN "error" ELSE "nil")
        /\ down' = down \cup IF undecodable THEN {task[t].client} ELSE {}
        /\ UNCHANGED CallFrame

\* An error reply takes the client down; inputs that cannot be sent do not.
CallFails(t) ==
    /\ task[t].pc = "wait"
    /\ CallEnds(t, "error")
    /\ down' \in {down, down \cup {task[t].client}}
    /\ UNCHANGED CallFrame

\* The calls of a broadcast have its context.
CallTimesOut(t) ==
    /\ task[t].pc = "wait"
    /\ IF t \in Callers THEN task[t].contextDone ELSE cast.cancelled
    /\ CallEnds(t, "error")
    /\ UNCHANGED <<down, CallFrame>>

\* A client lost its connection, or met a reply to a call that timed out.
GoDown(s) ==
    /\ clientMap[s] \notin down \cup {None}
    /\ down' = down \cup {clientMap[s]}
    /\ UNCHANGED <<task, CallFrame>>

-----------------------------------------------------------------------------
(* LoadBalancedClient.Call and Close. *)

\* GetServer picks an address, or fails.
Call(u) ==
    /\ task[u].pc = "idle"
    /\ \/ \E s \in Servers :
            task' = [task EXCEPT ![u].pc = "lock", ![u].address = s]
       \/ CallEnds(u, "error")
    /\ UNCHANGED <<dialVars, down, cast, globalVars>>

ContextDone(u) ==
    /\ task[u].pc \notin {"idle", "returned"} /\ ~task[u].contextDone
    /\ task' = [task EXCEPT ![u].contextDone = TRUE]
    /\ UNCHANGED <<dialVars, down, cast, globalVars>>

Close ==
    /\ mutex = None
    /\ \E s \in Servers : clientMap[s] # None
    /\ CloseClients({clientMap[s] : s \in Servers} \ {None})
    /\ clientMap' = [s \in Servers |-> None]
    /\ closeCalled' = TRUE
    /\ UNCHANGED <<mutex, timeout, down, creator, task, cast, crashed>>

-----------------------------------------------------------------------------
(* BroadcastCall. *)

\* GetServerList fails, or a goroutine is started for each of its servers.
BroadcastCall ==
    /\ cast.pc = "idle"
    /\ \/ /\ cast' = [cast EXCEPT !.pc = "returned", !.error = TRUE]
          /\ UNCHANGED task
       \/ \E list \in SUBSET Servers :
            /\ cast' = [cast EXCEPT !.pc = "waiting", !.serverList = list]
            /\ task' = [t \in Tasks |->
                          IF t \in list THEN [task[t] EXCEPT !.pc = "lock"]
                                        ELSE task[t]]
    /\ UNCHANGED <<dialVars, down, globalVars>>

GoroutineEnds(s) == task' = [task EXCEPT ![s].pc = "returned"]

\* Mutant: an error after the first answer is not an error any more.
SettleErrorUnlessDone(s) ==
    /\ task[s].pc = "settle" /\ task[s].result = "error"
    /\ GoroutineEnds(s)
    /\ cast' = [cast EXCEPT !.error = @ \/ ~cast.replyDone, !.cancelled = TRUE]
    /\ UNCHANGED <<dialVars, down, globalVars>>

\* Mutant: the other calls are not cancelled.
SettleErrorOnly(s) ==
    /\ task[s].pc = "settle" /\ task[s].result = "error"
    /\ GoroutineEnds(s)
    /\ cast' = [cast EXCEPT !.error = TRUE]
    /\ UNCHANGED <<dialVars, down, globalVars>>

\* The first error is kept and cancels the other calls.
SettleError(s) ==
    /\ task[s].pc = "settle" /\ task[s].result = "error"
    /\ GoroutineEnds(s)
    /\ cast' = [cast EXCEPT !.error = TRUE, !.cancelled = TRUE]
    /\ UNCHANGED <<dialVars, down, globalVars>>

\* The first answer becomes the output, once the client it came by has been
\* looked up for the log.
SettleAnswer(s) ==
    /\ task[s].pc = "settle" /\ task[s].result = "nil"
    /\ cast.replyDone \/ clientMap[s] # None
    /\ GoroutineEnds(s)
    /\ cast' = [cast EXCEPT !.replyDone = TRUE,
                            !.output = IF cast.replyDone THEN @ ELSE s]
    /\ UNCHANGED <<dialVars, down, globalVars>>

\* dial can store into the map now, or Close, or dial, delete from it.
MapWrite ==
    \/ \E t \in Tasks : task[t].pc = "create" /\ creator[t] = "created"
    \/ mutex = None /\ \E s \in Servers : clientMap[s] # None

\* The map is read without its mutex: an entry that is gone is dereferenced,
\* and a write at the same time is a fatal error of the runtime.
SettleCrashes(s) ==
    /\ task[s].pc = "settle" /\ task[s].result = "nil" /\ ~cast.replyDone
    /\ \/ clientMap[s] = None /\ crashed' = "nil"
       \/ MapWrite /\ crashed' = "race"
    /\ UNCHANGED <<dialVars, down, task, cast, closeCalled>>

\* waitGroup.Wait, then the error, if there was one.
BroadcastReturns ==
    /\ cast.pc = "waiting"
    /\ \A s \in cast.serverList : task[s].pc = "returned"
    /\ cast' = [cast EXCEPT !.pc = "returned", !.cancelled = TRUE]
    /\ UNCHANGED <<dialVars, down, task, globalVars>>

\* The context given to BroadcastCall is over.
BroadcastExpires ==
    /\ cast.pc = "waiting" /\ ~cast.cancelled
    /\ cast' = [cast EXCEPT !.cancelled = TRUE]
    /\ UNCHANGED <<dialVars, down, task, globalVars>>

-----------------------------------------------------------------------------
\* What a task does without waiting for a server; net.DialTimeout has a limit
\* of its own, which is the system's if ConnectionTimeout is none.
TaskStep(t) ==
    /\ crashed = "no"
    /\ \/ DialReuses(t) \/ DialAnew(t) \/ ConnectFails(t) \/ Connect(t)
       \/ DialSucceeds(t) \/ DialFails(t)
       \/ CallTimesOut(t)
       \/ task[t].client \in Unavailable /\ (CallSent(t) \/ CallFails(t))
       \/ t \in Servers /\ (SettleError(t) \/ SettleAnswer(t) \/ SettleCrashes(t))

ServerStep ==
    /\ crashed = "no"
    /\ \/ \E t \in Tasks :
            CreateClient(t) \/ CallSent(t) \/ CallAnswered(t) \/ CallFails(t)
       \/ \E s \in Servers : GoDown(s)

UserStep ==
    /\ crashed = "no"
    /\ \/ \E u \in Callers : Call(u) \/ ContextDone(u)
       \/ BroadcastCall \/ BroadcastExpires \/ Close

Return == crashed = "no" /\ BroadcastReturns

\* Everything is over; any other state without a successor is a deadlock.
Quiescent ==
    /\ crashed # "no" \/ cast.pc = "returned"
    /\ crashed = "no" => \A u \in Callers : task[u].pc = "returned"
    /\ UNCHANGED vars

Next ==
    \/ \E t \in Tasks : TaskStep(t)
    \/ ServerStep \/ UserStep \/ Return \/ Quiescent

Spec == Init /\ [][Next]_vars

\* Goroutines run, timers fire and net.DialTimeout ends; no server need read a
\* request, answer, accept a CONNECT or fail, and no context need end.
FairSpec ==
    /\ Spec
    /\ \A t \in Tasks : WF_vars(TaskStep(t))
    /\ WF_vars(Return)

-----------------------------------------------------------------------------
(* Correctness. *)

\* A broadcast that returns nil has been answered by every server of the list,
\* and its output is the answer of one of them.
BroadcastComplete ==
    cast.pc = "returned" /\ ~cast.error =>
        /\ \A s \in cast.serverList : task[s].result = "nil"
        /\ cast.serverList # {} => cast.output \in cast.serverList

\* No connection is lost track of: one that is open is its server's entry in
\* the map, where Close and the next dial find it, or is just being dialled.
\* In particular no server has two, whoever dials, times out or closes.
NoConnectionLeaked ==
    \A k \in Tasks : connection[k] = "open" =>
        Entry(k) = k \/ (mutex = k /\ task[k].pc = "create")

\* The client that BroadcastCall looks up is there, and nothing is dereferenced
\* that is nil, as long as nobody else uses the load-balanced client meanwhile.
BroadcastFindsItsClients ==
    crashed = "nil" => closeCalled \/ \E u \in Callers : task[u].pc # "idle"

\* The task does not stay for ever in sendCall's write, as it does if its server
\* stops reading: client.Call looks at its context only after that.
SendsEnd(t) == []<>(task[t].pc # "call")

\* With a ConnectionTimeout, the first error ends a broadcast, provided that
\* its servers read what is sent to them: the calls that wait for an answer are
\* cancelled, and those that wait for the mutex get it although it is held
\* while other servers are dialled.
FailureEndsBroadcast ==
    (\A s \in Servers : SendsEnd(s)) =>
        ((cast.error /\ timeout # 0) ~> (cast.pc = "returned" \/ crashed # "no"))

\* With a ConnectionTimeout, a Call whose context is over returns, provided that
\* its own server reads the request: it need not answer, and neither the server
\* nor those that others dial or call meanwhile need do anything else.
ContextEndsCall ==
    \A u \in Callers :
        SendsEnd(u) =>
            ((task[u].contextDone /\ timeout # 0)
                ~> (task[u].pc = "returned" \/ crashed # "no"))
=============================================================================
