---------------------- MODULE LoadBalancedClientProofs ----------------------
(***************************************************************************)
(* Proofs about LoadBalancedClient, for any number of servers and callers: *)
(* the type invariant, NoConnectionLeaked, BroadcastComplete and           *)
(* BroadcastFindsItsClients.  They follow from the inductive invariant     *)
(* IInv: who holds the mutex, what the map of clients may hold while       *)
(* somebody dials, what BroadcastCall has collected from the goroutines    *)
(* that ended, and whose client a goroutine of a broadcast still finds.    *)
(***************************************************************************)
EXTENDS LoadBalancedClient, TLAPS

\* The mutex is held exactly across XMakeDial.
MutexInv ==
    \A t \in Tasks : mutex = t <=> task[t].pc \in {"connect", "create"}

\* A task works on an address; a goroutine of a broadcast on its own server's.
AddressInv ==
    /\ \A t \in Tasks :
         task[t].pc \in {"lock", "connect", "create", "call", "wait", "settle"}
           => task[t].address \in Servers
    /\ \A s \in Servers : task[s].address = s

\* A task dials once, and its client is filed under its address when it has
\* been created; the entry is empty while its address is dialled.
MapInv ==
    /\ \A t \in Tasks : task[t].pc \in {"idle", "lock", "connect"} =>
         connection[t] = "none"
    /\ \A t \in Tasks : connection[t] # "none" => task[t].address \in Servers
    /\ \A s \in Servers : clientMap[s] # None =>
         /\ task[clientMap[s]].address = s
         /\ task[clientMap[s]].pc \in {"call", "wait", "settle", "returned"}
    /\ \A t \in Tasks : task[t].pc \in {"connect", "create"} => Entry(t) = None

\* What BroadcastCall knows of the goroutines that ended.
CastInv ==
    /\ \A s \in Servers : s \in cast.serverList <=> task[s].pc # "idle"
    /\ cast.pc = "idle" => cast.serverList = {}
    /\ \A s \in Servers : task[s].pc \in {"settle", "returned"} =>
         task[s].result \in {"nil", "error"}
    /\ \A s \in Servers : task[s].result = "nil" => ~cast.nilOutput
    /\ \A s \in Servers : task[s].pc = "returned" =>
         IF task[s].result = "error" THEN cast.error ELSE cast.replyDone
    /\ cast.replyDone /\ ~cast.nilOutput => cast.output \in cast.serverList
    /\ cast.pc = "returned" /\ ~cast.error =>
         \A s \in cast.serverList : task[s].pc = "returned"

\* Nobody but the broadcast uses the load-balanced client.
Alone == ~closeCalled /\ \A u \in Callers : task[u].pc = "idle"

\* Then a goroutine that got a client leaves it in the map.
FoundInv ==
    /\ Alone => \A s \in Servers :
         \/ task[s].pc \in {"call", "wait"}
         \/ task[s].pc = "settle" /\ task[s].result = "nil"
         => clientMap[s] # None
    /\ BroadcastFindsItsClients

IInv ==
    /\ TypeOK
    /\ MutexInv
    /\ AddressInv
    /\ NoConnectionLeaked
    /\ MapInv
    /\ CastInv
    /\ FoundInv

-----------------------------------------------------------------------------
(* What the actions do to the record of a task. *)

USE TasksAssumption DEF Tasks, dialVars, globalVars, CallFrame

\* The value of a task's variables.
States ==
    {"idle", "lock", "connect", "create", "call", "wait", "settle", "returned"}

Locals ==
    [pc : States, address : Servers \cup {None}, client : Tasks \cup {None},
     result : {"none", "nil", "error"}, contextDone : BOOLEAN]

\* The step moves t to pc = p with client k and result r, and no other task.
Moves(t, p, k, r) ==
    /\ task' \in [Tasks -> Locals]
    /\ \A q \in Tasks \ {t} : task'[q] = task[q]
    /\ task'[t].pc = p /\ task'[t].address = task[t].address
    /\ task'[t].client = k /\ task'[t].result = r

Stays(t, p) == Moves(t, p, task[t].client, task[t].result)

\* Where a task is when call() is over.
Over(t) == IF t \in Servers THEN "settle" ELSE "returned"

Ends(t, r) == Moves(t, Over(t), task[t].client, r)

\* What TypeOK says of a task and of the map.
LEMMA TaskType ==
    ASSUME TypeOK
    PROVE  /\ task \in [Tasks -> Locals]
           /\ \A t \in Tasks : task[t].pc \in {"call", "wait"} => task[t].client \in Tasks
           /\ \A s \in Servers : clientMap[s] \in Tasks \cup {None}
  BY DEF TypeOK, Locals, States

\* The assignments to a task's variables that the actions make.
LEMMA Assignments ==
    ASSUME TypeOK, NEW t \in Tasks
    PROVE  /\ \A p \in States : task' = [task EXCEPT ![t].pc = p] => Stays(t, p)
           /\ \A k \in Tasks :
                task' = [task EXCEPT ![t].pc = "call", ![t].client = k]
                  => Moves(t, "call", k, task[t].result)
           /\ \A r \in {"nil", "error"} : CallEnds(t, r) => Ends(t, r)
           /\ task' = [task EXCEPT ![t].contextDone = TRUE] => Stays(t, task[t].pc)
<1>1. task \in [Tasks -> Locals]
  BY TaskType
<1>2. ASSUME NEW p \in States, task' = [task EXCEPT ![t].pc = p]
      PROVE  Stays(t, p)
  BY <1>1, <1>2 DEF Stays, Moves, Locals
<1>3. ASSUME NEW k \in Tasks,
             task' = [task EXCEPT ![t].pc = "call", ![t].client = k]
      PROVE  Moves(t, "call", k, task[t].result)
  BY <1>1, <1>3 DEF Moves, Locals, States
<1>4. ASSUME NEW r \in {"nil", "error"}, CallEnds(t, r) PROVE Ends(t, r)
  BY <1>1, <1>4 DEF Ends, Moves, Over, CallEnds, Locals, States
<1>5. ASSUME task' = [task EXCEPT ![t].contextDone = TRUE]
      PROVE  Stays(t, task[t].pc)
  BY <1>1, <1>5 DEF Stays, Moves, Locals, States
<1>6. QED
  BY <1>2, <1>3, <1>4, <1>5

\* What each action does to the record of the task that takes it.
LEMMA TaskEffects ==
    ASSUME TypeOK, AddressInv, NEW t \in Tasks
    PROVE  /\ DialReuses(t) => Entry(t) \in Tasks
                               /\ Moves(t, "call", Entry(t), task[t].result)
           /\ DialAnew(t) => Stays(t, "connect")
           /\ ConnectFails(t) => Ends(t, "error")
           /\ Connect(t) => Stays(t, "create")
           /\ DialSucceeds(t) => Moves(t, "call", t, task[t].result)
           /\ DialFails(t) => Ends(t, "error")
           /\ CallSent(t) => Ends(t, "error") \/ Stays(t, "wait")
           /\ CallTimesOut(t) => Ends(t, "error")
           /\ CallFails(t) => Ends(t, "error")
           /\ CallAnswered(t) =>
                \/ Ends(t, "error")
                \/ Ends(t, "nil") /\ ~(t \in Servers /\ cast.nilOutput)
           /\ SettleError(t) \/ SettleAnswer(t) => Stays(t, "returned")
           /\ ContextDone(t) => Stays(t, task[t].pc)
<1>1. /\ \A p \in States : task' = [task EXCEPT ![t].pc = p] => Stays(t, p)
      /\ \A k \in Tasks :
           task' = [task EXCEPT ![t].pc = "call", ![t].client = k]
             => Moves(t, "call", k, task[t].result)
      /\ \A r \in {"nil", "error"} : CallEnds(t, r) => Ends(t, r)
      /\ task' = [task EXCEPT ![t].contextDone = TRUE] => Stays(t, task[t].pc)
  BY Assignments
<1>2. /\ task' = [task EXCEPT ![t].pc = "connect"] => Stays(t, "connect")
      /\ task' = [task EXCEPT ![t].pc = "create"] => Stays(t, "create")
      /\ task' = [task EXCEPT ![t].pc = "wait"] => Stays(t, "wait")
      /\ task' = [task EXCEPT ![t].pc = "returned"] => Stays(t, "returned")
      /\ CallEnds(t, "nil") => Ends(t, "nil")
      /\ CallEnds(t, "error") => Ends(t, "error")
  BY <1>1 DEF States
<1>3. ASSUME DialReuses(t)
      PROVE  Entry(t) \in Tasks /\ Moves(t, "call", Entry(t), task[t].result)
  <2>1. Entry(t) \in Tasks
    BY <1>3, TaskType DEF DialReuses, AddressInv, Entry
  <2>2. task' = [task EXCEPT ![t].pc = "call", ![t].client = Entry(t)]
    BY <1>3 DEF DialReuses
  <2>3. QED
    BY <1>1, <2>1, <2>2
<1>4. DialAnew(t) => Stays(t, "connect")
  BY <1>2 DEF DialAnew
<1>5. ConnectFails(t) => Ends(t, "error")
  BY <1>2 DEF ConnectFails, DialError
<1>6. Connect(t) => Stays(t, "create")
  BY <1>2 DEF Connect
<1>7. DialSucceeds(t) => Moves(t, "call", t, task[t].result)
  BY <1>1 DEF DialSucceeds
<1>8. DialFails(t) => Ends(t, "error")
  BY <1>2 DEF DialFails, DialError
<1>9. CallSent(t) => Ends(t, "error") \/ Stays(t, "wait")
  BY <1>2 DEF CallSent
<1>10. (CallTimesOut(t) => Ends(t, "error")) /\ (CallFails(t) => Ends(t, "error"))
  BY <1>2 DEF CallTimesOut, CallFails
<1>11. CallAnswered(t) =>
         \/ Ends(t, "error")
         \/ Ends(t, "nil") /\ ~(t \in Servers /\ cast.nilOutput)
  BY <1>2 DEF CallAnswered
<1>12. SettleError(t) \/ SettleAnswer(t) => Stays(t, "returned")
  BY <1>2 DEF SettleError, SettleAnswer, GoroutineEnds
<1>13. ContextDone(t) => Stays(t, task[t].pc)
  BY <1>1 DEF ContextDone
<1>14. QED
  BY <1>3, <1>4, <1>5, <1>6, <1>7, <1>8, <1>9, <1>10, <1>11, <1>12, <1>13

\* Call gives an idle caller an address, or fails at once.
LEMMA CallEffect ==
    ASSUME TypeOK, NEW u \in Callers, Call(u)
    PROVE  \/ Ends(u, "error")
           \/ /\ task' \in [Tasks -> Locals]
              /\ \A q \in Tasks \ {u} : task'[q] = task[q]
              /\ task'[u].pc = "lock" /\ task'[u].address \in Servers
              /\ task'[u].client = task[u].client /\ task'[u].result = task[u].result
<1>1. task \in [Tasks -> Locals] /\ (CallEnds(u, "error") => Ends(u, "error"))
  BY TaskType, Assignments
<1>2. ASSUME NEW s \in Servers,
             task' = [task EXCEPT ![u].pc = "lock", ![u].address = s]
      PROVE  /\ task' \in [Tasks -> Locals]
             /\ \A q \in Tasks \ {u} : task'[q] = task[q]
             /\ task'[u].pc = "lock" /\ task'[u].address \in Servers
             /\ task'[u].client = task[u].client /\ task'[u].result = task[u].result
  <2> DEFINE e == [task[u] EXCEPT !.pc = "lock", !.address = s]
  <2>1. task' = [task EXCEPT ![u] = e]
    BY <1>2
  <2>2. /\ task[u] \in Locals /\ e \in Locals
        /\ e.pc = "lock" /\ e.address = s
        /\ e.client = task[u].client /\ e.result = task[u].result
    BY <1>1 DEF Locals, States
  <2> HIDE DEF e
  <2>3. QED
    BY <1>1, <2>1, <2>2
<1>3. QED
  BY <1>1, <1>2 DEF Call

\* BroadcastCall starts a goroutine for each server of the list, or fails.
LEMMA BroadcastEffect ==
    ASSUME TypeOK, BroadcastCall
    PROVE  \/ /\ cast' = [cast EXCEPT !.pc = "returned", !.error = TRUE]
              /\ UNCHANGED task
           \/ \E list \in SUBSET Servers :
                /\ cast' = [cast EXCEPT !.pc = "waiting", !.serverList = list]
                /\ task' \in [Tasks -> Locals]
                /\ \A q \in Tasks : q \notin list => task'[q] = task[q]
                /\ \A q \in list :
                     /\ task'[q].pc = "lock" /\ task'[q].address = task[q].address
                     /\ task'[q].client = task[q].client
                     /\ task'[q].result = task[q].result
<1>1. task \in [Tasks -> Locals]
  BY TaskType
<1>2. ASSUME NEW list \in SUBSET Servers,
             task' = [t \in Tasks |->
                        IF t \in list THEN [task[t] EXCEPT !.pc = "lock"]
                                      ELSE task[t]]
      PROVE  /\ task' \in [Tasks -> Locals]
             /\ \A q \in Tasks : q \notin list => task'[q] = task[q]
             /\ \A q \in list :
                  /\ task'[q].pc = "lock" /\ task'[q].address = task[q].address
                  /\ task'[q].client = task[q].client
                  /\ task'[q].result = task[q].result
  BY <1>1, <1>2 DEF Locals, States
<1>3. QED
  BY <1>2 DEF BroadcastCall

-----------------------------------------------------------------------------
(* Every step preserves each conjunct of IInv. *)

\* The types of everything but the tasks.
SharedType ==
    /\ mutex \in Tasks \cup {None}
    /\ clientMap \in [Servers -> Tasks \cup {None}]
    /\ timeout \in Timeouts
    /\ down \subseteq Tasks
    /\ connection \in [Tasks -> {"none", "open", "closed"}]
    /\ creator \in [Tasks -> {"none", "creating", "created", "failed"}]
    /\ cast \in
         [pc : {"idle", "waiting", "returned"}, serverList : SUBSET Servers,
          nilOutput : BOOLEAN, output : Servers \cup {None},
          error : BOOLEAN, replyDone : BOOLEAN, cancelled : BOOLEAN]
    /\ closeCalled \in BOOLEAN /\ crashed \in {"no", "nil", "race"}

\* The type of the tasks; dial returns a client when it returns no error.
LocalType ==
    /\ task \in [Tasks -> Locals]
    /\ \A t \in Tasks : task[t].pc \in {"call", "wait"} => task[t].client # None

\* TypeOK is about what the tasks share and about the tasks themselves.
LEMMA TypeParts == TypeOK <=> SharedType /\ LocalType
  BY DEF TypeOK, SharedType, LocalType, Locals, States

\* A task moves within its type.
LEMMA LocalMoves ==
    ASSUME LocalType, NEW t \in Tasks, NEW p, NEW k, NEW r, Moves(t, p, k, r),
           p \in {"call", "wait"} => k # None
    PROVE  LocalType'
  BY DEF LocalType, Moves

\* A task ends within its type.
LEMMA LocalEnds ==
    ASSUME LocalType, NEW t \in Tasks, NEW r, Ends(t, r)
    PROVE  LocalType'
  BY LocalMoves DEF Ends, Over

\* A task that goes on with the client it has stays within its type.
LEMMA LocalStays ==
    ASSUME LocalType, NEW t \in Tasks, NEW p, Stays(t, p),
           p \in {"call", "wait"} => task[t].client # None
    PROVE  LocalType'
  BY LocalMoves DEF Stays

\* client.Close closes clients only.
LEMMA ClosedType ==
    ASSUME SharedType, NEW K \in SUBSET Tasks, CloseClients(K)
    PROVE  connection' \in [Tasks -> {"none", "open", "closed"}]
  BY DEF CloseClients, SharedType

\* TypeOK.
LEMMA TypeStep ==
    ASSUME TypeOK, AddressInv, [Next]_vars
    PROVE  TypeOK'
<1>a. SharedType /\ LocalType
  BY TypeParts
<1>b. SharedType' /\ LocalType' => TypeOK'
  BY TypeParts, PTL
<1>1. ASSUME NEW t \in Tasks, DialReuses(t) PROVE TypeOK'
  <2>1. LocalType'
    BY <1>1, <1>a, TaskEffects, LocalMoves DEF DialReuses
  <2>2. SharedType'
    BY <1>1, <1>a DEF DialReuses, SharedType
  <2>3. QED
    BY <1>b, <2>1, <2>2
<1>2. ASSUME NEW t \in Tasks, DialAnew(t) PROVE TypeOK'
  <2>1. LocalType'
    BY <1>2, <1>a, TaskEffects, LocalStays
  <2>2. Entry(t) \in Tasks \cup {None}
    BY <1>2, TaskType DEF DialAnew, AddressInv, Entry
  <2>3. clientMap' \in [Servers -> Tasks \cup {None}]
    BY <1>2, <1>a DEF DialAnew, SharedType
  <2>4. SharedType'
    BY <1>2, <1>a, <2>2, <2>3, ClosedType DEF DialAnew, SharedType
  <2>5. QED
    BY <1>b, <2>1, <2>4
<1>3. ASSUME NEW t \in Tasks, ConnectFails(t) PROVE TypeOK'
  <2>1. LocalType'
    BY <1>3, <1>a, TaskEffects, LocalEnds
  <2>2. SharedType'
    BY <1>3, <1>a DEF ConnectFails, DialError, SharedType
  <2>3. QED
    BY <1>b, <2>1, <2>2
<1>4. ASSUME NEW t \in Tasks, Connect(t) PROVE TypeOK'
  <2>1. LocalType'
    BY <1>4, <1>a, TaskEffects, LocalStays
  <2>2. SharedType'
    BY <1>4, <1>a DEF Connect, SharedType
  <2>3. QED
    BY <1>b, <2>1, <2>2
<1>5. ASSUME NEW t \in Tasks, DialSucceeds(t) PROVE TypeOK'
  <2>1. LocalType'
    BY <1>5, <1>a, TaskEffects, LocalMoves
  <2>2. clientMap' \in [Servers -> Tasks \cup {None}]
    BY <1>5, <1>a DEF DialSucceeds, SharedType
  <2>3. SharedType'
    BY <1>5, <1>a, <2>2 DEF DialSucceeds, SharedType
  <2>4. QED
    BY <1>b, <2>1, <2>3
<1>6. ASSUME NEW t \in Tasks, DialFails(t) PROVE TypeOK'
  <2>1. LocalType'
    BY <1>6, <1>a, TaskEffects, LocalEnds
  <2>2. SharedType'
    BY <1>6, <1>a DEF DialFails, DialError, SharedType
  <2>3. QED
    BY <1>b, <2>1, <2>2
<1>7. ASSUME NEW t \in Tasks, CallSent(t) PROVE TypeOK'
  <2>1. task[t].client # None
    BY <1>7, <1>a DEF CallSent, LocalType
  <2>2. LocalType'
    BY <1>7, <1>a, <2>1, TaskEffects, LocalEnds, LocalStays
  <2>3. SharedType'
    BY <1>7, <1>a DEF CallSent, SharedType
  <2>4. QED
    BY <1>b, <2>2, <2>3
<1>8. ASSUME NEW t \in Tasks, CallTimesOut(t) PROVE TypeOK'
  <2>1. LocalType'
    BY <1>8, <1>a, TaskEffects, LocalEnds
  <2>2. SharedType'
    BY <1>8, <1>a DEF CallTimesOut, SharedType
  <2>3. QED
    BY <1>b, <2>1, <2>2
<1>9. ASSUME NEW t \in Tasks, CallFails(t) PROVE TypeOK'
  <2>1. LocalType'
    BY <1>9, <1>a, TaskEffects, LocalEnds
  <2>2. task[t].client \in Tasks
    BY <1>9, TaskType DEF CallFails
  <2>3. SharedType'
    BY <1>9, <1>a, <2>2 DEF CallFails, SharedType
  <2>4. QED
    BY <1>b, <2>1, <2>3
<1>10. ASSUME NEW t \in Tasks, CreateClient(t) PROVE TypeOK'
  <2>1. LocalType'
    BY <1>10, <1>a DEF CreateClient, LocalType
  <2>2. SharedType'
    BY <1>10, <1>a DEF CreateClient, SharedType
  <2>3. QED
    BY <1>b, <2>1, <2>2
<1>11. ASSUME NEW t \in Tasks, CallAnswered(t) PROVE TypeOK'
  <2>1. LocalType'
    BY <1>11, <1>a, TaskEffects, LocalEnds
  <2>2. task[t].client \in Tasks
    BY <1>11, TaskType DEF CallAnswered
  <2>3. SharedType'
    BY <1>11, <1>a, <2>2 DEF CallAnswered, SharedType
  <2>4. QED
    BY <1>b, <2>1, <2>3
<1>12. ASSUME NEW s \in Servers, GoDown(s) PROVE TypeOK'
  <2>1. LocalType'
    BY <1>12, <1>a DEF GoDown, LocalType
  <2>2. SharedType'
    BY <1>12, <1>a DEF GoDown, SharedType
  <2>3. QED
    BY <1>b, <2>1, <2>2
<1>13. ASSUME NEW s \in Servers, SettleError(s) \/ SettleAnswer(s) PROVE TypeOK'
  <2>1. LocalType'
    BY <1>13, <1>a, TaskEffects, LocalStays
  <2>2. cast' \in
         [pc : {"idle", "waiting", "returned"}, serverList : SUBSET Servers,
          nilOutput : BOOLEAN, output : Servers \cup {None},
          error : BOOLEAN, replyDone : BOOLEAN, cancelled : BOOLEAN]
    <3>1. CASE SettleError(s)
      BY <1>a, <3>1 DEF SettleError, SharedType
    <3>2. CASE SettleAnswer(s)
      BY <1>a, <3>2 DEF SettleAnswer, SharedType
    <3>3. QED
      BY <1>13, <3>1, <3>2
  <2>3. SharedType'
    BY <1>13, <1>a, <2>2 DEF SettleError, SettleAnswer, SharedType
  <2>4. QED
    BY <1>b, <2>1, <2>3
<1>14. ASSUME NEW s \in Servers, SettleCrashes(s) PROVE TypeOK'
  <2>1. LocalType'
    BY <1>14, <1>a DEF SettleCrashes, LocalType
  <2>2. SharedType'
    BY <1>14, <1>a DEF SettleCrashes, SharedType
  <2>3. QED
    BY <1>b, <2>1, <2>2
<1>15. ASSUME NEW u \in Callers, Call(u) PROVE TypeOK'
  <2>1. LocalType'
    BY <1>15, <1>a, CallEffect, LocalEnds DEF LocalType
  <2>2. SharedType'
    BY <1>15, <1>a DEF Call, SharedType
  <2>3. QED
    BY <1>b, <2>1, <2>2
<1>16. ASSUME NEW u \in Callers, ContextDone(u) PROVE TypeOK'
  <2>1. LocalType'
    BY <1>16, <1>a, TaskEffects, LocalStays DEF LocalType
  <2>2. SharedType'
    BY <1>16, <1>a DEF ContextDone, SharedType
  <2>3. QED
    BY <1>b, <2>1, <2>2
<1>17. CASE BroadcastCall
  <2>1. LocalType'
    BY <1>17, <1>a, BroadcastEffect DEF LocalType
  <2>2. cast' \in
         [pc : {"idle", "waiting", "returned"}, serverList : SUBSET Servers,
          nilOutput : BOOLEAN, output : Servers \cup {None},
          error : BOOLEAN, replyDone : BOOLEAN, cancelled : BOOLEAN]
    BY <1>17, <1>a, BroadcastEffect DEF SharedType
  <2>3. SharedType'
    BY <1>17, <1>a, <2>2 DEF BroadcastCall, SharedType
  <2>4. QED
    BY <1>b, <2>1, <2>3
<1>18. CASE BroadcastExpires \/ BroadcastReturns
  <2>1. LocalType'
    BY <1>18, <1>a DEF BroadcastExpires, BroadcastReturns, LocalType
  <2>2. SharedType'
    <3>1. cast' = [cast EXCEPT !.cancelled = TRUE]
          \/ cast' = [cast EXCEPT !.pc = "returned", !.cancelled = TRUE]
      BY <1>18 DEF BroadcastExpires, BroadcastReturns
    <3>2. UNCHANGED <<dialVars, down, globalVars>>
      BY <1>18 DEF BroadcastExpires, BroadcastReturns
    <3>3. QED
      BY <1>a, <3>1, <3>2 DEF SharedType
  <2>3. QED
    BY <1>b, <2>1, <2>2
<1>19. CASE Close
  <2>1. LocalType'
    BY <1>19, <1>a DEF Close, LocalType
  <2>2. {clientMap[s] : s \in Servers} \ {None} \in SUBSET Tasks
    BY <1>a DEF SharedType
  <2>3. SharedType'
    BY <1>19, <1>a, <2>2, ClosedType DEF Close, SharedType
  <2>4. QED
    BY <1>b, <2>1, <2>3
<1>20. CASE UNCHANGED vars
  BY <1>20 DEF vars, TypeOK
<1>21. QED
  BY <1>1, <1>2, <1>3, <1>4, <1>5, <1>6, <1>7, <1>8, <1>9, <1>10, <1>11,
     <1>12, <1>13, <1>14, <1>15, <1>16, <1>17, <1>18, <1>19, <1>20
  DEF Next, TaskStep, ServerStep, UserStep, Return, Quiescent

-----------------------------------------------------------------------------
(* The steps, as the invariants see them. *)

Kept == UNCHANGED <<mutex, clientMap, connection, closeCalled>>

\* dial finds a client.
Reuses(t) ==
    /\ task[t].pc = "lock" /\ Entry(t) \in Tasks
    /\ Moves(t, "call", Entry(t), task[t].result)
    /\ Kept /\ UNCHANGED <<cast, crashed>>

\* It takes the mutex, and closes and deletes what the map has.
Locks(t) ==
    /\ task[t].pc = "lock" /\ mutex = None
    /\ Stays(t, "connect")
    /\ mutex' = t
    /\ clientMap' = [clientMap EXCEPT ![task[t].address] = None]
    /\ connection' = [k \in Tasks |->
                        IF k = Entry(t) THEN "closed" ELSE connection[k]]
    /\ UNCHANGED <<closeCalled, cast, crashed>>

\* XMakeDial fails, with or without a connection to close.
DialReturnsError(t) ==
    /\ \/ task[t].pc = "connect" /\ UNCHANGED connection
       \/ /\ task[t].pc = "create"
          /\ connection' = [connection EXCEPT ![t] = "closed"]
    /\ Ends(t, "error")
    /\ mutex' = None
    /\ UNCHANGED <<clientMap, closeCalled, cast, crashed>>

Connects(t) ==
    /\ task[t].pc = "connect"
    /\ Stays(t, "create")
    /\ connection' = [connection EXCEPT ![t] = "open"]
    /\ UNCHANGED <<mutex, clientMap, closeCalled, cast, crashed>>

Stores(t) ==
    /\ task[t].pc = "create"
    /\ Moves(t, "call", t, task[t].result)
    /\ clientMap' = [clientMap EXCEPT ![task[t].address] = t]
    /\ mutex' = None
    /\ UNCHANGED <<connection, closeCalled, cast, crashed>>

\* client.Call returns; nobody gets an answer that cannot be decoded.
Returns(t, r) ==
    /\ task[t].pc \in {"call", "wait"} /\ r \in {"nil", "error"}
    /\ r = "nil" => ~(t \in Servers /\ cast.nilOutput)
    /\ Ends(t, r)
    /\ Kept /\ UNCHANGED <<cast, crashed>>

Waits(t) ==
    /\ task[t].pc = "call"
    /\ Stays(t, "wait")
    /\ Kept /\ UNCHANGED <<cast, crashed>>

\* A goroutine of the broadcast reports its error or its answer.
Settles(s) ==
    /\ task[s].pc = "settle"
    /\ Stays(s, "returned")
    /\ \/ /\ task[s].result = "error"
          /\ cast' = [cast EXCEPT !.error = TRUE, !.cancelled = TRUE]
       \/ /\ task[s].result = "nil"
          /\ cast' = [cast EXCEPT !.replyDone = TRUE,
                                  !.output = IF cast.replyDone THEN @ ELSE s]
    /\ Kept /\ UNCHANGED crashed

Crashes(s) ==
    /\ task[s].pc = "settle" /\ task[s].result = "nil"
    /\ crashed' = "nil" => clientMap[s] = None
    /\ Kept /\ UNCHANGED <<task, cast>>

\* Call picks an address, or fails at once.
Starts(u) ==
    /\ task[u].pc = "idle"
    /\ \/ Ends(u, "error")
       \/ /\ task' \in [Tasks -> Locals]
          /\ \A q \in Tasks \ {u} : task'[q] = task[q]
          /\ task'[u].pc = "lock" /\ task'[u].address \in Servers
          /\ task'[u].client = task[u].client /\ task'[u].result = task[u].result
    /\ Kept /\ UNCHANGED <<cast, crashed>>

\* BroadcastCall starts a goroutine for each server of the list, or fails.
Broadcasts ==
    /\ cast.pc = "idle"
    /\ \/ /\ cast' = [cast EXCEPT !.pc = "returned", !.error = TRUE]
          /\ UNCHANGED task
       \/ \E list \in SUBSET Servers :
            /\ cast' = [cast EXCEPT !.pc = "waiting", !.serverList = list]
            /\ task' \in [Tasks -> Locals]
            /\ \A q \in Tasks : q \notin list => task'[q] = task[q]
            /\ \A q \in list :
                 /\ task'[q].pc = "lock" /\ task'[q].address = task[q].address
                 /\ task'[q].client = task[q].client
                 /\ task'[q].result = task[q].result
    /\ Kept /\ UNCHANGED crashed

\* Nothing changes that the invariants speak of.
Idles ==
    /\ \A q \in Tasks :
         /\ task'[q].pc = task[q].pc /\ task'[q].address = task[q].address
         /\ task'[q].client = task[q].client /\ task'[q].result = task[q].result
    /\ cast' = cast \/ cast' = [cast EXCEPT !.cancelled = TRUE]
    /\ Kept /\ UNCHANGED crashed

\* Every step is one of these.
LEMMA StepKinds ==
    ASSUME TypeOK, AddressInv, [Next]_vars
    PROVE  \/ \E t \in Tasks :
                \/ Reuses(t) \/ Locks(t) \/ DialReturnsError(t) \/ Connects(t)
                \/ Stores(t) \/ Waits(t) \/ \E r : Returns(t, r)
           \/ \E s \in Servers : Settles(s) \/ Crashes(s)
           \/ \E u \in Callers : Starts(u)
           \/ Broadcasts \/ BroadcastReturns \/ Close \/ Idles
<1> DEFINE Kinds ==
      \/ \E t \in Tasks :
           \/ Reuses(t) \/ Locks(t) \/ DialReturnsError(t) \/ Connects(t)
           \/ Stores(t) \/ Waits(t) \/ \E r : Returns(t, r)
      \/ \E s \in Servers : Settles(s) \/ Crashes(s)
      \/ \E u \in Callers : Starts(u)
      \/ Broadcasts \/ BroadcastReturns \/ Close \/ Idles
<1> USE DEF Kept
<1>1. ASSUME NEW t \in Tasks, DialReuses(t) PROVE Kinds
  <2>1. Reuses(t)
    BY <1>1, TaskEffects DEF DialReuses, Reuses
  <2>2. QED
    BY <2>1
<1>2. ASSUME NEW t \in Tasks, DialAnew(t) PROVE Kinds
  <2>1. connection' = [k \in Tasks |-> IF k = Entry(t) THEN "closed" ELSE connection[k]]
    BY <1>2 DEF DialAnew, CloseClients
  <2>2. Locks(t)
    BY <1>2, <2>1, TaskEffects DEF DialAnew, Locks
  <2>3. QED
    BY <2>2
<1>3. ASSUME NEW t \in Tasks, ConnectFails(t) \/ DialFails(t) PROVE Kinds
  <2>1. DialReturnsError(t)
    BY <1>3, TaskEffects DEF ConnectFails, DialFails, DialError, DialReturnsError
  <2>2. QED
    BY <2>1
<1>4. ASSUME NEW t \in Tasks, Connect(t) PROVE Kinds
  <2>1. Connects(t)
    BY <1>4, TaskEffects DEF Connect, Connects
  <2>2. QED
    BY <2>1
<1>5. ASSUME NEW t \in Tasks, DialSucceeds(t) PROVE Kinds
  <2>1. Stores(t)
    BY <1>5, TaskEffects DEF DialSucceeds, Stores
  <2>2. QED
    BY <2>1
<1>6. ASSUME NEW t \in Tasks, CallSent(t) PROVE Kinds
  <2>1. Returns(t, "error") \/ Waits(t)
    BY <1>6, TaskEffects DEF CallSent, Returns, Waits
  <2>2. QED
    BY <2>1
<1>7. ASSUME NEW t \in Tasks, CallTimesOut(t) \/ CallFails(t) PROVE Kinds
  <2>1. Returns(t, "error")
    BY <1>7, TaskEffects DEF CallTimesOut, CallFails, Returns
  <2>2. QED
    BY <2>1
<1>8. ASSUME NEW t \in Tasks, CallAnswered(t) PROVE Kinds
  <2>1. Returns(t, "error") \/ Returns(t, "nil")
    BY <1>8, TaskEffects DEF CallAnswered, Returns
  <2>2. QED
    BY <2>1
<1>9. ASSUME NEW t \in Tasks, CreateClient(t) PROVE Kinds
  <2>1. Idles
    BY <1>9 DEF CreateClient, Idles
  <2>2. QED
    BY <2>1
<1>10. ASSUME NEW s \in Servers, GoDown(s) PROVE Kinds
  <2>1. Idles
    BY <1>10 DEF GoDown, Idles
  <2>2. QED
    BY <2>1
<1>11. ASSUME NEW s \in Servers, SettleError(s) \/ SettleAnswer(s) PROVE Kinds
  <2>1. Settles(s)
    BY <1>11, TaskEffects DEF SettleError, SettleAnswer, Settles
  <2>2. QED
    BY <2>1
<1>12. ASSUME NEW s \in Servers, SettleCrashes(s) PROVE Kinds
  <2>1. Crashes(s)
    BY <1>12 DEF SettleCrashes, Crashes
  <2>2. QED
    BY <2>1
<1>13. ASSUME NEW u \in Callers, Call(u) PROVE Kinds
  <2>1. Starts(u)
    BY <1>13, CallEffect DEF Call, Starts
  <2>2. QED
    BY <2>1
<1>14. ASSUME NEW u \in Callers, ContextDone(u) PROVE Kinds
  <2>1. Stays(u, task[u].pc)
    BY <1>14, TaskEffects
  <2>2. Idles
    BY <1>14, <2>1 DEF ContextDone, Idles, Stays, Moves
  <2>3. QED
    BY <2>2
<1>15. CASE BroadcastCall
  <2>1. Broadcasts
    BY <1>15, BroadcastEffect DEF BroadcastCall, Broadcasts
  <2>2. QED
    BY <2>1
<1>16. CASE BroadcastExpires \/ UNCHANGED vars
  <2>1. Idles
    BY <1>16 DEF BroadcastExpires, vars, Idles
  <2>2. QED
    BY <2>1
<1>17. QED
  BY <1>1, <1>2, <1>3, <1>4, <1>5, <1>6, <1>7, <1>8, <1>9, <1>10, <1>11,
     <1>12, <1>13, <1>14, <1>15, <1>16
  DEF Next, TaskStep, ServerStep, UserStep, Return, Quiescent

-----------------------------------------------------------------------------
\* The goroutines a broadcast starts have not run before.
LEMMA BroadcastStarts ==
    ASSUME TypeOK, CastInv, Broadcasts
    PROVE  /\ \A q \in Tasks :
                \/ task'[q] = task[q]
                \/ /\ q \in Servers /\ task[q].pc = "idle" /\ task'[q].pc = "lock"
                   /\ task'[q].address = task[q].address
                   /\ task'[q].client = task[q].client
                   /\ task'[q].result = task[q].result
           /\ Kept /\ UNCHANGED crashed
<1>1. \A s \in Servers : task[s].pc = "idle"
  BY DEF CastInv, Broadcasts
<1>2. QED
  BY <1>1 DEF Broadcasts

\* Who holds the mutex.
LEMMA MutexStep ==
    ASSUME TypeOK, AddressInv, MutexInv, CastInv, [Next]_vars
    PROVE  MutexInv'
<1>1. ASSUME NEW t \in Tasks, Reuses(t) PROVE MutexInv'
  BY <1>1 DEF Reuses, Moves, Kept, MutexInv
<1>2. ASSUME NEW t \in Tasks, Locks(t) PROVE MutexInv'
  BY <1>2 DEF Locks, Stays, Moves, MutexInv
<1>3. ASSUME NEW t \in Tasks, DialReturnsError(t) PROVE MutexInv'
  BY <1>3 DEF DialReturnsError, Ends, Over, Moves, MutexInv
<1>4. ASSUME NEW t \in Tasks, Connects(t) PROVE MutexInv'
  BY <1>4 DEF Connects, Stays, Moves, MutexInv
<1>5. ASSUME NEW t \in Tasks, Stores(t) PROVE MutexInv'
  BY <1>5 DEF Stores, Moves, MutexInv
<1>6. ASSUME NEW t \in Tasks, Waits(t) PROVE MutexInv'
  BY <1>6 DEF Waits, Stays, Moves, Kept, MutexInv
<1>7. ASSUME NEW t \in Tasks, NEW r, Returns(t, r) PROVE MutexInv'
  BY <1>7 DEF Returns, Ends, Over, Moves, Kept, MutexInv
<1>8. ASSUME NEW s \in Servers, Settles(s) PROVE MutexInv'
  BY <1>8 DEF Settles, Stays, Moves, Kept, MutexInv
<1>9. ASSUME NEW s \in Servers, Crashes(s) PROVE MutexInv'
  BY <1>9 DEF Crashes, Kept, MutexInv
<1>10. ASSUME NEW u \in Callers, Starts(u) PROVE MutexInv'
  BY <1>10 DEF Starts, Ends, Over, Moves, Kept, MutexInv
<1>11. CASE Broadcasts
  BY <1>11, BroadcastStarts DEF Kept, MutexInv
<1>12. CASE BroadcastReturns
  BY <1>12 DEF BroadcastReturns, MutexInv
<1>13. CASE Close
  BY <1>13 DEF Close, MutexInv
<1>14. CASE Idles
  BY <1>14 DEF Idles, Kept, MutexInv
<1>15. QED
  BY <1>1, <1>2, <1>3, <1>4, <1>5, <1>6, <1>7, <1>8, <1>9, <1>10, <1>11,
     <1>12, <1>13, <1>14, StepKinds

\* The address a task works on.
LEMMA AddressStep ==
    ASSUME TypeOK, AddressInv, CastInv, [Next]_vars
    PROVE  AddressInv'
<1>1. ASSUME NEW t \in Tasks, Reuses(t) PROVE AddressInv'
  BY <1>1 DEF Reuses, Moves, Kept, AddressInv
<1>2. ASSUME NEW t \in Tasks, Locks(t) PROVE AddressInv'
  BY <1>2 DEF Locks, Stays, Moves, AddressInv
<1>3. ASSUME NEW t \in Tasks, DialReturnsError(t) PROVE AddressInv'
  BY <1>3 DEF DialReturnsError, Ends, Over, Moves, AddressInv
<1>4. ASSUME NEW t \in Tasks, Connects(t) PROVE AddressInv'
  BY <1>4 DEF Connects, Stays, Moves, AddressInv
<1>5. ASSUME NEW t \in Tasks, Stores(t) PROVE AddressInv'
  BY <1>5 DEF Stores, Moves, AddressInv
<1>6. ASSUME NEW t \in Tasks, Waits(t) PROVE AddressInv'
  BY <1>6 DEF Waits, Stays, Moves, Kept, AddressInv
<1>7. ASSUME NEW t \in Tasks, NEW r, Returns(t, r) PROVE AddressInv'
  BY <1>7 DEF Returns, Ends, Over, Moves, Kept, AddressInv
<1>8. ASSUME NEW s \in Servers, Settles(s) PROVE AddressInv'
  BY <1>8 DEF Settles, Stays, Moves, Kept, AddressInv
<1>9. ASSUME NEW s \in Servers, Crashes(s) PROVE AddressInv'
  BY <1>9 DEF Crashes, Kept, AddressInv
<1>10. ASSUME NEW u \in Callers, Starts(u) PROVE AddressInv'
  BY <1>10 DEF Starts, Ends, Over, Moves, Kept, AddressInv
<1>11. CASE Broadcasts
  BY <1>11, BroadcastStarts DEF Kept, AddressInv
<1>12. CASE BroadcastReturns
  BY <1>12 DEF BroadcastReturns, AddressInv
<1>13. CASE Close
  BY <1>13 DEF Close, AddressInv
<1>14. CASE Idles
  BY <1>14 DEF Idles, Kept, AddressInv
<1>15. QED
  BY <1>1, <1>2, <1>3, <1>4, <1>5, <1>6, <1>7, <1>8, <1>9, <1>10, <1>11,
     <1>12, <1>13, <1>14, StepKinds

\* A task that has no client yet is not in the map.
LEMMA Unfiled ==
    ASSUME TypeOK, MapInv, NEW t \in Tasks,
           task[t].pc \in {"idle", "lock", "connect", "create"}
    PROVE  \A s \in Servers : clientMap[s] # t
<1> SUFFICES ASSUME NEW s \in Servers, clientMap[s] = t PROVE FALSE
  OBVIOUS
<1>1. t # None
  OBVIOUS
<1>2. QED
  BY <1>1 DEF MapInv

\* What the map holds while a server is dialled.
LEMMA MapStep ==
    ASSUME TypeOK, AddressInv, MutexInv, MapInv, CastInv, [Next]_vars
    PROVE  MapInv'
<1>1. ASSUME NEW t \in Tasks, Reuses(t) PROVE MapInv'
  <2>1. \A s \in Servers : clientMap[s] \in Tasks \cup {None}
    BY TaskType
  <2>2. QED
    BY <1>1, <2>1 DEF Reuses, Moves, Kept, MapInv, Entry
<1>2. ASSUME NEW t \in Tasks, Locks(t) PROVE MapInv'
  <2>1. /\ task[t].address \in Servers /\ Entry(t) \in Tasks \cup {None}
        /\ clientMap \in [Servers -> Tasks \cup {None}]
        /\ connection \in [Tasks -> {"none", "open", "closed"}]
    BY <1>2, TaskType DEF Locks, AddressInv, Entry, TypeOK
  <2>2. Entry(t) # None => Entry(t) # t /\ task[Entry(t)].address \in Servers
                           /\ task[Entry(t)].pc \notin {"idle", "lock", "connect"}
    BY <1>2, <2>1 DEF Locks, MapInv, Entry
  <2>3. \A q \in Tasks : task[q].pc \notin {"connect", "create"}
    BY <1>2 DEF Locks, MutexInv
  <2>4. \A s \in Servers :
          clientMap'[s] = IF s = task[t].address THEN None ELSE clientMap[s]
    BY <1>2, <2>1 DEF Locks
  <2>5. \A q \in Tasks :
          connection'[q] = IF q = Entry(t) THEN "closed" ELSE connection[q]
    BY <1>2 DEF Locks
  <2>6. /\ \A q \in Tasks \ {t} : task'[q] = task[q]
        /\ task'[t].pc = "connect" /\ task'[t].address = task[t].address
    BY <1>2 DEF Locks, Stays, Moves
  <2>7. \A q \in Tasks : task'[q].pc \in {"idle", "lock", "connect"} =>
          connection'[q] = "none"
    BY <1>2, <2>2, <2>5, <2>6 DEF Locks, MapInv
  <2>8. \A q \in Tasks : connection'[q] # "none" => task'[q].address \in Servers
    BY <2>1, <2>2, <2>5, <2>6 DEF MapInv
  <2>9. \A s \in Servers : clientMap'[s] # None =>
          /\ task'[clientMap'[s]].address = s
          /\ task'[clientMap'[s]].pc \in {"call", "wait", "settle", "returned"}
    BY <1>2, <2>1, <2>4, <2>6 DEF Locks, MapInv
  <2>10. \A q \in Tasks : task'[q].pc \in {"connect", "create"} => Entry(q)' = None
    BY <2>1, <2>3, <2>4, <2>6 DEF Entry
  <2>11. QED
    BY <2>7, <2>8, <2>9, <2>10 DEF MapInv
<1>3. ASSUME NEW t \in Tasks, DialReturnsError(t) PROVE MapInv'
  <2>1. /\ task[t].address \in Servers
        /\ connection \in [Tasks -> {"none", "open", "closed"}]
        /\ \A s \in Servers : clientMap[s] \in Tasks \cup {None} /\ clientMap[s] # t
    BY <1>3, TaskType, Unfiled DEF DialReturnsError, AddressInv, TypeOK
  <2>2. \A q \in Tasks \ {t} : task[q].pc \notin {"connect", "create"}
    BY <1>3 DEF DialReturnsError, MutexInv
  <2>3. /\ \A q \in Tasks \ {t} : task'[q] = task[q] /\ connection'[q] = connection[q]
        /\ task'[t].pc \in {"settle", "returned"}
        /\ task'[t].address = task[t].address
        /\ UNCHANGED clientMap
    BY <1>3, <2>1 DEF DialReturnsError, Ends, Over, Moves
  <2>4. QED
    BY <2>1, <2>2, <2>3 DEF MapInv
<1>4. ASSUME NEW t \in Tasks, Connects(t) PROVE MapInv'
  <2>1. /\ task[t].address \in Servers
        /\ connection \in [Tasks -> {"none", "open", "closed"}]
        /\ \A s \in Servers : clientMap[s] \in Tasks \cup {None} /\ clientMap[s] # t
    BY <1>4, TaskType, Unfiled DEF Connects, AddressInv, TypeOK
  <2>2. QED
    BY <1>4, <2>1 DEF Connects, Stays, Moves, MapInv, Entry
<1>5. ASSUME NEW t \in Tasks, Stores(t) PROVE MapInv'
  <2>1. /\ task[t].address \in Servers
        /\ clientMap \in [Servers -> Tasks \cup {None}]
    BY <1>5 DEF Stores, AddressInv, TypeOK
  <2>2. \A q \in Tasks \ {t} : task[q].pc \notin {"connect", "create"}
    BY <1>5 DEF Stores, MutexInv
  <2>3. \A s \in Servers :
          clientMap'[s] = IF s = task[t].address THEN t ELSE clientMap[s]
    BY <1>5, <2>1 DEF Stores
  <2>4. /\ \A q \in Tasks \ {t} : task'[q] = task[q]
        /\ task'[t].pc = "call" /\ task'[t].address = task[t].address
        /\ UNCHANGED connection
    BY <1>5 DEF Stores, Moves
  <2>5. \A s \in Servers : clientMap'[s] # None =>
          /\ task'[clientMap'[s]].address = s
          /\ task'[clientMap'[s]].pc \in {"call", "wait", "settle", "returned"}
    BY <1>5, <2>1, <2>3, <2>4 DEF Stores, MapInv
  <2>6. QED
    BY <2>1, <2>2, <2>4, <2>5 DEF MapInv
<1>6. ASSUME NEW t \in Tasks, Waits(t) PROVE MapInv'
  <2>1. \A s \in Servers : clientMap[s] \in Tasks \cup {None}
    BY TaskType
  <2>2. QED
    BY <1>6, <2>1 DEF Waits, Stays, Moves, Kept, MapInv, Entry
<1>7. ASSUME NEW t \in Tasks, NEW r, Returns(t, r) PROVE MapInv'
  <2>1. \A s \in Servers : clientMap[s] \in Tasks \cup {None}
    BY TaskType
  <2>2. QED
    BY <1>7, <2>1 DEF Returns, Ends, Over, Moves, Kept, MapInv, Entry
<1>8. ASSUME NEW s \in Servers, Settles(s) PROVE MapInv'
  <2>1. \A q \in Servers : clientMap[q] \in Tasks \cup {None}
    BY TaskType
  <2>2. QED
    BY <1>8, <2>1 DEF Settles, Stays, Moves, Kept, MapInv, Entry
<1>9. ASSUME NEW s \in Servers, Crashes(s) PROVE MapInv'
  BY <1>9 DEF Crashes, Kept, MapInv, Entry
<1>10. ASSUME NEW u \in Callers, Starts(u) PROVE MapInv'
  <2>1. \A s \in Servers : clientMap[s] \in Tasks \cup {None} /\ clientMap[s] # u
    BY <1>10, TaskType, Unfiled DEF Starts
  <2>2. /\ \A q \in Tasks \ {u} : task'[q] = task[q]
        /\ task'[u].pc \in {"lock", "returned"}
        /\ UNCHANGED <<clientMap, connection>>
    BY <1>10 DEF Starts, Ends, Over, Moves, Kept
  <2>3. connection[u] = "none"
    BY <1>10 DEF Starts, MapInv
  <2>4. QED
    BY <2>1, <2>2, <2>3 DEF MapInv, Entry
<1>11. CASE Broadcasts
  <2>1. \A s \in Servers : clientMap[s] \in Tasks \cup {None}
    BY TaskType
  <2>2. QED
    BY <1>11, <2>1, BroadcastStarts DEF Kept, MapInv, AddressInv, Entry
<1>12. CASE BroadcastReturns
  BY <1>12 DEF BroadcastReturns, MapInv, Entry
<1>13. CASE Close
  <2>1. \A q \in Tasks : task[q].pc \notin {"connect", "create"}
    BY <1>13 DEF Close, MutexInv
  <2>2. \A q \in Tasks : connection'[q] # "none" =>
          connection[q] # "none" \/ \E s \in Servers : q = clientMap[s]
    BY <1>13 DEF Close, CloseClients
  <2>3. \A q \in Tasks : \A s \in Servers : q = clientMap[s] =>
          task[q].address \in Servers /\ task[q].pc \notin {"idle", "lock", "connect"}
    BY DEF MapInv
  <2>4. UNCHANGED task /\ \A s \in Servers : clientMap'[s] = None
    BY <1>13 DEF Close
  <2>5. QED
    BY <2>1, <2>2, <2>3, <2>4 DEF MapInv
<1>14. CASE Idles
  <2>1. \A s \in Servers : clientMap[s] \in Tasks \cup {None}
    BY TaskType
  <2>2. QED
    BY <1>14, <2>1 DEF Idles, Kept, MapInv, Entry
<1>15. QED
  BY <1>1, <1>2, <1>3, <1>4, <1>5, <1>6, <1>7, <1>8, <1>9, <1>10, <1>11,
     <1>12, <1>13, <1>14, StepKinds

\* A connection that is open stays within reach.
LEMMA LeakStep ==
    ASSUME TypeOK, AddressInv, MutexInv, MapInv, CastInv, NoConnectionLeaked, [Next]_vars
    PROVE  NoConnectionLeaked'
<1>1. ASSUME NEW t \in Tasks, Reuses(t) PROVE NoConnectionLeaked'
  BY <1>1 DEF Reuses, Moves, Kept, NoConnectionLeaked, MapInv, MutexInv,
     AddressInv, Entry, TypeOK
<1>2. ASSUME NEW t \in Tasks, Locks(t) PROVE NoConnectionLeaked'
  BY <1>2 DEF Locks, Stays, Moves, NoConnectionLeaked, MapInv, MutexInv,
     AddressInv, Entry, TypeOK
<1>3. ASSUME NEW t \in Tasks, DialReturnsError(t) PROVE NoConnectionLeaked'
  BY <1>3 DEF DialReturnsError, Ends, Over, Moves, NoConnectionLeaked, MapInv,
     MutexInv, AddressInv, Entry, TypeOK
<1>4. ASSUME NEW t \in Tasks, Connects(t) PROVE NoConnectionLeaked'
  BY <1>4 DEF Connects, Stays, Moves, NoConnectionLeaked, MapInv, MutexInv,
     AddressInv, Entry, TypeOK
<1>5. ASSUME NEW t \in Tasks, Stores(t) PROVE NoConnectionLeaked'
  BY <1>5 DEF Stores, Moves, NoConnectionLeaked, MapInv, MutexInv, AddressInv,
     Entry, TypeOK
<1>6. ASSUME NEW t \in Tasks, Waits(t) PROVE NoConnectionLeaked'
  BY <1>6 DEF Waits, Stays, Moves, Kept, NoConnectionLeaked, MapInv, MutexInv,
     AddressInv, Entry, TypeOK
<1>7. ASSUME NEW t \in Tasks, NEW r, Returns(t, r) PROVE NoConnectionLeaked'
  BY <1>7 DEF Returns, Ends, Over, Moves, Kept, NoConnectionLeaked, MapInv,
     MutexInv, AddressInv, Entry, TypeOK
<1>8. ASSUME NEW s \in Servers, Settles(s) PROVE NoConnectionLeaked'
  BY <1>8 DEF Settles, Stays, Moves, Kept, NoConnectionLeaked, MapInv,
     MutexInv, AddressInv, Entry, TypeOK
<1>9. ASSUME NEW s \in Servers, Crashes(s) PROVE NoConnectionLeaked'
  BY <1>9 DEF Crashes, Kept, NoConnectionLeaked, MapInv, MutexInv, AddressInv,
     Entry, TypeOK
<1>10. ASSUME NEW u \in Callers, Starts(u) PROVE NoConnectionLeaked'
  BY <1>10 DEF Starts, Ends, Over, Moves, Kept, NoConnectionLeaked, MapInv,
     MutexInv, AddressInv, Entry, TypeOK
<1>11. CASE Broadcasts
  BY <1>11, BroadcastStarts DEF Kept, NoConnectionLeaked, Entry
<1>12. CASE BroadcastReturns
  BY <1>12 DEF BroadcastReturns, NoConnectionLeaked, MapInv, MutexInv,
     AddressInv, Entry, TypeOK
<1>13. CASE Close
  <2>1. \A k \in Tasks : connection'[k] = "open" =>
          connection[k] = "open" /\ \A s \in Servers : clientMap[s] # k
    BY <1>13 DEF Close, CloseClients
  <2>2. \A k \in Tasks : connection[k] = "open" =>
          task[k].address \in Servers /\ Entry(k) = k
    BY <1>13 DEF Close, MapInv, NoConnectionLeaked
  <2>3. \A k \in Tasks : connection'[k] # "open"
    BY <2>1, <2>2 DEF Entry
  <2>4. QED
    BY <2>3 DEF NoConnectionLeaked
<1>14. CASE Idles
  BY <1>14 DEF Idles, Kept, NoConnectionLeaked, MapInv, MutexInv, AddressInv,
     Entry, TypeOK
<1>15. QED
  BY <1>1, <1>2, <1>3, <1>4, <1>5, <1>6, <1>7, <1>8, <1>9, <1>10, <1>11,
     <1>12, <1>13, <1>14, StepKinds

\* BroadcastCall's variables.
LEMMA CastType ==
    ASSUME TypeOK
    PROVE  /\ cast \in
                [pc : {"idle", "waiting", "returned"}, serverList : SUBSET Servers,
                 nilOutput : BOOLEAN, output : Servers \cup {None},
                 error : BOOLEAN, replyDone : BOOLEAN, cancelled : BOOLEAN]
           /\ cast.serverList \subseteq Servers
  BY DEF TypeOK

\* A task that has not returned goes on, and reports nothing yet.
LEMMA CastMoves ==
    ASSUME TypeOK, CastInv, UNCHANGED cast, NEW t \in Tasks, NEW p, NEW k, NEW r,
           Moves(t, p, k, r), p # "idle",
           t \in Servers => task[t].pc \notin {"idle", "returned"} /\ p # "returned",
           p = "settle" => r \in {"nil", "error"},
           r = "nil" => task[t].result = "nil" \/ ~(t \in Servers /\ cast.nilOutput)
    PROVE  CastInv'
<1>1. /\ \A s \in Servers : s \in cast.serverList <=> task'[s].pc # "idle"
      /\ \A s \in Servers : task'[s].pc \in {"settle", "returned"} =>
           task'[s].result \in {"nil", "error"}
  BY DEF CastInv, Moves
<1>2. \A s \in Servers : task'[s].result = "nil" => ~cast.nilOutput
  BY DEF CastInv, Moves
<1>3. \A s \in Servers : task'[s].pc = "returned" =>
        IF task'[s].result = "error" THEN cast.error ELSE cast.replyDone
  BY DEF CastInv, Moves
<1>4. cast.pc = "returned" /\ ~cast.error =>
        \A s \in cast.serverList : task'[s].pc = "returned"
  <2>1. cast.serverList \subseteq Servers
    BY CastType
  <2>2. QED
    BY <2>1 DEF CastInv, Moves
<1>5. QED
  BY <1>1, <1>2, <1>3, <1>4 DEF CastInv

\* Nothing happens to the goroutines of the broadcast.
LEMMA CastSame ==
    ASSUME TypeOK, CastInv,
           cast' = cast \/ cast' = [cast EXCEPT !.cancelled = TRUE],
           \A s \in Servers : task'[s].pc = task[s].pc /\ task'[s].result = task[s].result
    PROVE  CastInv'
<1>1. cast.serverList \subseteq Servers
  BY CastType
<1>2. CASE cast' = cast
  BY <1>1, <1>2 DEF CastInv
<1>3. CASE cast' = [cast EXCEPT !.cancelled = TRUE]
  <2>1. /\ cast'.pc = cast.pc /\ cast'.serverList = cast.serverList
        /\ cast'.nilOutput = cast.nilOutput /\ cast'.output = cast.output
        /\ cast'.error = cast.error /\ cast'.replyDone = cast.replyDone
    BY <1>3, CastType
  <2>2. QED
    BY <1>1, <2>1 DEF CastInv
<1>4. QED
  BY <1>2, <1>3

\* What the broadcast has collected.
LEMMA CastStep ==
    ASSUME TypeOK, AddressInv, CastInv, [Next]_vars
    PROVE  CastInv'
<1>1. ASSUME NEW t \in Tasks, Reuses(t) PROVE CastInv'
  <2>1. /\ Moves(t, "call", Entry(t), task[t].result) /\ UNCHANGED cast
        /\ task[t].pc \notin {"idle", "returned"}
    BY <1>1 DEF Reuses
  <2>2. QED
    BY <2>1, CastMoves
<1>2. ASSUME NEW t \in Tasks, Locks(t) PROVE CastInv'
  <2>1. /\ Moves(t, "connect", task[t].client, task[t].result) /\ UNCHANGED cast
        /\ task[t].pc \notin {"idle", "returned"}
    BY <1>2 DEF Locks, Stays
  <2>2. QED
    BY <2>1, CastMoves
<1>3. ASSUME NEW t \in Tasks, DialReturnsError(t) PROVE CastInv'
  <2>1. /\ Moves(t, Over(t), task[t].client, "error") /\ UNCHANGED cast
        /\ task[t].pc \notin {"idle", "returned"}
        /\ Over(t) # "idle" /\ (t \in Servers => Over(t) # "returned")
    BY <1>3 DEF DialReturnsError, Ends, Over
  <2>2. QED
    BY <2>1, CastMoves
<1>4. ASSUME NEW t \in Tasks, Connects(t) PROVE CastInv'
  <2>1. /\ Moves(t, "create", task[t].client, task[t].result) /\ UNCHANGED cast
        /\ task[t].pc \notin {"idle", "returned"}
    BY <1>4 DEF Connects, Stays
  <2>2. QED
    BY <2>1, CastMoves
<1>5. ASSUME NEW t \in Tasks, Stores(t) PROVE CastInv'
  <2>1. /\ Moves(t, "call", t, task[t].result) /\ UNCHANGED cast
        /\ task[t].pc \notin {"idle", "returned"}
    BY <1>5 DEF Stores
  <2>2. QED
    BY <2>1, CastMoves
<1>6. ASSUME NEW t \in Tasks, Waits(t) PROVE CastInv'
  <2>1. /\ Moves(t, "wait", task[t].client, task[t].result) /\ UNCHANGED cast
        /\ task[t].pc \notin {"idle", "returned"}
    BY <1>6 DEF Waits, Stays
  <2>2. QED
    BY <2>1, CastMoves
<1>7. ASSUME NEW t \in Tasks, NEW r, Returns(t, r) PROVE CastInv'
  <2>1. /\ Moves(t, Over(t), task[t].client, r) /\ UNCHANGED cast
        /\ task[t].pc \notin {"idle", "returned"}
        /\ Over(t) # "idle" /\ (t \in Servers => Over(t) # "returned")
        /\ r \in {"nil", "error"}
        /\ r = "nil" => ~(t \in Servers /\ cast.nilOutput)
    BY <1>7 DEF Returns, Ends, Over
  <2>2. QED
    BY <2>1, CastMoves
<1>8. ASSUME NEW s \in Servers, Settles(s) PROVE CastInv'
  <2>1. /\ \A q \in Servers \ {s} : task'[q] = task[q]
        /\ task[s].pc = "settle" /\ task'[s].pc = "returned"
        /\ task'[s].result = task[s].result
    BY <1>8 DEF Settles, Stays, Moves
  <2>2. s \in cast.serverList /\ cast.serverList \subseteq Servers
    BY <2>1, CastType DEF CastInv
  <2>3. CASE /\ task[s].result = "error"
             /\ cast' = [cast EXCEPT !.error = TRUE, !.cancelled = TRUE]
    <3>1. /\ cast'.pc = cast.pc /\ cast'.serverList = cast.serverList
          /\ cast'.nilOutput = cast.nilOutput /\ cast'.output = cast.output
          /\ cast'.error = TRUE /\ cast'.replyDone = cast.replyDone
      BY <2>3, CastType
    <3>2. QED
      BY <2>1, <2>2, <2>3, <3>1 DEF CastInv
  <2>4. CASE /\ task[s].result = "nil"
             /\ cast' = [cast EXCEPT !.replyDone = TRUE,
                                     !.output = IF cast.replyDone THEN @ ELSE s]
    <3>1. /\ cast'.pc = cast.pc /\ cast'.serverList = cast.serverList
          /\ cast'.nilOutput = cast.nilOutput /\ cast'.error = cast.error
          /\ cast'.replyDone = TRUE
          /\ cast'.output = IF cast.replyDone THEN cast.output ELSE s
      BY <2>4, CastType
    <3>2. QED
      BY <2>1, <2>2, <2>4, <3>1 DEF CastInv
  <2>5. QED
    BY <1>8, <2>3, <2>4 DEF Settles
<1>9. ASSUME NEW s \in Servers, Crashes(s) PROVE CastInv'
  BY <1>9, CastSame DEF Crashes
<1>10. ASSUME NEW u \in Callers, Starts(u) PROVE CastInv'
  <2>1. UNCHANGED cast /\ \A s \in Servers : task'[s] = task[s]
    BY <1>10 DEF Starts, Ends, Moves
  <2>2. QED
    BY <2>1, CastSame
<1>11. CASE Broadcasts
  <2>1. /\ cast.pc = "idle" /\ cast.serverList = {}
        /\ \A s \in Servers : task[s].pc = "idle"
    BY <1>11 DEF Broadcasts, CastInv
  <2>2. CASE /\ cast' = [cast EXCEPT !.pc = "returned", !.error = TRUE]
             /\ UNCHANGED task
    <3>1. /\ cast'.pc = "returned" /\ cast'.serverList = cast.serverList
          /\ cast'.nilOutput = cast.nilOutput /\ cast'.output = cast.output
          /\ cast'.error = TRUE /\ cast'.replyDone = cast.replyDone
      BY <2>2, CastType
    <3>2. QED
      BY <2>1, <2>2, <3>1 DEF CastInv
  <2>3. ASSUME NEW list \in SUBSET Servers,
               cast' = [cast EXCEPT !.pc = "waiting", !.serverList = list],
               \A q \in Tasks : q \notin list => task'[q] = task[q],
               \A q \in list : task'[q].pc = "lock" /\ task'[q].result = task[q].result
        PROVE  CastInv'
    <3>1. /\ cast'.pc = "waiting" /\ cast'.serverList = list
          /\ cast'.nilOutput = cast.nilOutput /\ cast'.output = cast.output
          /\ cast'.error = cast.error /\ cast'.replyDone = cast.replyDone
      BY <2>3, CastType
    <3>2. cast.replyDone => cast.nilOutput
      BY <2>1, CastType DEF CastInv
    <3>3. QED
      BY <2>1, <2>3, <3>1, <3>2 DEF CastInv
  <2>4. QED
    BY <1>11, <2>2, <2>3 DEF Broadcasts
<1>12. CASE BroadcastReturns
  <2>1. /\ cast' = [cast EXCEPT !.pc = "returned", !.cancelled = TRUE]
        /\ cast.pc = "waiting" /\ UNCHANGED task
        /\ \A s \in cast.serverList : task[s].pc = "returned"
    BY <1>12 DEF BroadcastReturns
  <2>2. /\ cast'.pc = "returned" /\ cast'.serverList = cast.serverList
        /\ cast'.nilOutput = cast.nilOutput /\ cast'.output = cast.output
        /\ cast'.error = cast.error /\ cast'.replyDone = cast.replyDone
    BY <2>1, CastType
  <2>3. QED
    BY <2>1, <2>2 DEF CastInv
<1>13. CASE Close
  BY <1>13, CastSame DEF Close
<1>14. CASE Idles
  BY <1>14, CastSame DEF Idles
<1>15. QED
  BY <1>1, <1>2, <1>3, <1>4, <1>5, <1>6, <1>7, <1>8, <1>9, <1>10, <1>11,
     <1>12, <1>13, <1>14, StepKinds

\* A broadcast that is alone finds its clients.
LEMMA FoundStep ==
    ASSUME TypeOK, AddressInv, CastInv, FoundInv, [Next]_vars
    PROVE  FoundInv'
<1>1. ASSUME NEW t \in Tasks, Reuses(t) PROVE FoundInv'
  BY <1>1 DEF Reuses, Moves, Kept, FoundInv, Alone, BroadcastFindsItsClients,
     AddressInv, Entry, TypeOK
<1>2. ASSUME NEW t \in Tasks, Locks(t) PROVE FoundInv'
  BY <1>2 DEF Locks, Stays, Moves, FoundInv, Alone, BroadcastFindsItsClients,
     AddressInv, Entry, TypeOK
<1>3. ASSUME NEW t \in Tasks, DialReturnsError(t) PROVE FoundInv'
  BY <1>3 DEF DialReturnsError, Ends, Over, Moves, FoundInv, Alone,
     BroadcastFindsItsClients, AddressInv, Entry, TypeOK
<1>4. ASSUME NEW t \in Tasks, Connects(t) PROVE FoundInv'
  BY <1>4 DEF Connects, Stays, Moves, FoundInv, Alone,
     BroadcastFindsItsClients, AddressInv, Entry, TypeOK
<1>5. ASSUME NEW t \in Tasks, Stores(t) PROVE FoundInv'
  BY <1>5 DEF Stores, Moves, FoundInv, Alone, BroadcastFindsItsClients,
     AddressInv, Entry, TypeOK
<1>6. ASSUME NEW t \in Tasks, Waits(t) PROVE FoundInv'
  BY <1>6 DEF Waits, Stays, Moves, Kept, FoundInv, Alone,
     BroadcastFindsItsClients, AddressInv, Entry, TypeOK
<1>7. ASSUME NEW t \in Tasks, NEW r, Returns(t, r) PROVE FoundInv'
  BY <1>7 DEF Returns, Ends, Over, Moves, Kept, FoundInv, Alone,
     BroadcastFindsItsClients, AddressInv, Entry, TypeOK
<1>8. ASSUME NEW s \in Servers, Settles(s) PROVE FoundInv'
  BY <1>8 DEF Settles, Stays, Moves, Kept, FoundInv, Alone,
     BroadcastFindsItsClients, AddressInv, Entry, TypeOK
<1>9. ASSUME NEW s \in Servers, Crashes(s) PROVE FoundInv'
  BY <1>9 DEF Crashes, Kept, FoundInv, Alone, BroadcastFindsItsClients,
     AddressInv, Entry, TypeOK
<1>10. ASSUME NEW u \in Callers, Starts(u) PROVE FoundInv'
  BY <1>10 DEF Starts, Ends, Over, Moves, Kept, FoundInv, Alone,
     BroadcastFindsItsClients, AddressInv, Entry, TypeOK
<1>11. CASE Broadcasts
  BY <1>11, BroadcastStarts DEF Kept, FoundInv, Alone, BroadcastFindsItsClients
<1>12. CASE BroadcastReturns
  BY <1>12 DEF BroadcastReturns, FoundInv, Alone, BroadcastFindsItsClients,
     AddressInv, Entry, TypeOK
<1>13. CASE Close
  BY <1>13 DEF Close, FoundInv, Alone, BroadcastFindsItsClients, AddressInv,
     Entry, TypeOK
<1>14. CASE Idles
  BY <1>14 DEF Idles, Kept, FoundInv, Alone, BroadcastFindsItsClients,
     AddressInv, Entry, TypeOK
<1>15. QED
  BY <1>1, <1>2, <1>3, <1>4, <1>5, <1>6, <1>7, <1>8, <1>9, <1>10, <1>11,
     <1>12, <1>13, <1>14, StepKinds

-----------------------------------------------------------------------------
(* The theorems. *)

\* CreateLoadBalancedClient.
LEMMA InitIInv ==
    ASSUME Init PROVE IInv
<1> USE DEF Init
<1>1. TypeOK
  <2>1. LocalType
    BY DEF LocalType, Locals, States
  <2>2. cast \in
         [pc : {"idle", "waiting", "returned"}, serverList : SUBSET Servers,
          nilOutput : BOOLEAN, output : Servers \cup {None},
          error : BOOLEAN, replyDone : BOOLEAN, cancelled : BOOLEAN]
    OBVIOUS
  <2>3. SharedType
    BY <2>2 DEF SharedType
  <2>4. QED
    BY <2>1, <2>3, TypeParts
<1>2. MutexInv /\ AddressInv /\ NoConnectionLeaked /\ MapInv
  BY DEF MutexInv, AddressInv, NoConnectionLeaked, MapInv
<1>3. CastInv /\ FoundInv
  BY DEF CastInv, FoundInv, BroadcastFindsItsClients
<1>4. QED
  BY <1>1, <1>2, <1>3 DEF IInv

\* IInv is an invariant of every use of a load-balanced client.
THEOREM Invariance == Spec => []IInv
<1>1. Init => IInv
  BY InitIInv
<1>2. IInv /\ [Next]_vars => IInv'
  BY TypeStep, MutexStep, AddressStep, LeakStep, MapStep, CastStep, FoundStep
  DEF IInv
<1>3. QED
  BY <1>1, <1>2, PTL DEF Spec

\* The type invariant of client.LoadBalancedClient: dial never returns a nil
\* client together with a nil error.
THEOREM TypeCorrect == Spec => []TypeOK
<1>1. IInv => TypeOK
  BY DEF IInv
<1>2. QED
  BY <1>1, Invariance, PTL

\* Whatever dial, its timeout, call and Close do, the connection of a client
\* that nobody closed is in the map under its server, or is being dialled.
THEOREM ConnectionsKept == Spec => []NoConnectionLeaked
<1>1. IInv => NoConnectionLeaked
  BY DEF IInv
<1>2. QED
  BY <1>1, Invariance, PTL

\* BroadcastCall returns nil only when every server answered, with the output
\* of one of them, in whatever order its goroutines report.
THEOREM BroadcastCorrect == Spec => []BroadcastComplete
<1>1. IInv => BroadcastComplete
  <2> SUFFICES ASSUME IInv, cast.pc = "returned", ~cast.error
               PROVE  /\ \A s \in cast.serverList : task[s].result = "nil"
                      /\ cast.serverList # {} => cast.output \in cast.serverList
    BY DEF BroadcastComplete
  <2>1. cast.serverList \subseteq Servers
    BY CastType DEF IInv
  <2>2. ASSUME NEW s \in cast.serverList
        PROVE  task[s].result = "nil" /\ cast.output \in cast.serverList
    <3>1. task[s].pc = "returned" /\ task[s].result = "nil"
      BY <2>1 DEF IInv, CastInv
    <3>2. QED
      BY <2>1, <3>1 DEF IInv, CastInv
  <2>3. QED
    BY <2>2
<1>2. QED
  BY <1>1, Invariance, PTL

\* A broadcast that has the load-balanced client to itself finds the client
\* each answer came by: the unlocked read of the map is never of a nil client.
THEOREM ClientsFound == Spec => []BroadcastFindsItsClients
<1>1. IInv => BroadcastFindsItsClients
  BY DEF IInv, FoundInv
<1>2. QED
  BY <1>1, Invariance, PTL
=============================================================================
