----------------------------- MODULE RpcSystem ------------------------------
(***************************************************************************)
(* A client.Client and the server.Server that serves its connection: the   *)
(* actions of RpcClient's goroutines and of RpcServer's, on the same two   *)
(* streams.  Neither end's environment is used: what RpcClient's peer and  *)
(* RpcServer's client stand for is the other end.  Both directions of the  *)
(* connection are bounded, so that each end can be blocked in a write      *)
(* until the other one reads.  The client may send before the server has   *)
(* done its part of the handshake, whose decoder can swallow what it sent. *)
(***************************************************************************)
EXTENDS JsonStream, FiniteSets

CONSTANTS
    Calls, Cancellable, Methods, WireCapacity, Receiver, None,  \* as in RpcClient
    Limits, Transports,     \* as in RpcServer
    Overread,       \* as in both
    ReplyCapacity   \* how many values the reply direction can hold

ASSUME SystemAssumption ==
    /\ IsFiniteSet(Calls)
    /\ Cancellable \subseteq Calls
    /\ Methods \subseteq {"found", "noService", "noMethod"}
    /\ Receiver \notin Calls
    /\ None \notin Calls \cup {Receiver}
    /\ Limits \subseteq {0, 1} /\ Transports \subseteq {"tcp", "http"}
    /\ WireCapacity \in Nat /\ ReplyCapacity \in Nat /\ Overread \in Nat

VARIABLES
    \* the client, as in RpcClient
    sequenceNumber, pendingCalls, isClosed, isShutdown, requestMutex,
    entityMutex, buffer, writeFailed, callSeq, Error, Output, Finish, pc,
    ctxDone, result, rpc, response, rcvCall, rcvErr, toFinish,
    \* the connection
    c2s, s2c,
    \* the server, as in RpcServer
    limit, transport, reader, header, worker, waiter, input, failed, sendMutex,
    serverBuffer, waitGroup, closed, crashed

clientVars == <<sequenceNumber, pendingCalls, isClosed, isShutdown,
                requestMutex, entityMutex, buffer, writeFailed, callSeq, Error,
                Output, Finish, pc, ctxDone, result, rpc, response, rcvCall,
                rcvErr, toFinish>>
serverVars == <<limit, transport, reader, header, worker, waiter, input, failed,
                sendMutex, serverBuffer, waitGroup, closed, crashed>>

vars == <<clientVars, c2s, s2c, serverVars>>

\* The sequence numbers a client with these calls can give.
Requests == 1 .. Cardinality(Calls)

ServerUp == ~closed /\ ~crashed

\* serveCoder has begun.
Greeted == ServerUp /\ reader # "handshake"

\* The client, whose peer is the server below.
C == INSTANCE RpcClient WITH
    Unencodable <- {}, Undecodable <- {}, Unmarshalable <- {},
    AnswerShape <- "scalar",
    peerOpen <- ServerUp, greeted <- Greeted, inFlight <- {}, peerBuffer <- << >>

\* The server, whose client is the one above: this client writes a valid
\* ConnectionInfo and only inputs that decode, and its server's methods
\* succeed, if they return.
S == INSTANCE RpcServer WITH
    Kinds <- {"ok"}, info <- "valid", kind <- [r \in Requests |-> "ok"],
    submitted <- {}, held <- << >>, clientOpen <- ~isClosed,
    buffer <- serverBuffer

Init == isClosed = FALSE /\ S!Init /\ C!Init

-----------------------------------------------------------------------------
Caller(c)    == UNCHANGED serverVars /\ C!CallerStep(c)
ReceiveCall  == UNCHANGED serverVars /\ C!ReceiverStep

\* What the users of the client decide.
User ==
    /\ UNCHANGED serverVars
    /\ C!Close \/ \E c \in Calls : C!StartCall(c) \/ C!ContextDone(c)

\* A flush that does not fit waits for the client's receiver.
FitsReply == Len(s2c') <= ReplyCapacity

ServeConnection == UNCHANGED clientVars /\ S!ReaderStep /\ FitsReply
Handler(r) == UNCHANGED clientVars /\ S!HandlerStep(r) /\ FitsReply
TimesOut(r) == UNCHANGED clientVars /\ ~crashed /\ S!CallTimesOut(r)
Returns(r)  == UNCHANGED clientVars /\ ~crashed /\ S!MethodReturns(r)

\* Everything is over, or the server, without a limit, waits for ever in
\* waitGroup.Wait; any other state without a successor is a deadlock.
Quiescent ==
    /\ \A c \in Calls : pc[c] = "returned"
    /\ rpc = "stopped" /\ isClosed
    /\ ~ServerUp \/ (limit = 0 /\ reader = "drain")
    /\ UNCHANGED vars

Next ==
    \/ \E c \in Calls : Caller(c)
    \/ ReceiveCall
    \/ User
    \/ ServeConnection
    \/ \E r \in Requests : Handler(r) \/ TimesOut(r) \/ Returns(r)
    \/ Quiescent

Spec == Init /\ [][Next]_vars

\* The fairness of both ends: runnable goroutines run and timers fire; users,
\* contexts and methods are free.
FairSpec ==
    /\ Spec
    /\ \A c \in Calls : WF_vars(Caller(c))
    /\ WF_vars(ReceiveCall)
    /\ WF_vars(ServeConnection)
    /\ \A r \in Requests : WF_vars(Handler(r)) /\ WF_vars(TimesOut(r))

-----------------------------------------------------------------------------
(* The server is a peer as RpcClient assumes it. *)

\* A request is the server's until the flush that answers it.
Unanswered(r) ==
    \/ waiter[r] \in {"select", "send", "sending"}
    \/ waiter[r] = "response" /\ worker[r] \in {"send", "sending"}

Taken == {[header |-> Header(r, "found", FALSE), refused |-> FALSE,
           data |-> input[r]] : r \in {q \in Requests : Unanswered(q)}}

Refused == IF reader \in {"refuse", "refusing"}
             THEN {[header |-> header, refused |-> TRUE, data |-> ZeroData]}
             ELSE {}

\* A header whose body has not been read is still on its way, hence the one
\* value more that this connection holds.
OnTheWay ==
    IF ~ServerUp THEN << >>
    ELSE IF reader = "body" THEN <<header>> \o c2s ELSE c2s

AtServer == IF ServerUp THEN Taken \cup Refused ELSE {}

P == INSTANCE RpcClient WITH
    Unencodable <- {}, Undecodable <- {}, Unmarshalable <- {},
    AnswerShape <- "scalar", WireCapacity <- WireCapacity + 1,
    c2s <- OnTheWay, peerOpen <- ServerUp, greeted <- Greeted,
    inFlight <- AtServer, peerBuffer <- << >>

\* Every behaviour of client and server together is one of RpcClient with its
\* abstract peer: RpcServer loses requests only in its handshake, answers each
\* of the others at most once, with its own number and the answer to its own
\* input, refuses before it reads on, and loses the rest only when it is gone.
\* What is proved of RpcClient for any such peer holds for this server.
ServerIsPeer == P!Spec

-----------------------------------------------------------------------------
(* Correctness from end to end. *)

\* The callers of a client of this server get what RpcCalls promises: each call
\* is settled once, a nil error comes with the answer that the server computed
\* from this call's own input, and nothing is answered after the shutdown.
CallsKeepContract == C!ImplementsRpcCalls

\* The reply direction holds all that the server can owe, two replies a call (an
\* unread body is refused as well), so that its flushes never wait.
RepliesFit == ReplyCapacity >= 4 * Cardinality(Calls)

\* With a ProcessingTimeout, every call that is made after the server's handshake
\* returns, although methods need not, contexts need not end and nobody need
\* close: the server answers or refuses in time, or its end, or the client's
\* own, is noticed, even if the handshake has cut the calls before it in two.
\* (A call that is made before may be swallowed, and without a limit a method
\* that hangs is never answered: server.go:108, 243-247.  Where replies do not
\* fit, client and server can wait for each other: TimeoutCoversSending.)
EveryCallReturns ==
    RepliesFit => \A c \in Calls :
        (pc[c] = "lock" /\ limit # 0 /\ reader # "handshake")
            ~> pc[c] = "returned"

\* A connection that one end gave up is given up by the other: when the server
\* is gone, or after Close, the receiver terminates, and after Close the
\* server closes if there is a ProcessingTimeout.  (Without one it waits for
\* ever for the requests it has served: server.go:243-247.)
BothEndsTerminate ==
    (isClosed \/ ~ServerUp)
        ~> (rpc = "stopped" /\ (isClosed /\ limit # 0 => ~ServerUp))

-----------------------------------------------------------------------------
(* What a test says and the code does not do. *)

\* client_unit_test.go:64-65, the client-side timeout ranges "from client
\* sending the request to server, to client receiving the response": a call
\* whose context is done returns, wherever in Call() it is.
TimeoutCoversSending ==
    \A c \in Cancellable :
        (pc[c] # "idle" /\ ctxDone[c]) ~> pc[c] = "returned"
=============================================================================
