----------------------------- MODULE RpcClient ------------------------------
(***************************************************************************)
(* One client.Client and its connection: the goroutines that run Call()    *)
(* concurrently, the receiveCall() goroutine, the two mutexes and the map  *)
(* they share, and the server at the other end as an environment that      *)
(* answers each request at most once, in any order, or hangs up.           *)
(*                                                                         *)
(* An action is what a goroutine does between two points where another one *)
(* can observe or block it: a critical section of entityMutex is one step, *)
(* except terminateCalls, which keeps it while it finishes the calls one   *)
(* by one; requestMutex is held across steps by sendCall.                  *)
(***************************************************************************)
EXTENDS JsonStream, FiniteSets, Functions

CONSTANTS
    Calls,          \* the invocations of Client.Call, one goroutine each
    Cancellable,    \* those whose context may end; the others' never does
    Unencodable,    \* those whose Inputs json cannot marshal
    Undecodable,    \* those whose Output the answer cannot be decoded into
    Unmarshalable,  \* those whose answer the server cannot marshal
    Methods,        \* what the names that are called mean to the server:
                    \* "found", "noService" or "noMethod"
    AnswerShape,    \* "object" or "scalar": what the methods return
    WireCapacity,   \* how many values the request direction can hold
    Overread,       \* how many values the server's handshake can swallow
    Receiver,       \* the receiveCall goroutine
    None            \* Go's nil, and the holder of a free mutex

ASSUME CallsAssumption ==
    /\ Cancellable \subseteq Calls
    /\ Unencodable \subseteq Calls
    /\ Undecodable \subseteq Calls
    /\ Unmarshalable \subseteq Calls
    /\ Methods \subseteq {"found", "noService", "noMethod"}
    /\ AnswerShape \in {"object", "scalar"}
    /\ Receiver \notin Calls
    /\ None \notin Calls \cup {Receiver}
    /\ WireCapacity \in Nat /\ Overread \in Nat

VARIABLES
    \* Client
    sequenceNumber, pendingCalls, isClosed, isShutdown,
    requestMutex, entityMutex,      \* who holds the mutex, or None
    \* Client.coder: what its bufio.Writer keeps, and its sticky write error
    buffer, writeFailed,
    \* the Call records: SequenceNumber, Error # nil, Output, len(Finish)
    callSeq, Error, Output, Finish,
    \* the goroutines in Call(): where they are, whether their context is
    \* done, and what Call returned
    pc, ctxDone, result,
    \* the receiveCall goroutine and its variables response, call, err # nil;
    \* toFinish is what is left of terminateCalls' range over pendingCalls
    rpc, response, rcvCall, rcvErr, toFinish,
    \* the connection and the server behind it, which reads requests once it
    \* has greeted the client
    c2s, s2c, peerOpen, greeted, inFlight, peerBuffer

clientVars   == <<sequenceNumber, pendingCalls, isClosed, isShutdown>>
coderVars    == <<buffer, writeFailed>>
recordVars   == <<callSeq, Error, Output, Finish>>
callerVars   == <<pc, ctxDone, result>>
receiverVars == <<rpc, response, rcvCall, rcvErr, toFinish>>
peerVars     == <<c2s, s2c, peerOpen, greeted, inFlight, peerBuffer>>

vars == <<clientVars, requestMutex, entityMutex, coderVars, recordVars,
          callerVars, receiverVars, peerVars>>

\* What the caller put into its Output.
NoOutput == {None}

\* Type invariant.  The next sequence number is never 0: that is the number of
\* a call addCall refused, and Call deletes under it when its context ends
\* before it sees the refusal.
TypeOK ==
    /\ sequenceNumber \in Nat \ {0}
    /\ DOMAIN pendingCalls \subseteq Nat
    /\ \A n \in DOMAIN pendingCalls : pendingCalls[n] \in Calls
    /\ isClosed \in BOOLEAN /\ isShutdown \in BOOLEAN
    /\ requestMutex \in Calls \cup {Receiver, None}
    /\ entityMutex \in {Receiver, None}
    /\ writeFailed \in BOOLEAN
    /\ callSeq \in [Calls -> Nat]
    /\ Error \in [Calls -> BOOLEAN]
    /\ Finish \in [Calls -> 0 .. 1]
    /\ pc \in [Calls -> {"idle", "lock", "encode", "undo", "wait", "cancel",
                         "returned"}]
    /\ ctxDone \in [Calls -> BOOLEAN]
    /\ result \in [Calls -> {"none", "nil", "error", "timeout"}]
    /\ rpc \in {"header", "lookup", "body", "finish", "lockRequest",
                "lockEntity", "finishAll", "stopped"}
    /\ rcvCall \in Calls \cup {None}
    /\ rcvErr \in BOOLEAN
    /\ toFinish \subseteq Calls
    /\ peerOpen \in BOOLEAN /\ greeted \in BOOLEAN

\* Mutant: the field sequenceNumber is left out of the literal.
FirstNumberUnset == 0

\* CreateClient's literal: sequenceNumber: 1.
FirstNumber == 1

\* CreateClient, once the connection information is on the wire.
Init ==
    /\ sequenceNumber = FirstNumber
    /\ pendingCalls = << >>
    /\ isClosed = FALSE /\ isShutdown = FALSE
    /\ requestMutex = None /\ entityMutex = None
    /\ buffer = << >> /\ writeFailed = FALSE
    /\ callSeq = [c \in Calls |-> 0]
    /\ Error = [c \in Calls |-> FALSE]
    /\ Output = [c \in Calls |-> NoOutput]
    /\ Finish = [c \in Calls |-> 0]
    /\ pc = [c \in Calls |-> "idle"]
    /\ ctxDone = [c \in Calls |-> FALSE]
    /\ result = [c \in Calls |-> "none"]
    /\ rpc = "header" /\ response = ZeroHeader
    /\ rcvCall = None /\ rcvErr = FALSE /\ toFinish = {}
    /\ c2s = << >> /\ s2c = << >> /\ peerOpen = TRUE /\ greeted = FALSE
    /\ inFlight = {} /\ peerBuffer = << >>

-----------------------------------------------------------------------------
\* The map pendingCalls: addCall's assignment, deleteCall's lookup and delete.
With(n, c) ==
    [m \in DOMAIN pendingCalls \cup {n} |->
        IF m = n THEN c ELSE pendingCalls[m]]
Registered(n) == IF n \in DOMAIN pendingCalls THEN pendingCalls[n] ELSE None
Without(n)    == Restrict(pendingCalls, DOMAIN pendingCalls \ {n})

\* Mutant: isShutdown is never looked at.
AvailableUnlessClosed == ~isClosed

IsAvailable == ~isShutdown /\ ~isClosed

\* A read or a write on the connection may fail.
ConnectionDown == isClosed \/ ~peerOpen

-----------------------------------------------------------------------------
(* The goroutines in Call(). *)

\* Call, startCall: the record is built and sendCall waits for requestMutex.
StartCall(c) ==
    /\ pc[c] = "idle"
    /\ pc' = [pc EXCEPT ![c] = "lock"]
    /\ UNCHANGED <<clientVars, requestMutex, entityMutex, coderVars, recordVars,
                   ctxDone, result, receiverVars, peerVars>>

\* Mutant: calls are numbered by the size of the map.
NumberByPending == Cardinality(DOMAIN pendingCalls) + 1

\* call.SequenceNumber = client.sequenceNumber
NextNumber == sequenceNumber

\* sendCall, as far as addCall admits the call: it is given the next number.
AddCall(c) ==
    /\ pc[c] = "lock" /\ requestMutex = None /\ entityMutex = None
    /\ IsAvailable
    /\ requestMutex' = c
    /\ callSeq' = [callSeq EXCEPT ![c] = NextNumber]
    /\ pendingCalls' = With(NextNumber, c)
    /\ sequenceNumber' = sequenceNumber + 1
    /\ pc' = [pc EXCEPT ![c] = "encode"]
    /\ UNCHANGED <<isClosed, isShutdown, entityMutex, coderVars, Error, Output,
                   Finish, ctxDone, result, receiverVars, peerVars>>

\* sendCall when addCall refuses: finished with the error, never registered.
RejectCall(c) ==
    /\ pc[c] = "lock" /\ requestMutex = None /\ entityMutex = None
    /\ ~IsAvailable
    /\ Finish[c] = 0
    /\ Error' = [Error EXCEPT ![c] = TRUE]
    /\ Finish' = [Finish EXCEPT ![c] = 1]
    /\ pc' = [pc EXCEPT ![c] = "wait"]
    /\ UNCHANGED <<clientVars, requestMutex, entityMutex, coderVars, callSeq,
                   Output, ctxDone, result, receiverVars, peerVars>>

\* EncodeMessageHeaderAndBody leaves sendCall holding requestMutex (pc "undo")
\* if it returns an error, and done with it otherwise.
EncodeReturns(c, err) ==
    /\ pc' = [pc EXCEPT ![c] = IF err THEN "undo" ELSE "wait"]
    /\ requestMutex' = IF err THEN c ELSE None
    /\ UNCHANGED <<clientVars, entityMutex, recordVars, ctxDone, result,
                   receiverVars, s2c, peerOpen, greeted, inFlight,
                   peerBuffer>>

\* The header of c's request, for a ServiceDotMethod that resolves to m.
RequestHeader(c, m) == Header(callSeq[c], m, FALSE)

\* The bufio.Writer keeps an earlier flush's error and returns it from then on.
EncodeAfterFailure(c) ==
    /\ pc[c] = "encode" /\ writeFailed
    /\ UNCHANGED <<coderVars, c2s>>
    /\ EncodeReturns(c, TRUE)

\* The body cannot be marshalled: its header stays behind in the buffer.
EncodeFails(c) ==
    /\ pc[c] = "encode" /\ ~writeFailed /\ c \in Unencodable
    /\ \E m \in Methods : buffer' = Append(buffer, RequestHeader(c, m))
    /\ UNCHANGED <<writeFailed, c2s>>
    /\ EncodeReturns(c, TRUE)

\* Both values are flushed, after whatever was left in the buffer; on a full
\* connection the goroutine blocks in Write, requestMutex held.
EncodeAndFlush(c) ==
    /\ pc[c] = "encode" /\ ~writeFailed /\ c \notin Unencodable
    /\ ~ConnectionDown
    /\ Len(c2s) + Len(buffer) + 2 <= WireCapacity
    /\ \E m \in Methods :
         c2s' = c2s \o buffer \o <<RequestHeader(c, m), Body({c}, "object")>>
    /\ buffer' = << >>
    /\ UNCHANGED writeFailed
    /\ EncodeReturns(c, FALSE)

\* The flush meets a dead connection.  Its error is dropped: the call stays
\* registered whether the write failed or was accepted by the local kernel.
EncodeIntoTheVoid(c) ==
    /\ pc[c] = "encode" /\ ~writeFailed /\ c \notin Unencodable
    /\ ConnectionDown
    /\ writeFailed' \in {TRUE, isClosed}
    /\ buffer' = << >>
    /\ UNCHANGED c2s
    /\ EncodeReturns(c, FALSE)

Encode(c) ==
    \/ EncodeAfterFailure(c) \/ EncodeFails(c)
    \/ EncodeAndFlush(c) \/ EncodeIntoTheVoid(c)

\* The encoder's error: the call is deleted and finished, if still there.
UndoSend(c) ==
    LET matched == Registered(callSeq[c])
    IN  /\ pc[c] = "undo" /\ entityMutex = None
        /\ pendingCalls' = Without(callSeq[c])
        /\ IF matched = None
             THEN UNCHANGED <<Error, Finish>>
             ELSE /\ Finish[matched] = 0
                  /\ Error' = [Error EXCEPT ![matched] = TRUE]
                  /\ Finish' = [Finish EXCEPT ![matched] = 1]
        /\ requestMutex' = None
        /\ pc' = [pc EXCEPT ![c] = "wait"]
        /\ UNCHANGED <<sequenceNumber, isClosed, isShutdown, entityMutex,
                       coderVars, callSeq, Output, ctxDone, result,
                       receiverVars, peerVars>>

\* The caller's context expires or is cancelled, at any moment of the call.
ContextDone(c) ==
    /\ c \in Cancellable /\ pc[c] \notin {"idle", "returned"} /\ ~ctxDone[c]
    /\ ctxDone' = [ctxDone EXCEPT ![c] = TRUE]
    /\ UNCHANGED <<clientVars, requestMutex, entityMutex, coderVars, recordVars,
                   pc, result, receiverVars, peerVars>>

\* Call's select takes the Finish channel.
SelectFinish(c) ==
    /\ pc[c] = "wait" /\ Finish[c] = 1
    /\ Finish' = [Finish EXCEPT ![c] = 0]
    /\ result' = [result EXCEPT ![c] = IF Error[c] THEN "error" ELSE "nil"]
    /\ pc' = [pc EXCEPT ![c] = "returned"]
    /\ UNCHANGED <<clientVars, requestMutex, entityMutex, coderVars, callSeq,
                   Error, Output, ctxDone, receiverVars, peerVars>>

\* Call's select takes context.Done(); both cases may be ready.
SelectDone(c) ==
    /\ pc[c] = "wait" /\ ctxDone[c]
    /\ pc' = [pc EXCEPT ![c] = "cancel"]
    /\ UNCHANGED <<clientVars, requestMutex, entityMutex, coderVars, recordVars,
                   ctxDone, result, receiverVars, peerVars>>

\* deleteCall(call.SequenceNumber), then the timeout error.
CancelCall(c) ==
    /\ pc[c] = "cancel" /\ entityMutex = None
    /\ pendingCalls' = Without(callSeq[c])
    /\ result' = [result EXCEPT ![c] = "timeout"]
    /\ pc' = [pc EXCEPT ![c] = "returned"]
    /\ UNCHANGED <<sequenceNumber, isClosed, isShutdown, requestMutex,
                   entityMutex, coderVars, recordVars, ctxDone, receiverVars,
                   peerVars>>

\* Client.Close by any goroutine; on a closed client it only returns an error.
Close ==
    /\ ~isClosed /\ entityMutex = None
    /\ isClosed' = TRUE
    /\ UNCHANGED <<sequenceNumber, pendingCalls, isShutdown, requestMutex,
                   entityMutex, coderVars, recordVars, callerVars,
                   receiverVars, peerVars>>

-----------------------------------------------------------------------------
(* The receiveCall goroutine. *)

\* DecodeMessageHeader reads a header, or anything it can decode as one.
RecvHeader ==
    /\ rpc = "header" /\ s2c # << >>
    /\ HeaderDecodes(Head(s2c))
    /\ response' = DecodedHeader(Head(s2c))
    /\ s2c' = Tail(s2c)
    /\ rpc' = "lookup"
    /\ UNCHANGED <<clientVars, requestMutex, entityMutex, coderVars, recordVars,
                   callerVars, rcvCall, rcvErr, toFinish, c2s, peerOpen,
                   greeted, inFlight, peerBuffer>>

\* Mutant: receiveCall returns instead of breaking out of its loop.
ReceiverReturns ==
    /\ rpc = "header"
    /\ \/ ConnectionDown
       \/ s2c # << >> /\ ~HeaderDecodes(Head(s2c))
    /\ rcvErr' = TRUE
    /\ rpc' = "stopped"
    /\ UNCHANGED <<clientVars, requestMutex, entityMutex, coderVars, recordVars,
                   callerVars, response, rcvCall, toFinish, peerVars>>

\* DecodeMessageHeader fails, the loop is left for terminateCalls.
RecvHeaderFails ==
    /\ rpc = "header"
    /\ \/ ConnectionDown
       \/ s2c # << >> /\ ~HeaderDecodes(Head(s2c))
    /\ rcvErr' = TRUE
    /\ rpc' = "lockRequest"
    /\ UNCHANGED <<clientVars, requestMutex, entityMutex, coderVars, recordVars,
                   callerVars, response, rcvCall, toFinish, peerVars>>

\* Mutant: the call is finished before its answer is decoded.
RecvLookupFinishes ==
    LET call == Registered(response.seq)
    IN  /\ rpc = "lookup" /\ entityMutex = None
        /\ pendingCalls' = Without(response.seq)
        /\ rcvCall' = call
        /\ Finish' = IF call # None THEN [Finish EXCEPT ![call] = 1] ELSE Finish
        /\ rpc' = "body"
        /\ UNCHANGED <<sequenceNumber, isClosed, isShutdown, requestMutex,
                       entityMutex, coderVars, callSeq, Error, Output,
                       callerVars, response, rcvErr, toFinish, peerVars>>

\* call := deleteCall(response.SequenceNumber); a reply's error is recorded.
RecvLookup ==
    LET call == Registered(response.seq)
    IN  /\ rpc = "lookup" /\ entityMutex = None
        /\ pendingCalls' = Without(response.seq)
        /\ rcvCall' = call
        /\ Error' = IF call # None /\ response.error
                      THEN [Error EXCEPT ![call] = TRUE] ELSE Error
        /\ rpc' = "body"
        /\ UNCHANGED <<sequenceNumber, isClosed, isShutdown, requestMutex,
                       entityMutex, coderVars, callSeq, Output, Finish,
                       callerVars, response, rcvErr, toFinish, peerVars>>

\* Mutant: the decoding error is not put into the call.
BodyReadSilently(ok) ==
    /\ rcvErr' = ~ok
    /\ rpc' = IF rcvCall = None THEN "lockRequest" ELSE "finish"
    /\ UNCHANGED <<clientVars, requestMutex, entityMutex, coderVars, callSeq,
                   Error, Finish, callerVars, response, rcvCall, toFinish, c2s,
                   peerOpen, greeted, inFlight, peerBuffer>>

\* DecodeMessageBody returned: a call that was found is finished, with an
\* error of its own if its answer could not be decoded.
BodyRead(ok) ==
    /\ rcvErr' = ~ok
    /\ rpc' = IF rcvCall = None THEN "lockRequest" ELSE "finish"
    /\ Error' = IF rcvCall # None /\ ~ok
                  THEN [Error EXCEPT ![rcvCall] = TRUE] ELSE Error
    /\ UNCHANGED <<clientVars, requestMutex, entityMutex, coderVars, callSeq,
                   Finish, callerVars, response, rcvCall, toFinish, c2s,
                   peerOpen, greeted, inFlight, peerBuffer>>

\* DecodeMessageBody(nil), for a reply nobody waits for and for an error reply:
\* encoding/json reads the value, then always returns an error.
RecvDiscard ==
    /\ rpc = "body" /\ s2c # << >>
    /\ rcvCall = None \/ response.error
    /\ s2c' = Tail(s2c)
    /\ UNCHANGED Output
    /\ BodyRead(FALSE)

\* DecodeMessageBody(call.Output).
RecvAnswer ==
    LET ok == rcvCall \notin Undecodable /\ BodyDecodes(Head(s2c), AnswerShape)
    IN  /\ rpc = "body" /\ s2c # << >>
        /\ rcvCall # None /\ ~response.error
        /\ s2c' = Tail(s2c)
        /\ Output' = IF ok
             THEN [Output EXCEPT ![rcvCall] = DecodedBody(Head(s2c))]
             ELSE Output
        /\ BodyRead(ok)

\* DecodeMessageBody meets the end of the connection.
RecvBodyFails ==
    /\ rpc = "body" /\ ConnectionDown
    /\ UNCHANGED <<Output, s2c>>
    /\ BodyRead(FALSE)

RecvBody == RecvDiscard \/ RecvAnswer \/ RecvBodyFails

\* call.finishCall(); the loop goes on unless the body's decoding failed.
RecvFinish ==
    /\ rpc = "finish" /\ Finish[rcvCall] = 0
    /\ Finish' = [Finish EXCEPT ![rcvCall] = 1]
    /\ rcvCall' = None
    /\ rpc' = IF rcvErr THEN "lockRequest" ELSE "header"
    /\ UNCHANGED <<clientVars, requestMutex, entityMutex, coderVars, callSeq,
                   Error, Output, callerVars, response, rcvErr, toFinish,
                   peerVars>>

\* Mutant: terminateCalls does not take requestMutex.
TerminateUnlocked ==
    /\ rpc = "lockRequest"
    /\ rpc' = "lockEntity"
    /\ UNCHANGED <<clientVars, requestMutex, entityMutex, coderVars, recordVars,
                   callerVars, response, rcvCall, rcvErr, toFinish, peerVars>>

\* terminateCalls takes requestMutex, then entityMutex ...
TerminateLockRequest ==
    /\ rpc = "lockRequest" /\ requestMutex = None
    /\ requestMutex' = Receiver
    /\ rpc' = "lockEntity"
    /\ UNCHANGED <<clientVars, entityMutex, coderVars, recordVars, callerVars,
                   response, rcvCall, rcvErr, toFinish, peerVars>>

\* Mutant: it marks the client, and leaves the pending calls alone.
TerminateWithoutCalls ==
    /\ rpc = "lockEntity" /\ entityMutex = None
    /\ entityMutex' = Receiver
    /\ isShutdown' = TRUE
    /\ rpc' = "finishAll"
    /\ UNCHANGED <<sequenceNumber, pendingCalls, isClosed, requestMutex,
                   coderVars, recordVars, callerVars, response, rcvCall,
                   rcvErr, toFinish, peerVars>>

TerminateLockEntity ==
    /\ rpc = "lockEntity" /\ entityMutex = None
    /\ entityMutex' = Receiver
    /\ isShutdown' = TRUE
    /\ toFinish' = {pendingCalls[n] : n \in DOMAIN pendingCalls}
    /\ rpc' = "finishAll"
    /\ UNCHANGED <<sequenceNumber, pendingCalls, isClosed, requestMutex,
                   coderVars, recordVars, callerVars, response, rcvCall,
                   rcvErr, peerVars>>

\* ... finishes the pending calls in the map's order, that is in any order ...
TerminateOne(c) ==
    /\ rpc = "finishAll" /\ c \in toFinish /\ Finish[c] = 0
    /\ Error' = [Error EXCEPT ![c] = TRUE]
    /\ Finish' = [Finish EXCEPT ![c] = 1]
    /\ toFinish' = toFinish \ {c}
    /\ UNCHANGED <<clientVars, requestMutex, entityMutex, coderVars, callSeq,
                   Output, callerVars, rpc, response, rcvCall, rcvErr, peerVars>>

\* Mutant: entityMutex is not released.
TerminateEndLocked ==
    /\ rpc = "finishAll" /\ toFinish = {}
    /\ requestMutex' = None
    /\ rpc' = "stopped"
    /\ UNCHANGED <<clientVars, entityMutex, coderVars, recordVars, callerVars,
                   response, rcvCall, rcvErr, toFinish, peerVars>>

\* ... without deleting them, and releases both mutexes.
TerminateEnd ==
    /\ rpc = "finishAll" /\ toFinish = {}
    /\ requestMutex' = None /\ entityMutex' = None
    /\ rpc' = "stopped"
    /\ UNCHANGED <<clientVars, coderVars, recordVars, callerVars, response,
                   rcvCall, rcvErr, toFinish, peerVars>>

-----------------------------------------------------------------------------
(* The server, as far as a client can tell. *)

ErrorReply(h) == <<Header(h.seq, h.method, TRUE), InvalidRequest>>

\* send_response: what an earlier one left in the bufio.Writer goes first; to a
\* client that has closed nothing gets through.
PeerSends(message) ==
    /\ s2c' = IF isClosed THEN s2c ELSE s2c \o peerBuffer \o message
    /\ peerBuffer' = << >>

\* serveCoder reads on only after it has refused what it could not read.
Refusing == \E request \in inFlight : request.refused

\* ServeConnection has read the connection information, and lost with its
\* decoder what that had read ahead of the requests.
PeerHandshake ==
    /\ peerOpen /\ ~greeted
    /\ greeted' = TRUE
    /\ c2s' \in ReadAhead(c2s, Overread)
    /\ UNCHANGED <<clientVars, requestMutex, entityMutex, coderVars, recordVars,
                   callerVars, receiverVars, s2c, peerOpen, inFlight,
                   peerBuffer>>

\* read_request of a known method: the next value is its body, whatever it is.
PeerTake ==
    /\ greeted /\ Len(c2s) >= 2 /\ ~Refusing
    /\ DecodedHeader(c2s[1]).method = "found"
    /\ inFlight' = inFlight \cup {[header |-> c2s[1], refused |-> FALSE,
                                   data |-> DecodedBody(c2s[2])]}
    /\ c2s' = Tail(Tail(c2s))
    /\ UNCHANGED <<clientVars, requestMutex, entityMutex, coderVars, recordVars,
                   callerVars, receiverVars, s2c, peerOpen, greeted, peerBuffer>>

\* read_request of an unknown service, or of a body taken for a header, or of a
\* header whose body does not come: the number read will be refused, and what
\* follows is left on the connection.
PeerRefuse ==
    LET header == DecodedHeader(Head(c2s))
    IN  /\ greeted /\ c2s # << >> /\ ~Refusing
        /\ HeaderDecodes(Head(c2s))
        /\ header.method \notin {"found", "noMethod"} \/ isClosed
        /\ inFlight' = inFlight \cup {[header |-> header, refused |-> TRUE,
                                       data |-> ZeroData]}
        /\ c2s' = Tail(c2s)
        /\ UNCHANGED <<clientVars, requestMutex, entityMutex, coderVars,
                       recordVars, callerVars, receiverVars, s2c, peerOpen,
                       greeted, peerBuffer>>

\* request_handle: one reply, in any order of the requests: an error, the
\* answer, or only the answer's header, unsent, if it cannot be marshalled.
PeerReply(request) ==
    /\ peerOpen
    /\ inFlight' = inFlight \ {request}
    /\ \/ PeerSends(ErrorReply(request.header))
       \/ /\ ~request.refused /\ request.data \cap Unmarshalable = {}
          /\ PeerSends(<<request.header, Body(request.data, AnswerShape)>>)
       \/ /\ ~request.refused /\ request.data \cap Unmarshalable # {}
          /\ peerBuffer' = Append(peerBuffer, request.header)
          /\ UNCHANGED s2c
    /\ UNCHANGED <<clientVars, requestMutex, entityMutex, coderVars, recordVars,
                   callerVars, receiverVars, c2s, peerOpen, greeted>>

\* The server crashes or closes, as it does when it cannot decode a header;
\* what was on its way to it is lost.
PeerHangup ==
    /\ peerOpen
    /\ peerOpen' = FALSE /\ greeted' = FALSE
    /\ c2s' = << >> /\ inFlight' = {} /\ peerBuffer' = << >>
    /\ UNCHANGED <<clientVars, requestMutex, entityMutex, coderVars, recordVars,
                   callerVars, receiverVars, s2c>>

-----------------------------------------------------------------------------
\* Everything is over; any other state without a successor is a deadlock.
Quiescent ==
    /\ \A c \in Calls : pc[c] = "returned"
    /\ rpc = "stopped" /\ isClosed /\ ~peerOpen
    /\ UNCHANGED vars

CallerStep(c) ==
    \/ AddCall(c) \/ RejectCall(c)
    \/ Encode(c) \/ UndoSend(c)
    \/ SelectFinish(c) \/ SelectDone(c) \/ CancelCall(c)

ReceiverStep ==
    \/ RecvHeader \/ RecvHeaderFails \/ RecvLookup
    \/ RecvBody \/ RecvFinish
    \/ TerminateLockRequest \/ TerminateLockEntity
    \/ \E c \in Calls : TerminateOne(c)
    \/ TerminateEnd

PeerStep ==
    \/ PeerHandshake \/ PeerTake \/ PeerRefuse \/ PeerHangup
    \/ \E request \in inFlight : PeerReply(request)

Next ==
    \/ \E c \in Calls : StartCall(c) \/ ContextDone(c) \/ CallerStep(c)
    \/ Close
    \/ ReceiverStep
    \/ PeerStep
    \/ Quiescent

Spec == Init /\ [][Next]_vars

\* The Go scheduler runs every goroutine that can go on; nothing makes a
\* context expire, a client close or a server answer.
FairSpec ==
    /\ Spec
    /\ \A c \in Calls : WF_vars(CallerStep(c))
    /\ WF_vars(ReceiverStep)

-----------------------------------------------------------------------------
(* Correctness. *)

\* A goroutine that has a call to finish, and which one.
AboutToFinish(c) ==
    \/ pc[c] = "lock"
    \/ \E d \in Calls : pc[d] = "undo" /\ Registered(callSeq[d]) = c
    \/ rpc \in {"body", "finish"} /\ rcvCall = c
    \/ rpc = "finishAll" /\ c \in toFinish

\* A call is finished at most once: whoever is about to send it on its Finish
\* channel, which holds one value, finds the channel empty and the call not
\* yet finished before.  Otherwise finishCall would block for ever, with the
\* mutexes held in sendCall and terminateCalls.
FinishedAtMostOnce ==
    \A c \in Calls : AboutToFinish(c) =>
        Finish[c] = 0 /\ result[c] \in {"none", "timeout"}

\* Somebody is still going to finish c.
Outstanding(c) ==
    \/ Registered(callSeq[c]) = c /\ rpc \notin {"finishAll", "stopped"}
    \/ rpc \in {"body", "finish"} /\ rcvCall = c
    \/ rpc = "finishAll" /\ c \in toFinish

\* No caller waits for nothing: a call in Call()'s select has its result in
\* the Finish channel, or is still pending for a receiver that has not
\* terminated, or is the one the receiver or terminateCalls is working on.
NoCallerLeftBehind ==
    \A c \in Calls : pc[c] = "wait" => Finish[c] = 1 \/ Outstanding(c)

\* "The output from the function" (client.go:25): a Call that returned nil has
\* the answer to its own inputs in its output, and keeps it.
AnswerIntegrity ==
    \A c \in Calls : result[c] = "nil" => Output[c] = {c}

\* A caller owns its output again when Call returns nil or the call's error:
\* the receiver writes into the output of a returned call only if Call gave up
\* on it at a timeout.
OutputSettled ==
    [][\A c \in Calls :
         Output'[c] # Output[c] => result[c] \in {"none", "timeout"}]_vars

-----------------------------------------------------------------------------
(* The refinement of RpcCalls. *)

Phase(c) ==
    CASE pc[c] \in {"idle", "returned"} -> pc[c]
      [] pc[c] \notin {"idle", "returned"} ->
           IF Finish[c] = 1 THEN "settled" ELSE "open"

\* A nil error whose output is not the call's own answer has no name in
\* RpcCalls: no step of it leads to "foreign".
Outcome(c) ==
    CASE result[c] = "timeout" -> "timeout"
      [] result[c] = "error" \/ (result[c] = "none" /\ Finish[c] = 1 /\ Error[c])
           -> "error"
      [] result[c] = "nil" \/ (result[c] = "none" /\ Finish[c] = 1 /\ ~Error[c])
           -> IF Output[c] = {c} THEN "answer" ELSE "foreign"
      [] OTHER -> "none"

Abstract == INSTANCE RpcCalls WITH
    phase   <- [c \in Calls |-> Phase(c)],
    outcome <- [c \in Calls |-> Outcome(c)],
    expired <- {c \in Calls : ctxDone[c]},
    down    <- isShutdown

\* The client keeps the contract of RpcCalls: one settling per call, answers
\* only to the call they belong to and none once the client is shut down.
ImplementsRpcCalls == Abstract!Spec

\* ... and under the scheduler's fairness, its progress: a settled call returns
\* and a client that was shut down settles every open call.
FairlyImplementsRpcCalls == Abstract!FairSpec

-----------------------------------------------------------------------------
(* Progress. *)

\* A caller in Call()'s select whose context is done returns, whatever the
\* server does and whoever holds requestMutex.
TimeoutHonoured ==
    \A c \in Calls : (pc[c] = "wait" /\ ctxDone[c]) ~> pc[c] = "returned"

\* When the connection is lost or the client closed, every call that was made
\* returns, those still queueing for requestMutex or blocked in the middle of
\* a send included.
ConnectionLossDrains ==
    \A c \in Calls :
        (ConnectionDown /\ pc[c] # "idle") ~> pc[c] = "returned"

-----------------------------------------------------------------------------
(* What a comment or a test says and the code does not do. *)

\* client.go:43, "close by runtime error": the client is shut down only after
\* the connection failed or was closed, not because of a reply it read.
ShutdownOnlyByRuntimeError ==
    [][rpc' = "lockRequest" /\ rpc # "lockRequest" => ConnectionDown]_vars
=============================================================================
