-------------------------- MODULE RpcClientProofs ---------------------------
(***************************************************************************)
(* Proofs about RpcClient, for every set of calls and every behaviour of   *)
(* the server: its type invariant, FinishedAtMostOnce and                  *)
(* NoCallerLeftBehind.  All three follow from the inductive invariant      *)
(* IInv, which says who holds the mutexes, that a number identifies one    *)
(* call, and that a call is in the hands of one goroutine at a time.       *)
(***************************************************************************)
EXTENDS RpcClient, TLAPS

Sending(c) == pc[c] \in {"encode", "undo"}

\* pendingCalls[n] is c for some n.
Pending(c) == \E n \in DOMAIN pendingCalls : pendingCalls[n] = c

\* finishCall has not happened to c yet.
Fresh(c) == Finish[c] = 0 /\ result[c] \in {"none", "timeout"}

Terminated == rpc \in {"finishAll", "stopped"}

\* requestMutex is held exactly by the goroutine inside sendCall or
\* terminateCalls, entityMutex across steps only by terminateCalls.
MutexInv ==
    /\ \A c \in Calls : requestMutex = c <=> Sending(c)
    /\ requestMutex = Receiver <=> rpc \in {"lockEntity", "finishAll"}
    /\ entityMutex = Receiver <=> rpc = "finishAll"

\* Numbers are given once; the map files a call under its number.
NumberInv ==
    /\ \A c \in Calls : callSeq[c] < sequenceNumber
    /\ \A c \in Calls : pc[c] \in {"idle", "lock"} => callSeq[c] = 0
    /\ \A c, d \in Calls : callSeq[c] = callSeq[d] /\ callSeq[c] # 0 => c = d
    /\ \A n \in DOMAIN pendingCalls : n # 0 /\ callSeq[pendingCalls[n]] = n

\* Nothing is sent after terminateCalls: it waited for requestMutex, and
\* addCall refuses from then on.
ShutdownInv ==
    /\ isShutdown <=> Terminated
    /\ Terminated => \A c \in Calls : ~Sending(c)

\* A call some goroutine may still finish has not been finished; the receiver
\* never works on a call that is still in the map.
FinishInv ==
    /\ \A c \in Calls : pc[c] \in {"idle", "lock"} => Fresh(c)
    /\ \A c \in Calls : ~Terminated /\ Pending(c) => Fresh(c)
    /\ rpc \in {"body", "finish"} /\ rcvCall # None =>
         Fresh(rcvCall) /\ ~Pending(rcvCall) /\ callSeq[rcvCall] # 0
    /\ rpc = "finish" => rcvCall # None
    /\ rpc = "finishAll" => \A c \in toFinish : Fresh(c) /\ callSeq[c] # 0

\* NoCallerLeftBehind, for the calls being sent too.
CoveredInv ==
    \A c \in Calls : pc[c] \in {"encode", "undo", "wait"} =>
        Finish[c] = 1 \/ Outstanding(c)

IInv ==
    /\ TypeOK
    /\ MutexInv
    /\ NumberInv
    /\ ShutdownInv
    /\ FinishInv
    /\ CoveredInv

-----------------------------------------------------------------------------
(* The map: what addCall, and the two uses of deleteCall, leave in it. *)

USE CallsAssumption
    DEF clientVars, coderVars, recordVars, callerVars, receiverVars, peerVars

\* deleteCall(callSeq[c]) removes c, if it was there, and no other call.
LEMMA WithoutCall ==
    ASSUME TypeOK, NumberInv, NEW c \in Calls,
           pendingCalls' = Without(callSeq[c])
    PROVE  /\ DOMAIN pendingCalls' = DOMAIN pendingCalls \ {callSeq[c]}
           /\ \A n \in DOMAIN pendingCalls' : pendingCalls'[n] = pendingCalls[n]
           /\ ~Pending(c)'
           /\ \A d \in Calls : Pending(d)' => Pending(d)
  BY DEF Without, Restrict, TypeOK, NumberInv, Pending

\* What is found under a number is the call that has this number, or nil.
LEMMA RegisteredCall ==
    ASSUME TypeOK, NumberInv, NEW n
    PROVE  /\ Registered(n) \in Calls \cup {None}
           /\ Registered(n) \in Calls =>
                /\ Pending(Registered(n))
                /\ callSeq[Registered(n)] = n
                /\ n # 0
  BY DEF Registered, TypeOK, NumberInv, Pending

-----------------------------------------------------------------------------
(* What the groups of actions have in common. *)

\* However it ends, encoding touches the mutex and the caller's own place only.
LEMMA EncodeEffect ==
    ASSUME TypeOK, NEW c \in Calls, Encode(c)
    PROVE  /\ pc[c] = "encode"
           /\ EncodeReturns(c, TRUE) \/ EncodeReturns(c, FALSE)
           /\ writeFailed' \in BOOLEAN
<1>1. CASE EncodeAfterFailure(c)
  BY <1>1 DEF EncodeAfterFailure, TypeOK
<1>2. CASE EncodeFails(c)
  BY <1>2 DEF EncodeFails, TypeOK
<1>3. CASE EncodeAndFlush(c)
  BY <1>3 DEF EncodeAndFlush, TypeOK
<1>4. CASE EncodeIntoTheVoid(c)
  BY <1>4 DEF EncodeIntoTheVoid, TypeOK
<1>5. QED
  BY <1>1, <1>2, <1>3, <1>4 DEF Encode

\* The server changes nothing but the connection.
LEMMA PeerFrame ==
    ASSUME TypeOK, PeerStep
    PROVE  /\ UNCHANGED <<clientVars, requestMutex, entityMutex, coderVars,
                          recordVars, callerVars, receiverVars>>
           /\ peerOpen' \in BOOLEAN /\ greeted' \in BOOLEAN
<1>1. CASE PeerHandshake
  BY <1>1 DEF PeerHandshake, TypeOK
<1>2. CASE PeerTake
  BY <1>2 DEF PeerTake, TypeOK
<1>3. CASE PeerRefuse
  BY <1>3 DEF PeerRefuse, TypeOK
<1>4. CASE PeerHangup
  BY <1>4 DEF PeerHangup, TypeOK
<1>5. ASSUME NEW request \in inFlight, PeerReply(request)
      PROVE  /\ UNCHANGED <<clientVars, requestMutex, entityMutex, coderVars,
                            recordVars, callerVars, receiverVars>>
             /\ peerOpen' \in BOOLEAN /\ greeted' \in BOOLEAN
  BY <1>5 DEF PeerReply, TypeOK
<1>6. QED
  BY <1>1, <1>2, <1>3, <1>4, <1>5 DEF PeerStep

-----------------------------------------------------------------------------
(* Every step preserves each conjunct of IInv. *)

\* TypeOK, which no other invariant is needed for.
LEMMA TypeStep ==
    TypeOK /\ [Next]_vars => TypeOK'
<1> SUFFICES ASSUME TypeOK, [Next]_vars PROVE TypeOK'
  OBVIOUS
<1> USE DEF TypeOK
<1>1. ASSUME NEW c \in Calls, StartCall(c) PROVE TypeOK'
  BY <1>1 DEF StartCall
<1>2. ASSUME NEW c \in Calls, AddCall(c) PROVE TypeOK'
  BY <1>2 DEF AddCall, NextNumber, IsAvailable, With
<1>3. ASSUME NEW c \in Calls, RejectCall(c) PROVE TypeOK'
  BY <1>3 DEF RejectCall, IsAvailable
<1>4. ASSUME NEW c \in Calls, Encode(c) PROVE TypeOK'
  BY <1>4, EncodeEffect DEF EncodeReturns
<1>5. ASSUME NEW c \in Calls, UndoSend(c) PROVE TypeOK'
  <2>1. pendingCalls' = Without(callSeq[c]) /\ Registered(callSeq[c]) \in Calls \cup {None}
    BY <1>5 DEF UndoSend, Registered
  <2>2. DOMAIN pendingCalls' \subseteq Nat /\ \A n \in DOMAIN pendingCalls' : pendingCalls'[n] \in Calls
    BY <2>1 DEF Without, Restrict
  <2>3. CASE Registered(callSeq[c]) = None
    BY <1>5, <2>2, <2>3 DEF UndoSend
  <2>4. CASE Registered(callSeq[c]) \in Calls
    <3>1. /\ Error' = [Error EXCEPT ![Registered(callSeq[c])] = TRUE]
          /\ Finish' = [Finish EXCEPT ![Registered(callSeq[c])] = 1]
      BY <1>5, <2>4 DEF UndoSend
    <3>2. Error' \in [Calls -> BOOLEAN] /\ Finish' \in [Calls -> 0 .. 1]
      BY <2>4, <3>1
    <3>3. QED
      BY <1>5, <2>2, <3>2 DEF UndoSend
  <2>5. QED
    BY <2>1, <2>3, <2>4
<1>6. ASSUME NEW c \in Calls, ContextDone(c) PROVE TypeOK'
  BY <1>6 DEF ContextDone
<1>7. ASSUME NEW c \in Calls, SelectFinish(c) PROVE TypeOK'
  BY <1>7 DEF SelectFinish
<1>8. ASSUME NEW c \in Calls, SelectDone(c) PROVE TypeOK'
  BY <1>8 DEF SelectDone
<1>9. ASSUME NEW c \in Calls, CancelCall(c) PROVE TypeOK'
  BY <1>9 DEF CancelCall, Without, Restrict
<1>10. CASE Close
  BY <1>10 DEF Close
<1>11. CASE RecvHeader
  BY <1>11 DEF RecvHeader
<1>12. CASE RecvHeaderFails
  BY <1>12 DEF RecvHeaderFails
<1>13. CASE RecvLookup
  BY <1>13 DEF RecvLookup, Registered, Without, Restrict
<1>14. CASE RecvBody
  BY <1>14 DEF RecvBody, RecvDiscard, RecvAnswer, RecvBodyFails, BodyRead
<1>15. CASE RecvFinish
  <2>1. CASE rcvCall \in Calls
    BY <1>15, <2>1 DEF RecvFinish
  <2>2. CASE rcvCall = None
    <3>1. Finish' = Finish
      BY <1>15, <2>2 DEF RecvFinish
    <3>2. QED
      BY <1>15, <3>1 DEF RecvFinish
  <2>3. QED
    BY <2>1, <2>2
<1>16. CASE TerminateLockRequest
  BY <1>16 DEF TerminateLockRequest
<1>17. CASE TerminateLockEntity
  BY <1>17 DEF TerminateLockEntity
<1>18. ASSUME NEW c \in Calls, TerminateOne(c) PROVE TypeOK'
  BY <1>18 DEF TerminateOne
<1>19. CASE TerminateEnd
  BY <1>19 DEF TerminateEnd
<1>20. CASE PeerStep
  BY <1>20, PeerFrame
<1>21. CASE UNCHANGED vars
  BY <1>21 DEF vars
<1>22. QED
  BY <1>1, <1>2, <1>3, <1>4, <1>5, <1>6, <1>7, <1>8, <1>9, <1>10, <1>11,
      <1>12, <1>13, <1>14, <1>15, <1>16, <1>17, <1>18, <1>19, <1>20, <1>21
  DEF Next, CallerStep, ReceiverStep, Quiescent

\* Both mutexes: lock and unlock are paired on every path.
LEMMA MutexStep ==
    TypeOK /\ MutexInv /\ ShutdownInv /\ [Next]_vars => MutexInv'
<1> SUFFICES ASSUME TypeOK /\ MutexInv /\ ShutdownInv, [Next]_vars PROVE MutexInv'
  OBVIOUS
<1> USE DEF TypeOK, MutexInv, ShutdownInv, Sending, Terminated
<1>1. ASSUME NEW c \in Calls, StartCall(c) PROVE MutexInv'
  BY <1>1 DEF StartCall
<1>2. ASSUME NEW c \in Calls, AddCall(c) PROVE MutexInv'
  BY <1>2 DEF AddCall, NextNumber, IsAvailable, With
<1>3. ASSUME NEW c \in Calls, RejectCall(c) PROVE MutexInv'
  BY <1>3 DEF RejectCall, IsAvailable
<1>4. ASSUME NEW c \in Calls, Encode(c) PROVE MutexInv'
  BY <1>4, EncodeEffect DEF EncodeReturns
<1>5. ASSUME NEW c \in Calls, UndoSend(c) PROVE MutexInv'
  BY <1>5 DEF UndoSend, Registered, Without, Restrict
<1>6. ASSUME NEW c \in Calls, ContextDone(c) PROVE MutexInv'
  BY <1>6 DEF ContextDone
<1>7. ASSUME NEW c \in Calls, SelectFinish(c) PROVE MutexInv'
  BY <1>7 DEF SelectFinish
<1>8. ASSUME NEW c \in Calls, SelectDone(c) PROVE MutexInv'
  BY <1>8 DEF SelectDone
<1>9. ASSUME NEW c \in Calls, CancelCall(c) PROVE MutexInv'
  BY <1>9 DEF CancelCall, Without, Restrict
<1>10. CASE Close
  BY <1>10 DEF Close
<1>11. CASE RecvHeader
  BY <1>11 DEF RecvHeader
<1>12. CASE RecvHeaderFails
  BY <1>12 DEF RecvHeaderFails
<1>13. CASE RecvLookup
  BY <1>13 DEF RecvLookup, Registered, Without, Restrict
<1>14. CASE RecvBody
  BY <1>14 DEF RecvBody, RecvDiscard, RecvAnswer, RecvBodyFails, BodyRead
<1>15. CASE RecvFinish
  BY <1>15 DEF RecvFinish
<1>16. CASE TerminateLockRequest
  BY <1>16 DEF TerminateLockRequest
<1>17. CASE TerminateLockEntity
  BY <1>17 DEF TerminateLockEntity
<1>18. ASSUME NEW c \in Calls, TerminateOne(c) PROVE MutexInv'
  BY <1>18 DEF TerminateOne
<1>19. CASE TerminateEnd
  BY <1>19 DEF TerminateEnd
<1>20. CASE PeerStep
  BY <1>20, PeerFrame
<1>21. CASE UNCHANGED vars
  BY <1>21 DEF vars
<1>22. QED
  BY <1>1, <1>2, <1>3, <1>4, <1>5, <1>6, <1>7, <1>8, <1>9, <1>10, <1>11,
      <1>12, <1>13, <1>14, <1>15, <1>16, <1>17, <1>18, <1>19, <1>20, <1>21
  DEF Next, CallerStep, ReceiverStep, Quiescent

\* isShutdown is set under both mutexes, and nothing is sent afterwards.
LEMMA ShutdownStep ==
    TypeOK /\ MutexInv /\ ShutdownInv /\ [Next]_vars => ShutdownInv'
<1> SUFFICES ASSUME TypeOK /\ MutexInv /\ ShutdownInv, [Next]_vars PROVE ShutdownInv'
  OBVIOUS
<1> USE DEF TypeOK, MutexInv, ShutdownInv, Sending, Terminated
<1>1. ASSUME NEW c \in Calls, StartCall(c) PROVE ShutdownInv'
  BY <1>1 DEF StartCall
<1>2. ASSUME NEW c \in Calls, AddCall(c) PROVE ShutdownInv'
  BY <1>2 DEF AddCall, NextNumber, IsAvailable, With
<1>3. ASSUME NEW c \in Calls, RejectCall(c) PROVE ShutdownInv'
  BY <1>3 DEF RejectCall, IsAvailable
<1>4. ASSUME NEW c \in Calls, Encode(c) PROVE ShutdownInv'
  BY <1>4, EncodeEffect DEF EncodeReturns
<1>5. ASSUME NEW c \in Calls, UndoSend(c) PROVE ShutdownInv'
  BY <1>5 DEF UndoSend, Registered, Without, Restrict
<1>6. ASSUME NEW c \in Calls, ContextDone(c) PROVE ShutdownInv'
  BY <1>6 DEF ContextDone
<1>7. ASSUME NEW c \in Calls, SelectFinish(c) PROVE ShutdownInv'
  BY <1>7 DEF SelectFinish
<1>8. ASSUME NEW c \in Calls, SelectDone(c) PROVE ShutdownInv'
  BY <1>8 DEF SelectDone
<1>9. ASSUME NEW c \in Calls, CancelCall(c) PROVE ShutdownInv'
  BY <1>9 DEF CancelCall, Without, Restrict
<1>10. CASE Close
  BY <1>10 DEF Close
<1>11. CASE RecvHeader
  BY <1>11 DEF RecvHeader
<1>12. CASE RecvHeaderFails
  BY <1>12 DEF RecvHeaderFails
<1>13. CASE RecvLookup
  BY <1>13 DEF RecvLookup, Registered, Without, Restrict
<1>14. CASE RecvBody
  BY <1>14 DEF RecvBody, RecvDiscard, RecvAnswer, RecvBodyFails, BodyRead
<1>15. CASE RecvFinish
  BY <1>15 DEF RecvFinish
<1>16. CASE TerminateLockRequest
  BY <1>16 DEF TerminateLockRequest
<1>17. CASE TerminateLockEntity
  BY <1>17 DEF TerminateLockEntity
<1>18. ASSUME NEW c \in Calls, TerminateOne(c) PROVE ShutdownInv'
  BY <1>18 DEF TerminateOne
<1>19. CASE TerminateEnd
  BY <1>19 DEF TerminateEnd
<1>20. CASE PeerStep
  BY <1>20, PeerFrame
<1>21. CASE UNCHANGED vars
  BY <1>21 DEF vars
<1>22. QED
  BY <1>1, <1>2, <1>3, <1>4, <1>5, <1>6, <1>7, <1>8, <1>9, <1>10, <1>11,
      <1>12, <1>13, <1>14, <1>15, <1>16, <1>17, <1>18, <1>19, <1>20, <1>21
  DEF Next, CallerStep, ReceiverStep, Quiescent

\* Sequence numbers and the keys of the map.
LEMMA NumberStep ==
    TypeOK /\ NumberInv /\ [Next]_vars => NumberInv'
<1> SUFFICES ASSUME TypeOK /\ NumberInv, [Next]_vars PROVE NumberInv'
  OBVIOUS
<1> USE DEF TypeOK, NumberInv
<1>1. ASSUME NEW c \in Calls, StartCall(c) PROVE NumberInv'
  BY <1>1 DEF StartCall
<1>2. ASSUME NEW c \in Calls, AddCall(c) PROVE NumberInv'
  BY <1>2 DEF AddCall, NextNumber, IsAvailable, With
<1>3. ASSUME NEW c \in Calls, RejectCall(c) PROVE NumberInv'
  BY <1>3 DEF RejectCall, IsAvailable
<1>4. ASSUME NEW c \in Calls, Encode(c) PROVE NumberInv'
  BY <1>4, EncodeEffect DEF EncodeReturns
<1>5. ASSUME NEW c \in Calls, UndoSend(c) PROVE NumberInv'
  BY <1>5 DEF UndoSend, Registered, Without, Restrict
<1>6. ASSUME NEW c \in Calls, ContextDone(c) PROVE NumberInv'
  BY <1>6 DEF ContextDone
<1>7. ASSUME NEW c \in Calls, SelectFinish(c) PROVE NumberInv'
  BY <1>7 DEF SelectFinish
<1>8. ASSUME NEW c \in Calls, SelectDone(c) PROVE NumberInv'
  BY <1>8 DEF SelectDone
<1>9. ASSUME NEW c \in Calls, CancelCall(c) PROVE NumberInv'
  BY <1>9 DEF CancelCall, Without, Restrict
<1>10. CASE Close
  BY <1>10 DEF Close
<1>11. CASE RecvHeader
  BY <1>11 DEF RecvHeader
<1>12. CASE RecvHeaderFails
  BY <1>12 DEF RecvHeaderFails
<1>13. CASE RecvLookup
  BY <1>13 DEF RecvLookup, Registered, Without, Restrict
<1>14. CASE RecvBody
  BY <1>14 DEF RecvBody, RecvDiscard, RecvAnswer, RecvBodyFails, BodyRead
<1>15. CASE RecvFinish
  BY <1>15 DEF RecvFinish
<1>16. CASE TerminateLockRequest
  BY <1>16 DEF TerminateLockRequest
<1>17. CASE TerminateLockEntity
  BY <1>17 DEF TerminateLockEntity
<1>18. ASSUME NEW c \in Calls, TerminateOne(c) PROVE NumberInv'
  BY <1>18 DEF TerminateOne
<1>19. CASE TerminateEnd
  BY <1>19 DEF TerminateEnd
<1>20. CASE PeerStep
  BY <1>20, PeerFrame
<1>21. CASE UNCHANGED vars
  BY <1>21 DEF vars
<1>22. QED
  BY <1>1, <1>2, <1>3, <1>4, <1>5, <1>6, <1>7, <1>8, <1>9, <1>10, <1>11,
      <1>12, <1>13, <1>14, <1>15, <1>16, <1>17, <1>18, <1>19, <1>20, <1>21
  DEF Next, CallerStep, ReceiverStep, Quiescent

\* A call that may still be finished has not been finished.
LEMMA FinishStep ==
    IInv /\ [Next]_vars => FinishInv'
<1> SUFFICES ASSUME IInv, [Next]_vars PROVE FinishInv'
  OBVIOUS
<1> USE DEF IInv, TypeOK, MutexInv, NumberInv, ShutdownInv, FinishInv, Fresh,
            Pending, Terminated, Sending
<1>1. ASSUME NEW c \in Calls, StartCall(c) PROVE FinishInv'
  BY <1>1 DEF StartCall
<1>2. ASSUME NEW c \in Calls, AddCall(c) PROVE FinishInv'
  <2>1. /\ ~Terminated /\ Fresh(c) /\ callSeq[c] = 0
        /\ \A d \in Calls : Fresh(d)' <=> Fresh(d)
    BY <1>2 DEF AddCall, IsAvailable
  <2>2. \A d \in Calls : Pending(d)' => d = c \/ Pending(d)
    BY <1>2 DEF AddCall, NextNumber, With
  <2>3. QED
    BY <1>2, <2>1, <2>2 DEF AddCall, NextNumber
<1>3. ASSUME NEW c \in Calls, RejectCall(c) PROVE FinishInv'
  BY <1>3 DEF RejectCall, IsAvailable
<1>4. ASSUME NEW c \in Calls, Encode(c) PROVE FinishInv'
  BY <1>4, EncodeEffect DEF EncodeReturns
<1>5. ASSUME NEW c \in Calls, UndoSend(c) PROVE FinishInv'
  <2> DEFINE m == Registered(callSeq[c])
  <2>1. Sending(c) /\ ~Terminated
    BY <1>5 DEF UndoSend
  <2>2. /\ \A d \in Calls : Pending(d)' => Pending(d)
        /\ ~Pending(c)'
    <3>1. pendingCalls' = Without(callSeq[c])
      BY <1>5 DEF UndoSend
    <3>2. QED
      BY <3>1, WithoutCall
  <2>3. m = None \/ m = c
    BY <1>5, RegisteredCall DEF UndoSend
  <2>4. m = c => Pending(c)
    BY RegisteredCall
  <2>5. CASE m = None
    BY <1>5, <2>1, <2>2, <2>5 DEF UndoSend
  <2>6. CASE m = c
    BY <1>5, <2>1, <2>2, <2>4, <2>6 DEF UndoSend
  <2>7. QED
    BY <2>3, <2>5, <2>6
<1>6. ASSUME NEW c \in Calls, ContextDone(c) PROVE FinishInv'
  BY <1>6 DEF ContextDone
<1>7. ASSUME NEW c \in Calls, SelectFinish(c) PROVE FinishInv'
  BY <1>7 DEF SelectFinish
<1>8. ASSUME NEW c \in Calls, SelectDone(c) PROVE FinishInv'
  BY <1>8 DEF SelectDone
<1>9. ASSUME NEW c \in Calls, CancelCall(c) PROVE FinishInv'
  <2>1. \A d \in Calls : Pending(d)' => Pending(d)
    <3>1. pendingCalls' = Without(callSeq[c])
      BY <1>9 DEF CancelCall
    <3>2. QED
      BY <3>1, WithoutCall
  <2>2. \A d \in Calls : Fresh(d) => Fresh(d)'
    BY <1>9 DEF CancelCall
  <2>3. QED
    BY <1>9, <2>1, <2>2 DEF CancelCall
<1>10. CASE Close
  BY <1>10 DEF Close
<1>11. CASE RecvHeader
  BY <1>11 DEF RecvHeader
<1>12. CASE RecvHeaderFails
  BY <1>12 DEF RecvHeaderFails
<1>13. CASE RecvLookup
  <2>1. PICK call \in Calls \cup {None} : call = Registered(response.seq)
    BY RegisteredCall
  <2>2. /\ ~Terminated /\ ~Terminated'
        /\ rcvCall' = call /\ rpc' = "body"
        /\ UNCHANGED <<Finish, result, callSeq, pc>>
    BY <1>13, <2>1 DEF RecvLookup
  <2>3. pendingCalls' = Without(response.seq)
    BY <1>13 DEF RecvLookup
  <2>4. \A d \in Calls : Pending(d)' => Pending(d)
    BY <2>3 DEF Without, Restrict
  <2>5. call \in Calls => callSeq[call] = response.seq /\ callSeq[call] # 0
    BY <2>1, RegisteredCall
  <2>6. call \in Calls => Fresh(call)
    BY <2>1, <2>2, RegisteredCall
  <2>7. call \in Calls => ~Pending(call)'
    BY <2>3, <2>5, WithoutCall
  <2>8. QED
    BY <2>2, <2>4, <2>5, <2>6, <2>7
<1>14. CASE RecvBody
  BY <1>14 DEF RecvBody, RecvDiscard, RecvAnswer, RecvBodyFails, BodyRead
<1>15. CASE RecvFinish
  BY <1>15 DEF RecvFinish
<1>16. CASE TerminateLockRequest
  BY <1>16 DEF TerminateLockRequest
<1>17. CASE TerminateLockEntity
  BY <1>17 DEF TerminateLockEntity
<1>18. ASSUME NEW c \in Calls, TerminateOne(c) PROVE FinishInv'
  BY <1>18 DEF TerminateOne
<1>19. CASE TerminateEnd
  BY <1>19 DEF TerminateEnd
<1>20. CASE PeerStep
  BY <1>20, PeerFrame
<1>21. CASE UNCHANGED vars
  BY <1>21 DEF vars
<1>22. QED
  BY <1>1, <1>2, <1>3, <1>4, <1>5, <1>6, <1>7, <1>8, <1>9, <1>10, <1>11,
      <1>12, <1>13, <1>14, <1>15, <1>16, <1>17, <1>18, <1>19, <1>20, <1>21
  DEF Next, CallerStep, ReceiverStep, Quiescent

\* A call that is being sent or waited for is finished or outstanding.
LEMMA CoveredStep ==
    IInv /\ [Next]_vars => CoveredInv'
<1> SUFFICES ASSUME IInv, [Next]_vars PROVE CoveredInv'
  OBVIOUS
<1> USE DEF IInv, TypeOK, MutexInv, NumberInv, ShutdownInv, FinishInv,
            CoveredInv, Outstanding, Registered, Fresh, Pending, Terminated, Sending
<1>1. ASSUME NEW c \in Calls, StartCall(c) PROVE CoveredInv'
  BY <1>1 DEF StartCall
<1>2. ASSUME NEW c \in Calls, AddCall(c) PROVE CoveredInv'
  BY <1>2 DEF AddCall, NextNumber, IsAvailable, With
<1>3. ASSUME NEW c \in Calls, RejectCall(c) PROVE CoveredInv'
  BY <1>3 DEF RejectCall, IsAvailable
<1>4. ASSUME NEW c \in Calls, Encode(c) PROVE CoveredInv'
  BY <1>4, EncodeEffect DEF EncodeReturns
<1>5. ASSUME NEW c \in Calls, UndoSend(c) PROVE CoveredInv'
  BY <1>5 DEF UndoSend, Registered, Without, Restrict
<1>6. ASSUME NEW c \in Calls, ContextDone(c) PROVE CoveredInv'
  BY <1>6 DEF ContextDone
<1>7. ASSUME NEW c \in Calls, SelectFinish(c) PROVE CoveredInv'
  BY <1>7 DEF SelectFinish
<1>8. ASSUME NEW c \in Calls, SelectDone(c) PROVE CoveredInv'
  BY <1>8 DEF SelectDone
<1>9. ASSUME NEW c \in Calls, CancelCall(c) PROVE CoveredInv'
  BY <1>9 DEF CancelCall, Without, Restrict
<1>10. CASE Close
  BY <1>10 DEF Close
<1>11. CASE RecvHeader
  BY <1>11 DEF RecvHeader
<1>12. CASE RecvHeaderFails
  BY <1>12 DEF RecvHeaderFails
<1>13. CASE RecvLookup
  BY <1>13 DEF RecvLookup, Registered, Without, Restrict
<1>14. CASE RecvBody
  BY <1>14 DEF RecvBody, RecvDiscard, RecvAnswer, RecvBodyFails, BodyRead
<1>15. CASE RecvFinish
  BY <1>15 DEF RecvFinish
<1>16. CASE TerminateLockRequest
  BY <1>16 DEF TerminateLockRequest
<1>17. CASE TerminateLockEntity
  BY <1>17 DEF TerminateLockEntity
<1>18. ASSUME NEW c \in Calls, TerminateOne(c) PROVE CoveredInv'
  BY <1>18 DEF TerminateOne
<1>19. CASE TerminateEnd
  BY <1>19 DEF TerminateEnd
<1>20. CASE PeerStep
  BY <1>20, PeerFrame
<1>21. CASE UNCHANGED vars
  BY <1>21 DEF vars
<1>22. QED
  BY <1>1, <1>2, <1>3, <1>4, <1>5, <1>6, <1>7, <1>8, <1>9, <1>10, <1>11,
      <1>12, <1>13, <1>14, <1>15, <1>16, <1>17, <1>18, <1>19, <1>20, <1>21
  DEF Next, CallerStep, ReceiverStep, Quiescent

-----------------------------------------------------------------------------
(* The theorems. *)

\* A client that was just created satisfies the invariant.
LEMMA InitIInv == Init => IInv
<1> SUFFICES ASSUME Init PROVE IInv
  OBVIOUS
<1> USE DEF Init, FirstNumber
<1>1. DOMAIN pendingCalls = {}
  OBVIOUS
<1>2. TypeOK
  <2>1. /\ sequenceNumber \in Nat \ {0}
        /\ DOMAIN pendingCalls \subseteq Nat
        /\ \A n \in DOMAIN pendingCalls : pendingCalls[n] \in Calls
    BY <1>1
  <2>2. /\ callSeq \in [Calls -> Nat]
        /\ Error \in [Calls -> BOOLEAN]
        /\ Finish \in [Calls -> 0 .. 1]
        /\ ctxDone \in [Calls -> BOOLEAN]
    OBVIOUS
  <2>3. QED
    BY <2>1, <2>2 DEF TypeOK
<1>3. MutexInv /\ ShutdownInv
  BY DEF MutexInv, ShutdownInv, Sending, Terminated
<1>4. NumberInv
  BY <1>1 DEF NumberInv
<1>5. FinishInv /\ CoveredInv
  BY <1>1 DEF FinishInv, CoveredInv, Fresh, Pending
<1>6. QED
  BY <1>2, <1>3, <1>4, <1>5 DEF IInv

\* Every step of a caller, the receiver, a user or the server preserves it.
LEMMA NextIInv == IInv /\ [Next]_vars => IInv'
  BY TypeStep, MutexStep, NumberStep, ShutdownStep, FinishStep, CoveredStep
  DEF IInv

\* IInv holds in every reachable state.
THEOREM Invariance == Spec => []IInv
  BY InitIInv, NextIInv, PTL DEF Spec

\* Type correctness: in particular a call in the map never has number 0, and
\* a Finish channel never holds more than the one value it has room for.
THEOREM TypeCorrect == Spec => []TypeOK
<1>1. IInv => TypeOK
  BY DEF IInv
<1>2. QED
  BY <1>1, Invariance, PTL

\* finishCall never blocks and never delivers a second result: for any number
\* of callers, any replies, and any moment of a hang-up or Close.
THEOREM FinishedOnce == Spec => []FinishedAtMostOnce
<1>1. IInv => FinishedAtMostOnce
  <2> SUFFICES ASSUME IInv, NEW c \in Calls, AboutToFinish(c)
               PROVE  Fresh(c)
    BY DEF FinishedAtMostOnce, Fresh
  <2> USE DEF IInv, FinishInv
  <2>1. CASE pc[c] = "lock"
    BY <2>1
  <2>2. CASE \E d \in Calls : pc[d] = "undo" /\ Registered(callSeq[d]) = c
    <3>1. ~Terminated
      BY <2>2 DEF ShutdownInv, Sending
    <3>2. Pending(c)
      BY <2>2, RegisteredCall
    <3>3. QED
      BY <3>1, <3>2
  <2>3. CASE rpc \in {"body", "finish"} /\ rcvCall = c
    BY <2>3
  <2>4. CASE rpc = "finishAll" /\ c \in toFinish
    BY <2>4
  <2>5. QED
    BY <2>1, <2>2, <2>3, <2>4 DEF AboutToFinish
<1>2. QED
  BY <1>1, Invariance, PTL

\* No caller waits for a result nobody is going to deliver.
THEOREM NobodyLeftBehind == Spec => []NoCallerLeftBehind
<1>1. IInv => NoCallerLeftBehind
  BY DEF IInv, CoveredInv, NoCallerLeftBehind
<1>2. QED
  BY <1>1, Invariance, PTL

\* Once Call has returned nil or the call's error, nobody writes into the
\* caller's output any more: only DecodeMessageBody writes there, and only for a
\* call the receiver has taken out of the map and has not finished yet.
THEOREM OutputOwned == Spec => OutputSettled
<1>1. IInv /\ [Next]_vars =>
        [\A c \in Calls :
           Output'[c] # Output[c] => result[c] \in {"none", "timeout"}]_vars
  <2> SUFFICES ASSUME IInv, Next, NEW c \in Calls, Output'[c] # Output[c]
               PROVE  result[c] \in {"none", "timeout"}
    OBVIOUS
  <2>1. CASE RecvAnswer
    BY <2>1 DEF RecvAnswer, IInv, TypeOK, FinishInv, Fresh
  <2>2. CASE ~RecvAnswer
    <3>1. ASSUME NEW d \in Calls, StartCall(d) \/ ContextDone(d) \/ CallerStep(d)
          PROVE  Output' = Output
      <4>1. CASE Encode(d)
        BY <4>1, EncodeEffect DEF EncodeReturns, IInv
      <4>2. QED
        BY <3>1, <4>1 DEF StartCall, ContextDone, CallerStep, AddCall,
            RejectCall, UndoSend, SelectFinish, SelectDone, CancelCall
    <3>2. CASE ReceiverStep
      BY <2>2, <3>2 DEF ReceiverStep, RecvHeader, RecvHeaderFails, RecvLookup,
          RecvBody, RecvDiscard, RecvBodyFails, RecvFinish,
          TerminateLockRequest, TerminateLockEntity, TerminateOne, TerminateEnd
    <3>3. CASE PeerStep
      BY <3>3, PeerFrame DEF IInv
    <3>4. QED
      BY <3>1, <3>2, <3>3 DEF Next, Close, Quiescent, vars
  <2>3. QED
    BY <2>1, <2>2
<1>2. QED
  BY <1>1, Invariance, PTL DEF Spec, OutputSettled
=============================================================================
