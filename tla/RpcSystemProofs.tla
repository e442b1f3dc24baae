-------------------------- MODULE RpcSystemProofs ---------------------------
(***************************************************************************)
(* The server is a peer as RpcClient assumes it, for any calls, any        *)
(* capacities, with and without a ProcessingTimeout, and whatever its      *)
(* handshake swallows: every step of the composed system is a step of      *)
(* RpcClient with its abstract peer, or none of it.  SystemInv says what   *)
(* the two ends know of each other: the numbers that travel are the        *)
(* client's, each given once and among those the server keeps handlers     *)
(* for, and a reply that is being written is the one its writer means to   *)
(* send.                                                                   *)
(***************************************************************************)
EXTENDS RpcSystem, JsonStreamProofs, FiniteSetTheorems

Headers == [type : {"header"}, seq : Nat,
            method : {"", "found", "noService", "noMethod"}, error : BOOLEAN]
Bodies  == [type : {"body"}, data : SUBSET Calls, shape : {"object", "scalar"}]

\* What the client sends: headers of requests, and objects.
RequestValues == {h \in Headers : ~h.error} \cup {b \in Bodies : b.shape = "object"}

\* What may arrive, once the handshake's decoder has read ahead.
WireValues == RequestValues \cup {Fragment}

\* The types that the streams and the sequence numbers need.
StreamInv ==
    /\ c2s \in Seq(WireValues) /\ s2c \in Seq(Headers \cup Bodies)
    /\ buffer = << >>
    /\ sequenceNumber \in Nat \ {0} /\ callSeq \in [Calls -> Nat]
    /\ pc \in [Calls -> {"idle", "lock", "encode", "undo", "wait", "cancel",
                         "returned"}]

\* A value that the handshake has cut is the first that serveCoder reads, and it
\* reads nothing after it.
CutInv ==
    c2s \notin Seq(RequestValues) =>
        /\ reader \in {"header", "drain", "closed"}
        /\ \E s \in Seq(RequestValues) : c2s = <<Fragment>> \o s

\* requestMutex is held by whoever sends, and by terminateCalls.
MutexInv ==
    /\ \A c \in Calls : pc[c] \in {"encode", "undo"} => requestMutex = c
    /\ rpc \in {"lockEntity", "finishAll"} => requestMutex = Receiver

Numbered == {c \in Calls : callSeq[c] # 0}

\* Each number is given once, and only to a call that was made.
CountInv ==
    /\ sequenceNumber = Cardinality(Numbered) + 1
    /\ \A c \in Calls : pc[c] \in {"idle", "lock"} => callSeq[c] = 0
    /\ \A c \in Calls : pc[c] = "encode" => callSeq[c] \in 1 .. (sequenceNumber - 1)

\* The request with number n has been sent and its handler not been started.
InTransit(n) == Occurs(c2s, n) \/ (reader = "body" /\ header.seq = n)

\* It has been sent.
Sent(n) == InTransit(n) \/ (n \in Requests /\ waiter[n] # "none")

\* A number that was sent was given, is nobody's who is still to send, and is
\* in one place: once on the connection, with the reader, or with a handler.
FreshInv ==
    /\ \A n \in Nat : Sent(n) => n \in 1 .. (sequenceNumber - 1)
    /\ \A c \in Calls : pc[c] = "encode" => ~Sent(callSeq[c])
    /\ \A n \in Nat : Once(c2s, n)
    /\ reader = "body" => ~Occurs(c2s, header.seq)
    /\ \A r \in Requests : InTransit(r) => waiter[r] = "none"

\* The reader: closed at its end, and its header as the client sent it.
ReaderInv ==
    /\ header \in Headers /\ ~header.error
    /\ closed => reader = "closed"
    /\ crashed => closed
    /\ reader = "body" => header.method = "found"

\* The handlers, and what is in the encoder's buffer.
HandlerInv ==
    /\ input \in [Requests -> SUBSET Calls]
    /\ failed \in [Requests -> BOOLEAN]
    /\ worker \in [Requests -> S!WorkerStates]
    /\ waiter \in [Requests -> S!WaiterStates]
    /\ \A r \in Requests : worker[r] \in {"send", "sending"} => waiter[r] = "response"
    /\ \A r \in Requests : waiter[r] \in {"send", "sending"} => failed[r]

SendInv ==
    /\ sendMutex = S!Nobody => serverBuffer = << >>
    /\ reader = "refusing" =>
         /\ sendMutex = S!Reader
         /\ serverBuffer = <<Header(header.seq, header.method, TRUE)>>
    /\ \A r \in Requests : worker[r] = "sending" =>
         /\ sendMutex = S!Worker(r)
         /\ serverBuffer = <<Header(r, "found", failed[r])>>
    /\ \A r \in Requests : waiter[r] = "sending" =>
         /\ sendMutex = S!Waiter(r)
         /\ serverBuffer = <<Header(r, "found", TRUE)>>

SystemInv ==
    /\ StreamInv
    /\ CutInv
    /\ MutexInv
    /\ CountInv
    /\ FreshInv
    /\ ReaderInv
    /\ HandlerInv
    /\ SendInv

-----------------------------------------------------------------------------
USE SystemAssumption
    DEF clientVars, serverVars,
        C!clientVars, C!coderVars, C!recordVars, C!callerVars, C!receiverVars,
        C!peerVars

(* The client's steps. *)

\* Nothing that the server could notice: no number is given and nothing sent.
Quiet ==
    /\ UNCHANGED <<c2s, callSeq, sequenceNumber>>
    /\ \A c \in Calls :
         /\ pc'[c] = "encode" => pc[c] = "encode"
         /\ pc'[c] \in {"idle", "lock"} => pc[c] \in {"idle", "lock"}

\* A goroutine in Call() that neither gets a number nor sends.
LEMMA CallerQuiet ==
    ASSUME StreamInv, MutexInv, NEW c \in Calls,
           \/ C!StartCall(c) \/ C!RejectCall(c) \/ C!UndoSend(c)
           \/ C!EncodeAfterFailure(c) \/ C!EncodeFails(c) \/ C!EncodeIntoTheVoid(c)
           \/ C!ContextDone(c) \/ C!SelectFinish(c) \/ C!SelectDone(c) \/ C!CancelCall(c)
    PROVE  Quiet /\ StreamInv' /\ MutexInv'
<1> USE DEF StreamInv, MutexInv, Quiet
<1>1. CASE C!StartCall(c) \/ C!RejectCall(c)
  BY <1>1 DEF C!StartCall, C!RejectCall
<1>2. CASE C!UndoSend(c)
  BY <1>2 DEF C!UndoSend
<1>3. CASE C!EncodeAfterFailure(c)
  BY <1>3 DEF C!EncodeAfterFailure, C!EncodeReturns
<1>4. CASE C!EncodeFails(c)
  BY <1>4 DEF C!EncodeFails
<1>5. CASE C!EncodeIntoTheVoid(c)
  BY <1>5 DEF C!EncodeIntoTheVoid, C!EncodeReturns
<1>6. CASE C!ContextDone(c)
  BY <1>6 DEF C!ContextDone
<1>7. CASE C!SelectFinish(c) \/ C!SelectDone(c) \/ C!CancelCall(c)
  BY <1>7 DEF C!SelectFinish, C!SelectDone, C!CancelCall
<1>8. QED
  BY <1>1, <1>2, <1>3, <1>4, <1>5, <1>6, <1>7

\* The receiver reads, and ends with the mutexes released.
LEMMA ReceiverQuiet ==
    ASSUME StreamInv, MutexInv, C!ReceiverStep
    PROVE  Quiet /\ StreamInv' /\ MutexInv'
<1> DEFINE V == Headers \cup Bodies
<1>1. s2c # << >> => Tail(s2c) \in Seq(V)
  BY DEF StreamInv
<1> HIDE DEF V
<1> USE DEF StreamInv, MutexInv, Quiet
<1>2. CASE C!RecvHeader
  BY <1>1, <1>2 DEF C!RecvHeader, V
<1>3. CASE C!RecvHeaderFails
  BY <1>3 DEF C!RecvHeaderFails
<1>4. CASE C!RecvLookup
  BY <1>4 DEF C!RecvLookup
<1>5. CASE C!RecvDiscard \/ C!RecvAnswer
  BY <1>1, <1>5 DEF C!RecvDiscard, C!RecvAnswer, C!BodyRead, V
<1>6. CASE C!RecvBodyFails
  BY <1>6 DEF C!RecvBodyFails, C!BodyRead
<1>7. CASE C!RecvFinish
  BY <1>7 DEF C!RecvFinish
<1>8. CASE C!TerminateLockRequest
  BY <1>8 DEF C!TerminateLockRequest
<1>9. CASE C!TerminateLockEntity \/ \E c \in Calls : C!TerminateOne(c)
  BY <1>9 DEF C!TerminateLockEntity, C!TerminateOne
<1>10. CASE C!TerminateEnd
  BY <1>10 DEF C!TerminateEnd
<1>11. QED
  BY <1>2, <1>3, <1>4, <1>5, <1>6, <1>7, <1>8, <1>9, <1>10
  DEF C!ReceiverStep, C!RecvBody

\* Close is not seen by the server before it next reads.
LEMMA CloseQuiet ==
    ASSUME StreamInv, MutexInv, C!Close
    PROVE  Quiet /\ StreamInv' /\ MutexInv'
  BY DEF StreamInv, MutexInv, Quiet, C!Close

\* A number that was given is one the server has a handler for.
LEMMA NumbersGiven ==
    ASSUME StreamInv, CountInv
    PROVE  /\ Cardinality(Calls) \in Nat
           /\ \A n \in 1 .. (sequenceNumber - 1) : n \in Requests
<1>1. IsFiniteSet(Numbered) /\ Cardinality(Numbered) <= Cardinality(Calls)
  BY FS_Subset DEF Numbered
<1>2. Cardinality(Numbered) \in Nat /\ Cardinality(Calls) \in Nat
  BY <1>1, FS_CardinalityType
<1>3. QED
  BY <1>1, <1>2 DEF CountInv, StreamInv, Requests

\* What happens at the client alone disturbs neither the numbers nor the server.
LEMMA QuietStep ==
    ASSUME SystemInv, UNCHANGED serverVars, Quiet, StreamInv', MutexInv'
    PROVE  SystemInv'
<1>1. CountInv'
  <2>1. Numbered' = Numbered
    BY DEF Numbered, Quiet
  <2>2. QED
    BY <2>1 DEF SystemInv, CountInv, Quiet
<1>2. FreshInv'
  <2>1. \A n : (InTransit(n)' <=> InTransit(n)) /\ (Sent(n)' <=> Sent(n))
    BY DEF InTransit, Sent, Quiet, Requests
  <2>2. QED
    BY <2>1 DEF SystemInv, FreshInv, Quiet, Requests
<1>3. ReaderInv' /\ HandlerInv' /\ SendInv'
  BY DEF SystemInv, ReaderInv, HandlerInv, SendInv, Requests, S!WorkerStates,
         S!WaiterStates, S!Nobody, S!Reader, S!Worker, S!Waiter
<1>4. CutInv'
  BY DEF SystemInv, CutInv, Quiet
<1>5. QED
  BY <1>1, <1>2, <1>3, <1>4 DEF SystemInv

\* addCall: the next number has never been on the connection.
LEMMA AddCallStep ==
    ASSUME SystemInv, UNCHANGED serverVars, NEW c \in Calls, C!AddCall(c)
    PROVE  SystemInv'
<1>1. StreamInv /\ MutexInv /\ CountInv /\ FreshInv
  BY DEF SystemInv
<1>2. /\ pc[c] = "lock" /\ requestMutex = None /\ requestMutex' = c
      /\ callSeq' = [callSeq EXCEPT ![c] = sequenceNumber]
      /\ sequenceNumber' = sequenceNumber + 1
      /\ pc' = [pc EXCEPT ![c] = "encode"]
      /\ UNCHANGED <<buffer, rpc, c2s, s2c>>
  BY DEF C!AddCall, C!NextNumber
<1>3. \A d \in Calls : d # c => pc'[d] # "encode" /\ pc'[d] # "undo"
  BY <1>1, <1>2 DEF StreamInv, MutexInv
<1>4. StreamInv'
  BY <1>1, <1>2 DEF StreamInv
<1>5. MutexInv'
  BY <1>1, <1>2, <1>3 DEF MutexInv, StreamInv
<1>6. CountInv'
  <2>1. Numbered' = Numbered \cup {c} /\ c \notin Numbered
    BY <1>1, <1>2 DEF Numbered, CountInv, StreamInv
  <2>2. IsFiniteSet(Numbered) /\ Cardinality(Numbered) \in Nat
    BY FS_Subset, FS_CardinalityType DEF Numbered
  <2>3. Cardinality(Numbered') = Cardinality(Numbered) + 1
    BY <2>1, <2>2, FS_AddElement
  <2>4. sequenceNumber' = Cardinality(Numbered') + 1
    BY <1>1, <1>2, <2>2, <2>3 DEF CountInv
  <2>5. \A d \in Calls : pc'[d] \in {"idle", "lock"} => callSeq'[d] = 0
    BY <1>1, <1>2 DEF CountInv, StreamInv
  <2>6. \A d \in Calls : pc'[d] = "encode" => callSeq'[d] \in 1 .. (sequenceNumber' - 1)
    BY <1>1, <1>2, <1>3 DEF StreamInv
  <2>7. QED
    BY <2>4, <2>5, <2>6 DEF CountInv
<1>7. FreshInv'
  <2>1. \A n : (InTransit(n)' <=> InTransit(n)) /\ (Sent(n)' <=> Sent(n))
    BY <1>2 DEF InTransit, Sent, Requests
  <2>2. \A n \in Nat : Sent(n)' => n \in 1 .. (sequenceNumber' - 1)
    BY <1>1, <1>2, <2>1 DEF FreshInv, StreamInv
  <2>3. callSeq'[c] = sequenceNumber /\ ~Sent(sequenceNumber)
    BY <1>1, <1>2 DEF FreshInv, StreamInv
  <2>4. \A d \in Calls : (pc[d] = "encode" => ~Sent(callSeq[d]))'
    BY <1>2, <1>3, <2>3 DEF Sent, InTransit, Requests
  <2>5. QED
    BY <1>1, <1>2, <2>1, <2>2, <2>4 DEF FreshInv, Requests
<1>8. ReaderInv' /\ HandlerInv' /\ SendInv'
  BY DEF SystemInv, ReaderInv, HandlerInv, SendInv, Requests, S!WorkerStates,
         S!WaiterStates, S!Nobody, S!Reader, S!Worker, S!Waiter
<1>9. CutInv'
  BY <1>2 DEF SystemInv, CutInv
<1>10. QED
  BY <1>4, <1>5, <1>6, <1>7, <1>8, <1>9 DEF SystemInv

\* What a flush puts on the connection.
LEMMA FlushEffect ==
    ASSUME StreamInv, NEW c \in Calls, C!EncodeAndFlush(c)
    PROVE  \E h, b \in RequestValues :
             /\ \E m \in Methods : h = Header(callSeq[c], m, FALSE)
             /\ b = Body({c}, "object")
             /\ c2s' = c2s \o <<h, b>>
<1>1. PICK m \in Methods :
        c2s' = c2s \o buffer \o <<C!RequestHeader(c, m), C!Body({c}, "object")>>
  BY DEF C!EncodeAndFlush
<1> DEFINE h == Header(callSeq[c], m, FALSE)
           b == Body({c}, "object")
<1>2. C!RequestHeader(c, m) = h /\ C!Body({c}, "object") = b
  BY DEF C!RequestHeader, C!Header, C!Body, Header, Body
<1>3. h \in RequestValues /\ b \in RequestValues
  <2>1. callSeq[c] \in Nat /\ m \in {"found", "noService", "noMethod"}
    BY DEF StreamInv
  <2>2. QED
    BY <2>1 DEF RequestValues, Headers, Bodies, Header, Body
<1>4. c2s \o buffer = c2s
  BY DEF StreamInv
<1> HIDE DEF h, b
<1>5. c2s' = c2s \o <<h, b>>
  BY <1>1, <1>2, <1>4
<1>6. (\E l \in Methods : h = Header(callSeq[c], l, FALSE)) /\ b = Body({c}, "object")
  BY DEF h, b
<1>7. QED
  BY <1>3, <1>5, <1>6

\* The flush: its number is on the connection now, and was nowhere before.
LEMMA FlushStep ==
    ASSUME SystemInv, UNCHANGED serverVars, NEW c \in Calls, C!EncodeAndFlush(c)
    PROVE  SystemInv'
<1> DEFINE k == callSeq[c]
<1>1. StreamInv /\ CutInv /\ MutexInv /\ CountInv /\ FreshInv
  BY DEF SystemInv
<1>2. PICK h \in RequestValues, b \in RequestValues :
        /\ \E m \in Methods : h = Header(k, m, FALSE)
        /\ b = Body({c}, "object")
        /\ c2s' = c2s \o <<h, b>>
  BY <1>1, FlushEffect
<1>3. /\ pc[c] = "encode" /\ buffer' = << >> /\ requestMutex' = None
      /\ pc' = [pc EXCEPT ![c] = "wait"]
      /\ UNCHANGED <<sequenceNumber, callSeq, rpc, s2c>>
  BY DEF C!EncodeAndFlush, C!EncodeReturns
<1>4. requestMutex = c /\ \A d \in Calls : pc'[d] # "encode" /\ pc'[d] # "undo"
  BY <1>1, <1>3 DEF MutexInv, StreamInv
<1>5. /\ <<h, b>> \in Seq(RequestValues) /\ <<h, b>> \in Seq(WireValues)
      /\ c2s \in Seq(WireValues) /\ c2s' \in Seq(WireValues)
  <2>1. h \in WireValues /\ b \in WireValues
    BY DEF WireValues
  <2>2. <<h, b>> \in Seq(RequestValues) /\ <<h, b>> \in Seq(WireValues)
    BY <2>1, OccursPair
  <2>3. c2s \in Seq(WireValues) /\ c2s' = c2s \o <<h, b>>
    BY <1>1, <1>2 DEF StreamInv
  <2>4. QED
    BY <2>2, <2>3, ConcatProperties
<1>6. StreamInv'
  BY <1>1, <1>3, <1>5 DEF StreamInv
<1>7. MutexInv'
  BY <1>1, <1>3, <1>4 DEF MutexInv
<1>8. CountInv'
  <2>1. Numbered' = Numbered
    BY <1>3 DEF Numbered
  <2>2. QED
    BY <1>1, <1>3, <1>4, <2>1 DEF CountInv, StreamInv
<1>9. FreshInv'
  <2>1. \A n : IsHeader(h, n) <=> n = k
    BY <1>2 DEF IsHeader, Header
  <2>2. \A n : ~IsHeader(b, n)
    BY <1>2 DEF IsHeader, Body
  <2>3. ASSUME NEW n
        PROVE  /\ Occurs(c2s', n) <=> Occurs(c2s, n) \/ n = k
               /\ Once(c2s, n) /\ (n = k => ~Occurs(c2s, n)) => Once(c2s', n)
    <3>1. /\ Occurs(<<h, b>>, n) <=> n = k
          /\ Once(<<h, b>>, n)
      BY <2>1, <2>2, OccursPair
    <3>2. QED
      BY <1>2, <1>5, <3>1, OccursConcat
  <2>4. k \in 1 .. (sequenceNumber - 1) /\ k \in Nat /\ ~Sent(k) /\ k \in Requests
    BY <1>1, <1>3, NumbersGiven DEF CountInv, FreshInv, StreamInv
  <2>5. \A n : InTransit(n)' <=> InTransit(n) \/ n = k
    BY <2>3 DEF InTransit
  <2>6. \A n : Sent(n)' <=> Sent(n) \/ n = k
    BY <2>5 DEF Sent, Requests
  <2>7. \A n \in Nat : Sent(n)' => n \in 1 .. (sequenceNumber' - 1)
    BY <1>1, <1>3, <2>4, <2>6 DEF FreshInv
  <2>8. \A n \in Nat : Once(c2s, n)'
    BY <1>1, <2>3, <2>4 DEF FreshInv, Sent, InTransit
  <2>9. reader' = "body" => ~Occurs(c2s, header.seq)'
    BY <1>1, <2>3, <2>4 DEF FreshInv, Sent, InTransit
  <2>10. \A r \in Requests : InTransit(r)' => waiter'[r] = "none"
    BY <1>1, <2>4, <2>5 DEF FreshInv, Sent
  <2>11. QED
    BY <1>4, <2>7, <2>8, <2>9, <2>10 DEF FreshInv, Requests
<1>10. ReaderInv' /\ HandlerInv' /\ SendInv'
  BY DEF SystemInv, ReaderInv, HandlerInv, SendInv, Requests, S!WorkerStates,
         S!WaiterStates, S!Nobody, S!Reader, S!Worker, S!Waiter
<1>11. CutInv'
  <2>1. reader' = reader /\ c2s' = c2s \o <<h, b>>
    BY <1>2
  <2>2. CASE c2s \in Seq(RequestValues)
    BY <1>5, <2>1, <2>2, ConcatProperties DEF CutInv
  <2>3. CASE c2s \notin Seq(RequestValues)
    <3>1. PICK t \in Seq(RequestValues) : c2s = <<Fragment>> \o t
      BY <1>1, <2>3 DEF CutInv
    <3>2. t \o <<h, b>> \in Seq(RequestValues)
      BY <1>5, ConcatProperties
    <3>3. <<Fragment>> \in Seq(WireValues) /\ t \in Seq(WireValues)
      BY DEF WireValues
    <3>4. c2s' = <<Fragment>> \o (t \o <<h, b>>)
      BY <1>5, <2>1, <3>1, <3>3, ConcatAssociative
    <3>5. QED
      BY <1>1, <2>1, <2>3, <3>2, <3>4 DEF CutInv
  <2>4. QED
    BY <2>2, <2>3
<1>12. QED
  BY <1>6, <1>7, <1>8, <1>9, <1>10, <1>11 DEF SystemInv

-----------------------------------------------------------------------------
(* The server's steps. *)

USE DEF S!clientVars, S!connVars, S!handlerVars, S!sendVars, S!ReaderFrame,
        S!HandlerFrame

\* What the server leaves alone at the client.
LEMMA ClientUntouched ==
    ASSUME SystemInv, UNCHANGED clientVars
    PROVE  MutexInv' /\ CountInv'
  BY DEF SystemInv, MutexInv, CountInv, Numbered

\* Reading the next value of a request.
LEMMA NextValue ==
    ASSUME StreamInv, c2s # << >>
    PROVE  /\ Head(c2s) \in WireValues /\ Tail(c2s) \in Seq(WireValues)
           /\ c2s = <<Head(c2s)>> \o Tail(c2s)
           /\ Head(c2s).type = "header" => Head(c2s) \in Headers /\ ~Head(c2s).error
           /\ Head(c2s) \in RequestValues =>
                S!HeaderDecodes(Head(c2s)) /\ S!BodyDecodes(Head(c2s), "object")
<1>1. /\ Head(c2s) \in WireValues /\ Tail(c2s) \in Seq(WireValues)
  BY DEF StreamInv
<1>2. c2s = <<Head(c2s)>> \o Tail(c2s)
  BY DEF StreamInv
<1>3. ASSUME Head(c2s) \in RequestValues
      PROVE  /\ Head(c2s).type \in {"header", "body"}
             /\ Head(c2s).type = "header" => Head(c2s) \in Headers /\ ~Head(c2s).error
             /\ Head(c2s).type = "body" => Head(c2s).shape = "object"
  BY <1>3 DEF RequestValues, Headers, Bodies
<1>4. Head(c2s).type = "header" => Head(c2s) \in RequestValues
  BY <1>1 DEF WireValues, Fragment
<1>5. QED
  BY <1>1, <1>2, <1>3, <1>4 DEF S!HeaderDecodes, S!BodyDecodes, S!Shape

\* A stream that begins with a value that can be decoded, or is being read in
\* the middle of a request, is whole.
LEMMA Uncut ==
    ASSUME StreamInv, CutInv, c2s # << >>,
           reader \in {"handshake", "body"} \/ S!HeaderDecodes(Head(c2s))
    PROVE  /\ c2s \in Seq(RequestValues) /\ Head(c2s) \in RequestValues
           /\ Tail(c2s) \in Seq(RequestValues)
<1>1. c2s \in Seq(RequestValues)
  <2> SUFFICES ASSUME c2s \notin Seq(RequestValues)
               PROVE  FALSE
    OBVIOUS
  <2>1. PICK t \in Seq(RequestValues) : c2s = <<Fragment>> \o t
    BY DEF CutInv
  <2>2. <<Fragment>> \in Seq(WireValues) /\ t \in Seq(WireValues)
    BY DEF WireValues
  <2>3. Head(c2s) = Fragment
    BY <2>1, <2>2
  <2>4. QED
    BY <2>3 DEF CutInv, S!HeaderDecodes, Fragment
<1>2. QED
  BY <1>1

\* What the handshake leaves of a whole stream, in the words of any instance.
LEMMA LeftByHandshake ==
    ASSUME NEW s \in Seq(RequestValues), NEW k, NEW t \in ReadAhead(s, k)
    PROVE  t \in Seq(RequestValues)
             \/ \E u \in Seq(RequestValues) : t = <<Fragment>> \o u
<1>1. PICK n \in 0 .. Len(s) :
        \/ t = SubSeq(s, n + 1, Len(s))
        \/ n < Len(s) /\ t = <<Fragment>> \o SubSeq(s, n + 2, Len(s))
  BY DEF ReadAhead
<1>2. Len(s) \in Nat
  BY LenProperties
<1>3. CASE t = SubSeq(s, n + 1, Len(s))
  BY <1>3, SuffixElements
<1>4. CASE n < Len(s) /\ t = <<Fragment>> \o SubSeq(s, n + 2, Len(s))
  <2>1. n + 1 \in 0 .. Len(s) /\ (n + 1) + 1 = n + 2
    BY <1>2, <1>4
  <2>2. SubSeq(s, n + 2, Len(s)) \in Seq(RequestValues)
    BY <2>1, SuffixElements
  <2>3. QED
    BY <1>4, <2>2
<1>5. QED
  BY <1>1, <1>3, <1>4

\* The header the reader works on, when it has read the next value as one.
LEMMA HeaderRead ==
    ASSUME StreamInv, c2s # << >>
    PROVE  LET h == S!DecodedHeader(Head(c2s))
           IN  /\ h \in Headers /\ ~h.error
               /\ h.method = "found" => h = Head(c2s)
<1>1. CASE Head(c2s).type = "header"
  BY <1>1, NextValue DEF S!DecodedHeader
<1>2. CASE Head(c2s).type # "header"
  BY <1>2 DEF S!DecodedHeader, S!ZeroHeader, S!Header, Headers
<1>3. QED
  BY <1>1, <1>2

\* Values leave the connection in front.  With body as in "the reader waits for
\* the body" the number it read stays in transit.
LEMMA ReadFresh ==
    ASSUME SystemInv, UNCHANGED <<sequenceNumber, callSeq, pc, waiter>>,
           c2s # << >>, c2s' = Tail(c2s), reader # "body",
           reader' = "body" => header' = Head(c2s) /\ header'.type = "header"
    PROVE  FreshInv'
<1>1. StreamInv /\ FreshInv
  BY DEF SystemInv
<1>2. \A n : /\ Occurs(c2s', n) => Occurs(c2s, n)
             /\ IsHeader(Head(c2s), n) => Occurs(c2s, n)
             /\ Once(c2s, n) => Once(c2s', n)
             /\ Once(c2s, n) /\ IsHeader(Head(c2s), n) => ~Occurs(c2s', n)
  BY <1>1, OccursTail DEF StreamInv
<1>3. reader' = "body" => IsHeader(Head(c2s), header'.seq)
  BY DEF IsHeader
<1>4. \A n : (InTransit(n)' => InTransit(n)) /\ (Sent(n)' => Sent(n))
  BY <1>2, <1>3 DEF InTransit, Sent, Requests
<1>5. reader' = "body" => header'.seq \in Nat
  BY <1>1, NextValue DEF Headers
<1>6. \A n \in Nat : Once(c2s', n)
  BY <1>1, <1>2 DEF FreshInv
<1>7. reader' = "body" => ~Occurs(c2s', header'.seq)
  BY <1>1, <1>2, <1>3, <1>5 DEF FreshInv
<1>8. \A c \in Calls : (pc[c] = "encode" => ~Sent(callSeq[c]))'
  BY <1>1, <1>4 DEF FreshInv
<1>9. QED
  BY <1>1, <1>4, <1>6, <1>7, <1>8 DEF FreshInv, Requests

\* The reader, until it has a whole request.
LEMMA ReaderSteps ==
    ASSUME SystemInv, UNCHANGED clientVars,
           \/ S!Handshake \/ S!HandshakeRejects \/ S!ReadHeader \/ S!ReadPanics
           \/ S!ReadHeaderFails \/ S!ReadBodyFails \/ S!Drain
    PROVE  SystemInv'
<1>1. StreamInv /\ CutInv /\ FreshInv /\ ReaderInv /\ HandlerInv /\ SendInv
  BY DEF SystemInv
<1>2. /\ UNCHANGED <<worker, waiter, input, failed, sendMutex, serverBuffer, s2c>>
      /\ reader # "refusing" /\ reader' # "refusing" /\ reader # "closed"
  BY DEF S!Handshake, S!HandshakeRejects, S!ReadHeader, S!ReadPanics,
         S!ReadHeaderFails, S!ReadBodyFails, S!Drain
<1>3. HandlerInv' /\ SendInv'
  BY <1>1, <1>2 DEF HandlerInv, SendInv, Requests, S!WorkerStates,
         S!WaiterStates, S!Nobody, S!Reader, S!Worker, S!Waiter
<1>4. CASE /\ UNCHANGED <<c2s, header, crashed>> /\ reader' # "body"
           /\ closed' => reader' = "closed"
           /\ \/ c2s \in Seq(RequestValues)
              \/ reader' \in {"header", "drain", "closed"}
  <2>1. \A n : (InTransit(n)' => InTransit(n)) /\ (Sent(n)' => Sent(n))
    BY <1>2, <1>4 DEF InTransit, Sent, Requests
  <2>2. \A c \in Calls : (pc[c] = "encode" => ~Sent(callSeq[c]))'
    BY <1>1, <2>1 DEF FreshInv
  <2>3. FreshInv'
    BY <1>1, <1>2, <1>4, <2>1, <2>2 DEF FreshInv, Requests
  <2>4. StreamInv' /\ ReaderInv' /\ CutInv'
    BY <1>1, <1>2, <1>4 DEF StreamInv, ReaderInv, CutInv
  <2>5. QED
    BY <1>3, <2>3, <2>4, ClientUntouched DEF SystemInv
<1>5. CASE S!Handshake
  <2>1. /\ reader = "handshake" /\ reader' = "header"
        /\ c2s' \in ReadAhead(c2s, Overread)
        /\ UNCHANGED <<header, closed, crashed>>
    BY <1>5 DEF S!Handshake, S!ReadAhead, ReadAhead, S!Fragment, Fragment
  <2>2. c2s \in Seq(RequestValues)
    BY <1>1, <2>1 DEF CutInv
  <2>3. CutInv'
    BY <2>1, <2>2, LeftByHandshake DEF CutInv
  <2>4. c2s \in Seq(WireValues) /\ Fragment \in WireValues
    BY <1>1 DEF StreamInv, WireValues
  <2>5. ASSUME NEW n
        PROVE  /\ c2s' \in Seq(WireValues)
               /\ Occurs(c2s', n) => Occurs(c2s, n)
               /\ Once(c2s, n) => Once(c2s', n)
    BY <2>1, <2>4, OccursReadAhead
  <2>6. StreamInv' /\ ReaderInv'
    BY <1>1, <1>2, <2>1, <2>5 DEF StreamInv, ReaderInv
  <2>7. \A n : (InTransit(n)' => InTransit(n)) /\ (Sent(n)' => Sent(n))
    BY <1>2, <2>1, <2>5 DEF InTransit, Sent, Requests
  <2>8. \A c \in Calls : (pc[c] = "encode" => ~Sent(callSeq[c]))'
    BY <1>1, <2>7 DEF FreshInv
  <2>9. \A n \in Nat : Once(c2s', n)
    BY <1>1, <2>5 DEF FreshInv
  <2>10. FreshInv'
    BY <1>1, <1>2, <2>1, <2>7, <2>8, <2>9 DEF FreshInv, Requests
  <2>11. QED
    BY <1>3, <2>3, <2>6, <2>10, ClientUntouched DEF SystemInv
<1>6. CASE S!HandshakeRejects \/ S!ReadHeaderFails \/ S!Drain
  BY <1>1, <1>4, <1>6 DEF S!HandshakeRejects, S!ReadHeaderFails, S!Drain, ReaderInv
<1>7. CASE S!ReadBodyFails
  <2>1. reader = "body" /\ c2s \in Seq(RequestValues)
    BY <1>1, <1>7 DEF S!ReadBodyFails, CutInv
  <2>2. UNCHANGED c2s
    BY <1>1, <1>7, <2>1, NextValue, Uncut DEF S!ReadBodyFails
  <2>3. QED
    BY <1>1, <1>4, <1>7, <2>1, <2>2 DEF S!ReadBodyFails, ReaderInv
<1>8. CASE S!ReadHeader \/ S!ReadPanics
  <2>1. /\ c2s # << >> /\ c2s' = Tail(c2s) /\ reader = "header"
        /\ S!HeaderDecodes(Head(c2s))
        /\ header' = S!DecodedHeader(Head(c2s))
        /\ reader' = "body" => header'.method = "found"
        /\ closed' => reader' = "closed" \/ closed
        /\ crashed' => closed' \/ crashed
    BY <1>8 DEF S!ReadHeader, S!ReadPanics
  <2>2. /\ header' \in Headers /\ ~header'.error
        /\ reader' = "body" => header' = Head(c2s)
    BY <1>1, <2>1, HeaderRead
  <2>3. FreshInv'
    <3>1. header'.type = "header"
      BY <2>2 DEF Headers
    <3>2. QED
      BY <1>2, <2>1, <2>2, <3>1, ReadFresh
  <2>4. StreamInv'
    BY <1>1, <1>2, <2>1, NextValue DEF StreamInv
  <2>5. ~closed /\ ~crashed
    BY <1>1, <1>2 DEF ReaderInv
  <2>6. ReaderInv'
    BY <2>1, <2>2, <2>5 DEF ReaderInv
  <2>7. CutInv'
    BY <1>1, <2>1, Uncut DEF CutInv
  <2>8. QED
    BY <1>3, <2>3, <2>4, <2>6, <2>7, ClientUntouched DEF SystemInv
<1>9. QED
  BY <1>5, <1>6, <1>7, <1>8

\* The request that the reader has, when its body comes: it has no handler yet.
LEMMA BodyExpected ==
    ASSUME SystemInv, reader = "body"
    PROVE  /\ header = Header(header.seq, "found", FALSE)
           /\ header.seq \in Requests /\ waiter[header.seq] = "none"
           /\ ~closed /\ ~crashed
<1>1. StreamInv /\ CountInv /\ FreshInv /\ ReaderInv
  BY DEF SystemInv
<1>2. header \in Headers /\ ~header.error /\ header.method = "found"
  BY <1>1 DEF ReaderInv
<1>3. header = Header(header.seq, "found", FALSE) /\ header.seq \in Nat
  BY <1>2 DEF Headers, Header
<1>4. InTransit(header.seq)
  BY DEF InTransit
<1>5. header.seq \in Requests
  BY <1>1, <1>3, <1>4, NumbersGiven DEF FreshInv, Sent
<1>6. QED
  BY <1>1, <1>3, <1>4, <1>5 DEF FreshInv, ReaderInv

\* A whole request: its handler starts.
LEMMA ReadBodyStep ==
    ASSUME SystemInv, UNCHANGED clientVars, S!ReadBody
    PROVE  SystemInv'
<1> DEFINE k == header.seq
<1>1. StreamInv /\ CutInv /\ FreshInv /\ ReaderInv /\ HandlerInv /\ SendInv
  BY DEF SystemInv
<1>2. /\ reader = "body" /\ c2s # << >> /\ c2s' = Tail(c2s) /\ reader' = "header"
      /\ input' = [input EXCEPT ![k] = S!DecodedBody(Head(c2s))]
      /\ worker' = [worker EXCEPT ![k] = "calling"]
      /\ waiter' = [waiter EXCEPT ![k] = "select"]
      /\ UNCHANGED <<header, failed, sendMutex, serverBuffer, s2c, closed, crashed>>
  BY DEF S!ReadBody
<1>3. k \in Requests /\ waiter[k] = "none" /\ ~closed /\ ~crashed
  BY <1>2, BodyExpected
<1>4. S!DecodedBody(Head(c2s)) \in SUBSET Calls
  <2>1. Head(c2s) \in RequestValues
    BY <1>1, <1>2, Uncut
  <2>2. QED
    BY <2>1 DEF S!DecodedBody, S!ZeroData, RequestValues, Headers, Bodies
<1>5. HandlerInv'
  BY <1>1, <1>2, <1>3, <1>4 DEF HandlerInv, Requests, S!WorkerStates, S!WaiterStates
<1>6. SendInv'
  BY <1>1, <1>2, <1>3 DEF SendInv, HandlerInv, Requests, S!Nobody, S!Reader,
         S!Worker, S!Waiter
<1>7. StreamInv' /\ ReaderInv'
  BY <1>1, <1>2, <1>3, NextValue DEF StreamInv, ReaderInv
<1>8. FreshInv'
  <2>1. \A n : /\ Occurs(c2s', n) => Occurs(c2s, n)
               /\ Once(c2s, n) => Once(c2s', n)
    BY <1>1, <1>2, OccursTail DEF StreamInv
  <2>2. \A n : InTransit(n)' => Occurs(c2s, n) /\ InTransit(n)
    BY <1>2, <2>1 DEF InTransit
  <2>3. \A n : Sent(n)' => Sent(n)
    BY <1>1, <1>2, <1>3, <2>2 DEF Sent, InTransit, HandlerInv, Requests
  <2>4. \A c \in Calls : (pc[c] = "encode" => ~Sent(callSeq[c]))'
    BY <1>1, <2>3 DEF FreshInv
  <2>5. \A r \in Requests : InTransit(r)' => waiter'[r] = "none"
    BY <1>1, <1>2, <1>3, <2>2 DEF FreshInv, HandlerInv
  <2>6. \A n \in Nat : Once(c2s', n)
    BY <1>1, <2>1 DEF FreshInv
  <2>7. QED
    BY <1>1, <1>2, <2>3, <2>4, <2>5, <2>6 DEF FreshInv, Requests
<1>9. CutInv'
  BY <1>1, <1>2, Uncut DEF CutInv
<1>10. QED
  BY <1>5, <1>6, <1>7, <1>8, <1>9, ClientUntouched DEF SystemInv

\* Replies leave the numbers alone.
LEMMA RepliesQuiet ==
    ASSUME SystemInv, UNCHANGED clientVars, UNCHANGED <<c2s, header, closed, crashed>>,
           reader' = reader
             \/ (reader \in {"refuse", "refusing"} /\ reader' \in {"refusing", "header"}),
           \A r \in Requests : waiter'[r] = "none" => waiter[r] = "none",
           \A r \in Requests : waiter[r] = "none" => waiter'[r] = "none",
           s2c' \in Seq(Headers \cup Bodies), HandlerInv', SendInv'
    PROVE  SystemInv'
<1>1. StreamInv /\ FreshInv /\ ReaderInv
  BY DEF SystemInv
<1>2. \A n : (InTransit(n)' <=> InTransit(n)) /\ (Sent(n)' <=> Sent(n))
  BY DEF InTransit, Sent, Requests
<1>3. \A c \in Calls : (pc[c] = "encode" => ~Sent(callSeq[c]))'
  BY <1>1, <1>2 DEF FreshInv
<1>4. FreshInv'
  BY <1>1, <1>2, <1>3 DEF FreshInv, Requests
<1>5. StreamInv' /\ ReaderInv' /\ CutInv'
  BY <1>1 DEF SystemInv, StreamInv, ReaderInv, CutInv
<1>6. QED
  BY <1>4, <1>5, ClientUntouched DEF SystemInv

\* A flush of one reply, to a client that is there or not.
LEMMA ReplyFlushed ==
    ASSUME StreamInv, NEW h \in Headers, NEW b \in Bodies, serverBuffer = <<h>>,
           S!EncodeBody(b)
    PROVE  /\ sendMutex' = S!Nobody /\ serverBuffer' = << >>
           /\ s2c' = IF ~isClosed /\ ~closed THEN s2c \o <<h, b>> ELSE s2c
           /\ s2c' \in Seq(Headers \cup Bodies)
<1> DEFINE V == Headers \cup Bodies
<1>1. h \in V /\ b \in V
  OBVIOUS
<1>2. s2c \in Seq(V)
  BY DEF StreamInv
<1> HIDE DEF V
<1>3. Append(serverBuffer, b) = <<h, b>> /\ <<h, b>> \in Seq(V)
  BY <1>1, HeaderAndBody, OccursPair
<1>4. /\ sendMutex' = S!Nobody /\ serverBuffer' = << >>
      /\ s2c' = IF ~isClosed /\ ~closed THEN s2c \o <<h, b>> ELSE s2c
  BY <1>3 DEF S!EncodeBody, S!Flush
<1>5. s2c' \in Seq(V)
  BY <1>2, <1>3, <1>4, ConcatProperties
<1>6. QED
  BY <1>4, <1>5 DEF V

\* The bodies and headers that are written.
LEMMA ReplyValues ==
    /\ S!InvalidRequest = InvalidRequest /\ InvalidRequest \in Bodies
    /\ \A d \in SUBSET Calls : S!Body(d, "scalar") = Body(d, "scalar")
                                 /\ Body(d, "scalar") \in Bodies
    /\ \A n \in Nat, m \in {"", "found", "noService", "noMethod"}, e \in BOOLEAN :
         S!Header(n, m, e) = Header(n, m, e) /\ Header(n, m, e) \in Headers
  BY DEF S!InvalidRequest, InvalidRequest, S!ZeroData, ZeroData, S!Body, Body,
         S!Header, Header, Headers, Bodies

\* The reader refuses.
LEMMA RefuseSteps ==
    ASSUME SystemInv, UNCHANGED clientVars, S!RefuseHeader \/ S!RefuseBody
    PROVE  SystemInv'
<1>1. StreamInv /\ ReaderInv /\ HandlerInv /\ SendInv
  BY DEF SystemInv
<1>2. header \in Headers /\ header.seq \in Nat
      /\ header.method \in {"", "found", "noService", "noMethod"}
  BY <1>1 DEF ReaderInv, Headers
<1>3. HandlerInv'
  BY <1>1 DEF S!RefuseHeader, S!RefuseBody, HandlerInv, Requests, S!WorkerStates,
              S!WaiterStates
<1>4. CASE S!RefuseHeader
  <2>1. /\ reader = "refuse" /\ reader' = "refusing"
        /\ sendMutex = S!Nobody /\ sendMutex' = S!Reader
        /\ serverBuffer' = Append(serverBuffer, Header(header.seq, header.method, TRUE))
        /\ UNCHANGED <<c2s, s2c, header, worker, waiter, failed, closed, crashed>>
    BY <1>2, <1>4, ReplyValues DEF S!RefuseHeader, S!EncodeHeader
  <2>2. serverBuffer' = <<Header(header.seq, header.method, TRUE)>>
    <3> DEFINE h == Header(header.seq, header.method, TRUE)
    <3>1. serverBuffer' = Append(<< >>, h)
      BY <1>1, <2>1 DEF SendInv
    <3> HIDE DEF h
    <3>2. serverBuffer' = <<h>>
      BY <3>1
    <3>3. QED
      BY <3>2 DEF h
  <2>3. \A r \in Requests : worker[r] # "sending" /\ waiter[r] # "sending"
    BY <1>1, <2>1 DEF SendInv, S!Nobody, S!Worker, S!Waiter
  <2>4. SendInv'
    BY <2>1, <2>2, <2>3 DEF SendInv, S!Nobody, S!Reader, Requests
  <2>5. QED
    BY <1>1, <1>3, <2>1, <2>4, RepliesQuiet DEF StreamInv
<1>5. CASE S!RefuseBody
  <2>1. /\ reader = "refusing" /\ reader' = "header"
        /\ S!EncodeBody(InvalidRequest)
        /\ UNCHANGED <<c2s, header, worker, waiter, failed, closed, crashed>>
    BY <1>5, ReplyValues DEF S!RefuseBody
  <2>2. /\ sendMutex = S!Reader
        /\ serverBuffer = <<Header(header.seq, header.method, TRUE)>>
    BY <1>1, <2>1 DEF SendInv
  <2>3. /\ sendMutex' = S!Nobody /\ serverBuffer' = << >>
        /\ s2c' \in Seq(Headers \cup Bodies)
    BY <1>1, <1>2, <2>1, <2>2, ReplyValues, ReplyFlushed
  <2>4. \A r \in Requests : worker[r] # "sending" /\ waiter[r] # "sending"
    BY <1>1, <2>2 DEF SendInv, S!Reader, S!Worker, S!Waiter
  <2>5. SendInv'
    BY <2>1, <2>3, <2>4 DEF SendInv, Requests
  <2>6. QED
    BY <1>3, <2>1, <2>3, <2>5, RepliesQuiet
<1>6. QED
  BY <1>4, <1>5

\* A handler's goroutines meet, or the time limit ends; nothing is written.
LEMMA MeetingSteps ==
    ASSUME SystemInv, UNCHANGED clientVars, NEW r \in Requests,
           S!CallInTime(r) \/ S!ResponseSent(r) \/ S!CallTimesOut(r) \/ S!MethodReturns(r)
    PROVE  SystemInv'
<1>1. StreamInv /\ HandlerInv /\ SendInv
  BY DEF SystemInv
<1> USE <1>1 DEF HandlerInv, S!WorkerStates, S!WaiterStates
<1>2. /\ UNCHANGED <<c2s, s2c, reader, header, closed, crashed, input, sendMutex,
                     serverBuffer>>
      /\ \A q \in Requests :
           /\ worker'[q] = "sending" <=> worker[q] = "sending"
           /\ waiter'[q] = "sending" <=> waiter[q] = "sending"
           /\ waiter'[q] = "none" <=> waiter[q] = "none"
           /\ worker[q] = "sending" => failed'[q] = failed[q]
      /\ HandlerInv'
  <2>1. CASE S!CallInTime(r)
    BY <2>1 DEF S!CallInTime, Requests
  <2>2. CASE S!ResponseSent(r)
    BY <2>2 DEF S!ResponseSent, Requests
  <2>3. CASE S!CallTimesOut(r)
    BY <2>3 DEF S!CallTimesOut, Requests
  <2>4. CASE S!MethodReturns(r)
    BY <2>4 DEF S!MethodReturns, Requests
  <2>5. QED
    BY <2>1, <2>2, <2>3, <2>4
<1>3. SendInv'
  BY <1>2 DEF SendInv, S!Nobody, S!Reader, S!Worker, S!Waiter, Requests
<1>4. QED
  BY <1>2, <1>3, RepliesQuiet DEF StreamInv

\* A handler's header, by its worker or by its waiter after a timeout.
LEMMA HeaderSteps ==
    ASSUME SystemInv, UNCHANGED clientVars, NEW r \in Requests,
           S!WorkerSendsHeader(r) \/ S!WaiterSendsHeader(r)
    PROVE  SystemInv'
<1> DEFINE h == Header(r, "found", failed[r])
<1>1. StreamInv /\ HandlerInv /\ SendInv
  BY DEF SystemInv
<1>2. r \in Nat /\ failed[r] \in BOOLEAN
  BY <1>1 DEF HandlerInv, Requests
<1>3. S!ReplyHeader(r) = h
  BY <1>2, ReplyValues DEF S!ReplyHeader, S!Method
<1>4. /\ sendMutex = S!Nobody /\ serverBuffer' = Append(serverBuffer, h)
      /\ UNCHANGED <<c2s, s2c, reader, header, closed, crashed, input, failed>>
  BY <1>3 DEF S!WorkerSendsHeader, S!WaiterSendsHeader, S!EncodeHeader
<1>5. serverBuffer' = <<h>>
  <2>1. serverBuffer' = Append(<< >>, h)
    BY <1>1, <1>4 DEF SendInv
  <2> HIDE DEF h
  <2>2. QED
    BY <2>1
<1>6. /\ reader # "refusing"
      /\ \A q \in Requests : worker[q] # "sending" /\ waiter[q] # "sending"
  BY <1>1, <1>4 DEF SendInv, S!Nobody, S!Reader, S!Worker, S!Waiter
<1>7. CASE S!WorkerSendsHeader(r)
  <2>1. /\ worker[r] = "send" /\ worker' = [worker EXCEPT ![r] = "sending"]
        /\ sendMutex' = S!Worker(r) /\ UNCHANGED waiter
    BY <1>7 DEF S!WorkerSendsHeader, S!EncodeHeader
  <2>2. HandlerInv'
    BY <1>1, <1>4, <2>1 DEF HandlerInv, S!WorkerStates, S!WaiterStates, Requests
  <2>3. SendInv'
    BY <1>1, <1>4, <1>5, <1>6, <2>1
    DEF SendInv, HandlerInv, S!Nobody, S!Reader, S!Worker, S!Waiter, Requests
  <2>4. QED
    BY <1>1, <1>4, <2>1, <2>2, <2>3, RepliesQuiet DEF StreamInv
<1>8. CASE S!WaiterSendsHeader(r)
  <2>1. /\ waiter[r] = "send" /\ waiter' = [waiter EXCEPT ![r] = "sending"]
        /\ sendMutex' = S!Waiter(r) /\ UNCHANGED worker
    BY <1>8 DEF S!WaiterSendsHeader, S!EncodeHeader
  <2>2. HandlerInv' /\ failed[r] = TRUE
    BY <1>1, <1>4, <2>1 DEF HandlerInv, S!WorkerStates, S!WaiterStates, Requests
  <2>3. SendInv'
    BY <1>1, <1>4, <1>5, <1>6, <2>1, <2>2
    DEF SendInv, HandlerInv, S!Nobody, S!Reader, S!Worker, S!Waiter, Requests
  <2>4. \A q \in Requests : waiter'[q] = "none" <=> waiter[q] = "none"
    BY <1>1, <2>1 DEF HandlerInv
  <2>5. QED
    BY <1>1, <1>4, <2>2, <2>3, <2>4, RepliesQuiet DEF StreamInv
<1>9. QED
  BY <1>7, <1>8

\* What a handler flushes: the whole reply to its own request.
LEMMA BodyEffect ==
    ASSUME SystemInv, NEW r \in Requests,
           S!WorkerSendsBody(r) \/ S!WaiterSendsBody(r)
    PROVE  \E h \in Headers, b \in Bodies :
             /\ h = Header(r, "found", failed[r])
             /\ b = IF failed[r] THEN InvalidRequest ELSE Body(input[r], "scalar")
             /\ sendMutex' = S!Nobody /\ serverBuffer' = << >>
             /\ s2c' = IF ~isClosed /\ ~closed THEN s2c \o <<h, b>> ELSE s2c
             /\ s2c' \in Seq(Headers \cup Bodies)
<1> DEFINE h == Header(r, "found", failed[r])
           b == IF failed[r] THEN InvalidRequest ELSE Body(input[r], "scalar")
<1>1. StreamInv /\ HandlerInv /\ SendInv
  BY DEF SystemInv
<1>2. r \in Nat /\ failed[r] \in BOOLEAN /\ input[r] \in SUBSET Calls
  BY <1>1 DEF HandlerInv, Requests
<1>3. h \in Headers /\ b \in Bodies
  BY <1>2, ReplyValues
<1>4. serverBuffer = <<h>> /\ S!EncodeBody(b)
  <2>1. CASE S!WorkerSendsBody(r)
    <3>1. worker[r] = "sending" /\ S!EncodeBody(S!ReplyBody(r))
      BY <2>1 DEF S!WorkerSendsBody, S!CannotMarshal
    <3>2. S!ReplyBody(r) = b
      BY <1>2, ReplyValues DEF S!ReplyBody
    <3>3. QED
      BY <1>1, <3>1, <3>2 DEF SendInv
  <2>2. CASE S!WaiterSendsBody(r)
    <3>1. waiter[r] = "sending" /\ S!EncodeBody(S!InvalidRequest)
      BY <2>2 DEF S!WaiterSendsBody
    <3>2. failed[r] = TRUE /\ S!InvalidRequest = b
      BY <1>1, <1>2, <3>1, ReplyValues DEF HandlerInv
    <3>3. QED
      BY <1>1, <3>1, <3>2 DEF SendInv
  <2>3. QED
    BY <2>1, <2>2
<1> HIDE DEF h, b
<1>5. /\ sendMutex' = S!Nobody /\ serverBuffer' = << >>
      /\ s2c' = IF ~isClosed /\ ~closed THEN s2c \o <<h, b>> ELSE s2c
      /\ s2c' \in Seq(Headers \cup Bodies)
  BY <1>1, <1>3, <1>4, ReplyFlushed
<1>6. /\ h = Header(r, "found", failed[r])
      /\ b = IF failed[r] THEN InvalidRequest ELSE Body(input[r], "scalar")
  BY DEF h, b
<1>7. QED
  BY <1>3, <1>5, <1>6

\* The body, with its flush.
LEMMA BodySteps ==
    ASSUME SystemInv, UNCHANGED clientVars, NEW r \in Requests,
           S!WorkerSendsBody(r) \/ S!WaiterSendsBody(r)
    PROVE  SystemInv'
<1>1. StreamInv /\ HandlerInv /\ SendInv
  BY DEF SystemInv
<1>2. sendMutex' = S!Nobody /\ serverBuffer' = << >> /\ s2c' \in Seq(Headers \cup Bodies)
  BY BodyEffect
<1>3. UNCHANGED <<c2s, reader, header, closed, crashed, input, failed>>
  BY DEF S!WorkerSendsBody, S!WaiterSendsBody
<1>4. CASE S!WorkerSendsBody(r)
  <2>1. /\ worker[r] = "sending" /\ worker' = [worker EXCEPT ![r] = "sent"]
        /\ UNCHANGED waiter
    BY <1>4 DEF S!WorkerSendsBody
  <2>2. /\ sendMutex = S!Worker(r)
    BY <1>1, <2>1 DEF SendInv
  <2>3. /\ reader # "refusing"
        /\ \A q \in Requests : waiter[q] # "sending" /\ (worker[q] = "sending" => q = r)
    BY <1>1, <2>2 DEF SendInv, S!Reader, S!Worker, S!Waiter
  <2>4. HandlerInv'
    BY <1>1, <1>3, <2>1 DEF HandlerInv, S!WorkerStates, S!WaiterStates, Requests
  <2>5. SendInv'
    BY <1>1, <1>2, <1>3, <2>1, <2>3 DEF SendInv, HandlerInv, Requests
  <2>6. QED
    BY <1>2, <1>3, <2>1, <2>4, <2>5, RepliesQuiet
<1>5. CASE S!WaiterSendsBody(r)
  <2>1. /\ waiter[r] = "sending" /\ waiter' = [waiter EXCEPT ![r] = "returned"]
        /\ UNCHANGED worker
    BY <1>5 DEF S!WaiterSendsBody
  <2>2. /\ sendMutex = S!Waiter(r)
    BY <1>1, <2>1 DEF SendInv
  <2>3. /\ reader # "refusing"
        /\ \A q \in Requests : worker[q] # "sending" /\ (waiter[q] = "sending" => q = r)
    BY <1>1, <2>2 DEF SendInv, S!Reader, S!Worker, S!Waiter
  <2>4. HandlerInv'
    BY <1>1, <1>3, <2>1 DEF HandlerInv, S!WorkerStates, S!WaiterStates, Requests
  <2>5. SendInv'
    BY <1>1, <1>2, <1>3, <2>1, <2>3 DEF SendInv, HandlerInv, Requests
  <2>6. \A q \in Requests : waiter'[q] = "none" <=> waiter[q] = "none"
    BY <1>1, <2>1 DEF HandlerInv
  <2>7. QED
    BY <1>2, <1>3, <2>4, <2>5, <2>6, RepliesQuiet
<1>6. QED
  BY <1>4, <1>5

-----------------------------------------------------------------------------
(* The invariant. *)

\* It holds initially.
LEMMA InitSystem == Init => SystemInv
<1> SUFFICES ASSUME Init
             PROVE  SystemInv
  OBVIOUS
<1> USE DEF Init, C!Init, S!Init
<1>1. StreamInv /\ CutInv /\ MutexInv
  BY DEF StreamInv, CutInv, MutexInv, C!FirstNumber
<1>2. CountInv
  <2>1. Numbered = {}
    BY DEF Numbered
  <2>2. Cardinality(Numbered) = 0
    BY <2>1, FS_EmptySet
  <2>3. QED
    BY <2>2 DEF CountInv, C!FirstNumber
<1>3. ReaderInv
  BY DEF ReaderInv, S!ZeroHeader, S!Header, Headers
<1>4. FreshInv
  <2>1. \A n : ~Occurs(c2s, n) /\ Once(c2s, n)
    BY OccursEmpty
  <2>2. \A n : ~InTransit(n) /\ ~Sent(n)
    BY <2>1 DEF InTransit, Sent
  <2>3. QED
    BY <2>1, <2>2 DEF FreshInv
<1>5. HandlerInv /\ SendInv
  BY DEF HandlerInv, SendInv, S!WorkerStates, S!WaiterStates, S!ZeroData
<1>6. QED
  BY <1>1, <1>2, <1>3, <1>4, <1>5 DEF SystemInv

\* Every step keeps it.
LEMMA NextSystem == SystemInv /\ [Next]_vars => SystemInv'
<1> SUFFICES ASSUME SystemInv, [Next]_vars
             PROVE  SystemInv'
  OBVIOUS
<1>1. StreamInv /\ MutexInv
  BY DEF SystemInv
<1>2. ASSUME NEW c \in Calls, Caller(c)
      PROVE  SystemInv'
  BY <1>1, <1>2, CallerQuiet, QuietStep, AddCallStep, FlushStep
  DEF Caller, C!CallerStep, C!Encode
<1>3. CASE ReceiveCall
  BY <1>1, <1>3, ReceiverQuiet, QuietStep DEF ReceiveCall
<1>4. CASE User
  BY <1>1, <1>4, CallerQuiet, CloseQuiet, QuietStep DEF User
<1>5. CASE ServeConnection
  BY <1>5, ReaderSteps, ReadBodyStep, RefuseSteps DEF ServeConnection, S!ReaderStep
<1>6. ASSUME NEW r \in Requests, Handler(r) \/ TimesOut(r) \/ Returns(r)
      PROVE  SystemInv'
  BY <1>6, MeetingSteps, HeaderSteps, BodySteps
  DEF Handler, TimesOut, Returns, S!HandlerStep
<1>7. CASE UNCHANGED vars
  <2>1. Quiet /\ UNCHANGED serverVars
    BY <1>7 DEF vars, Quiet
  <2>2. StreamInv' /\ MutexInv'
    BY <1>1, <1>7 DEF vars, StreamInv, MutexInv
  <2>3. QED
    BY <2>1, <2>2, QuietStep
<1>8. QED
  BY <1>2, <1>3, <1>4, <1>5, <1>6, <1>7 DEF Next, Quiescent

\* SystemInv holds in every reachable state.
THEOREM SystemInvariance == Spec => []SystemInv
  BY InitSystem, NextSystem, PTL DEF Spec

-----------------------------------------------------------------------------
(* The refinement: the client's steps are the client's. *)

USE DEF P!clientVars, P!coderVars, P!recordVars, P!callerVars, P!receiverVars,
        P!peerVars

\* The peer stays as it is while the server does.
LEMMA PeerUntouched ==
    ASSUME UNCHANGED <<serverVars, c2s>>
    PROVE  UNCHANGED <<OnTheWay, AtServer, ServerUp, Greeted>>
  BY DEF OnTheWay, AtServer, ServerUp, Greeted, Taken, Refused, Unanswered, Requests

\* The steps of a goroutine in Call() but its flush.
LEMMA CallerMaps ==
    ASSUME StreamInv, UNCHANGED serverVars, NEW c \in Calls,
           \/ C!StartCall(c) \/ C!AddCall(c) \/ C!RejectCall(c) \/ C!UndoSend(c)
           \/ C!EncodeAfterFailure(c) \/ C!EncodeFails(c) \/ C!EncodeIntoTheVoid(c)
           \/ C!ContextDone(c) \/ C!SelectFinish(c) \/ C!SelectDone(c) \/ C!CancelCall(c)
    PROVE  P!StartCall(c) \/ P!ContextDone(c) \/ P!CallerStep(c)
<1>1. UNCHANGED <<OnTheWay, AtServer, ServerUp, Greeted>>
  <2>1. UNCHANGED c2s
    BY DEF C!StartCall, C!AddCall, C!RejectCall, C!UndoSend, C!EncodeAfterFailure,
           C!EncodeFails, C!EncodeIntoTheVoid, C!EncodeReturns, C!ContextDone,
           C!SelectFinish, C!SelectDone, C!CancelCall
  <2>2. QED
    BY <2>1, PeerUntouched
<1> USE <1>1
<1>2. CASE C!StartCall(c)
  BY <1>2 DEF C!StartCall, P!StartCall
<1>3. CASE C!AddCall(c)
  <2>1. P!AddCall(c)
    BY <1>3 DEF C!AddCall, P!AddCall, C!IsAvailable, P!IsAvailable, C!NextNumber,
       P!NextNumber, C!With, P!With
  <2>2. QED
    BY <2>1 DEF P!CallerStep
<1>4. CASE C!RejectCall(c)
  <2>1. P!RejectCall(c)
    BY <1>4 DEF C!RejectCall, P!RejectCall, C!IsAvailable, P!IsAvailable
  <2>2. QED
    BY <2>1 DEF P!CallerStep
<1>5. CASE C!UndoSend(c)
  <2>1. P!UndoSend(c)
    BY <1>5 DEF C!UndoSend, P!UndoSend, C!Registered, P!Registered, C!Without,
       P!Without, C!Restrict, P!Restrict
  <2>2. QED
    BY <2>1 DEF P!CallerStep
<1>6. CASE C!EncodeAfterFailure(c)
  <2>1. P!EncodeAfterFailure(c)
    BY <1>6 DEF C!EncodeAfterFailure, P!EncodeAfterFailure, C!EncodeReturns,
       P!EncodeReturns
  <2>2. QED
    BY <2>1 DEF P!CallerStep, P!Encode
<1>7. CASE C!EncodeFails(c)
  BY <1>7 DEF C!EncodeFails
<1>8. CASE C!EncodeIntoTheVoid(c)
  <2>1. P!EncodeIntoTheVoid(c)
    BY <1>8 DEF C!EncodeIntoTheVoid, P!EncodeIntoTheVoid, C!EncodeReturns,
       P!EncodeReturns, C!ConnectionDown, P!ConnectionDown
  <2>2. QED
    BY <2>1 DEF P!CallerStep, P!Encode
<1>9. CASE C!ContextDone(c)
  BY <1>9 DEF C!ContextDone, P!ContextDone
<1>10. CASE C!SelectFinish(c) \/ C!SelectDone(c)
  <2>1. P!SelectFinish(c) \/ P!SelectDone(c)
    BY <1>10 DEF C!SelectFinish, P!SelectFinish, C!SelectDone, P!SelectDone
  <2>2. QED
    BY <2>1 DEF P!CallerStep
<1>11. CASE C!CancelCall(c)
  <2>1. P!CancelCall(c)
    BY <1>11 DEF C!CancelCall, P!CancelCall, C!Without, P!Without, C!Restrict,
       P!Restrict
  <2>2. QED
    BY <2>1 DEF P!CallerStep
<1>12. QED
  BY <1>2, <1>3, <1>4, <1>5, <1>6, <1>7, <1>8, <1>9, <1>10, <1>11

\* The receiver's steps.
LEMMA ReceiverMaps ==
    ASSUME UNCHANGED serverVars, C!ReceiverStep
    PROVE  P!ReceiverStep
<1>1. UNCHANGED <<OnTheWay, AtServer, ServerUp, Greeted>>
  <2>1. UNCHANGED c2s
    BY DEF C!ReceiverStep, C!RecvHeader, C!RecvHeaderFails, C!RecvLookup, C!RecvBody,
           C!RecvDiscard, C!RecvAnswer, C!RecvBodyFails, C!BodyRead, C!RecvFinish,
           C!TerminateLockRequest, C!TerminateLockEntity, C!TerminateOne,
           C!TerminateEnd
  <2>2. QED
    BY <2>1, PeerUntouched
<1> USE <1>1
<1>2. CASE C!RecvHeader
  <2>1. P!RecvHeader
    BY <1>2 DEF C!RecvHeader, P!RecvHeader, C!HeaderDecodes, P!HeaderDecodes,
       C!DecodedHeader, P!DecodedHeader, C!Shape, P!Shape, C!ZeroHeader,
       P!ZeroHeader, C!Header, P!Header
  <2>2. QED
    BY <2>1 DEF P!ReceiverStep
<1>3. CASE C!RecvHeaderFails
  <2>1. P!RecvHeaderFails
    BY <1>3 DEF C!RecvHeaderFails, P!RecvHeaderFails, C!HeaderDecodes,
       P!HeaderDecodes, C!Shape, P!Shape, C!ConnectionDown, P!ConnectionDown
  <2>2. QED
    BY <2>1 DEF P!ReceiverStep
<1>4. CASE C!RecvLookup
  <2>1. P!RecvLookup
    BY <1>4 DEF C!RecvLookup, P!RecvLookup, C!Registered, P!Registered, C!Without,
       P!Without, C!Restrict, P!Restrict
  <2>2. QED
    BY <2>1 DEF P!ReceiverStep
<1>5. CASE C!RecvDiscard
  <2>1. P!RecvDiscard
    BY <1>5 DEF C!RecvDiscard, P!RecvDiscard, C!BodyRead, P!BodyRead
  <2>2. QED
    BY <2>1 DEF P!ReceiverStep, P!RecvBody
<1>6. CASE C!RecvAnswer
  <2>1. P!RecvAnswer
    BY <1>6 DEF C!RecvAnswer, P!RecvAnswer, C!BodyRead, P!BodyRead, C!BodyDecodes,
       P!BodyDecodes, C!Shape, P!Shape, C!DecodedBody, P!DecodedBody, C!ZeroData,
       P!ZeroData
  <2>2. QED
    BY <2>1 DEF P!ReceiverStep, P!RecvBody
<1>7. CASE C!RecvBodyFails
  <2>1. P!RecvBodyFails
    BY <1>7 DEF C!RecvBodyFails, P!RecvBodyFails, C!BodyRead, P!BodyRead,
       C!ConnectionDown, P!ConnectionDown
  <2>2. QED
    BY <2>1 DEF P!ReceiverStep, P!RecvBody
<1>8. CASE C!RecvFinish
  <2>1. P!RecvFinish
    BY <1>8 DEF C!RecvFinish, P!RecvFinish
  <2>2. QED
    BY <2>1 DEF P!ReceiverStep
<1>9. CASE C!TerminateLockRequest \/ C!TerminateLockEntity
  <2>1. P!TerminateLockRequest \/ P!TerminateLockEntity
    BY <1>9 DEF C!TerminateLockRequest, P!TerminateLockRequest,
       C!TerminateLockEntity, P!TerminateLockEntity
  <2>2. QED
    BY <2>1 DEF P!ReceiverStep
<1>10. ASSUME NEW c \in Calls, C!TerminateOne(c)
       PROVE  P!ReceiverStep
  <2>1. P!TerminateOne(c)
    BY <1>10 DEF C!TerminateOne, P!TerminateOne
  <2>2. QED
    BY <2>1 DEF P!ReceiverStep
<1>11. CASE C!TerminateEnd
  <2>1. P!TerminateEnd
    BY <1>11 DEF C!TerminateEnd, P!TerminateEnd
  <2>2. QED
    BY <2>1 DEF P!ReceiverStep
<1>12. QED
  BY <1>2, <1>3, <1>4, <1>5, <1>6, <1>7, <1>8, <1>9, <1>10, <1>11
  DEF C!ReceiverStep, C!RecvBody

\* Client.Close.
LEMMA CloseMaps ==
    ASSUME UNCHANGED serverVars, C!Close
    PROVE  P!Close
<1>1. UNCHANGED <<OnTheWay, AtServer, ServerUp, Greeted>>
  BY PeerUntouched DEF C!Close
<1>2. QED
  BY <1>1 DEF C!Close, P!Close

\* The flush appends behind what is on its way.
LEMMA FlushMaps ==
    ASSUME SystemInv, UNCHANGED serverVars, NEW c \in Calls, C!EncodeAndFlush(c)
    PROVE  P!CallerStep(c)
<1>1. StreamInv /\ ServerUp /\ UNCHANGED <<ServerUp, Greeted>>
  BY DEF SystemInv, C!EncodeAndFlush, C!ConnectionDown, ServerUp, Greeted
<1>2. PICK m \in Methods :
        c2s' = c2s \o buffer \o <<C!RequestHeader(c, m), C!Body({c}, "object")>>
  BY DEF C!EncodeAndFlush
<1> DEFINE h == C!RequestHeader(c, m)
           b == C!Body({c}, "object")
           t == <<h, b>>
<1>3. P!RequestHeader(c, m) = h /\ P!Body({c}, "object") = b
  BY DEF C!RequestHeader, C!Header, C!Body, P!RequestHeader, P!Header, P!Body
<1>4. h \in WireValues /\ b \in WireValues
  <2>1. callSeq[c] \in Nat /\ m \in {"found", "noService", "noMethod"}
    BY <1>1 DEF StreamInv
  <2>2. QED
    BY <2>1 DEF WireValues, RequestValues, Headers, Bodies, C!RequestHeader, C!Header, C!Body
<1> HIDE DEF h, b
<1>5. t \in Seq(WireValues)
  BY <1>4, OccursPair
<1> HIDE DEF t
<1>6. c2s \in Seq(WireValues) /\ buffer = << >> /\ c2s' = c2s \o t
  <2>1. c2s \in Seq(WireValues) /\ buffer = << >>
    BY <1>1 DEF StreamInv
  <2>2. c2s \o buffer = c2s
    BY <2>1
  <2>3. QED
    BY <1>2, <2>1, <2>2 DEF t, h, b
<1>7. /\ OnTheWay \in Seq(Headers \cup WireValues)
      /\ OnTheWay' = OnTheWay \o buffer \o t
      /\ Len(OnTheWay) <= Len(c2s) + 1
  <2> DEFINE W == Headers \cup WireValues
  <2>1. c2s \in Seq(W) /\ t \in Seq(W) /\ header \in W
    BY <1>5, <1>6 DEF SystemInv, ReaderInv
  <2> HIDE DEF W
  <2>2. CASE reader = "body"
    <3>1. OnTheWay = <<header>> \o c2s /\ OnTheWay' = <<header>> \o (c2s \o t)
      BY <1>1, <1>6, <2>2 DEF OnTheWay
    <3>2. <<header>> \in Seq(W) /\ Len(<<header>>) = 1
      BY <2>1
    <3>3. /\ OnTheWay \in Seq(W) /\ Len(OnTheWay) = Len(c2s) + 1
          /\ OnTheWay' = OnTheWay \o t
      BY <2>1, <3>1, <3>2, ConcatProperties, ConcatAssociative
    <3>4. OnTheWay \o buffer = OnTheWay
      BY <1>6, <3>3
    <3>5. Len(c2s) \in Nat
      BY <2>1
    <3>6. QED
      BY <3>3, <3>4, <3>5 DEF W
  <2>3. CASE reader # "body"
    <3>1. OnTheWay = c2s /\ OnTheWay' = c2s \o t
      BY <1>1, <1>6, <2>3 DEF OnTheWay
    <3>2. c2s \o buffer = c2s /\ Len(c2s) \in Nat
      BY <1>6
    <3>3. QED
      BY <2>1, <3>1, <3>2 DEF W
  <2>4. QED
    BY <2>2, <2>3
<1>8. AtServer' = AtServer
  BY DEF AtServer, ServerUp, Taken, Refused, Unanswered, Requests
<1>9. Len(OnTheWay) + Len(buffer) + 2 <= WireCapacity + 1
  <2>1. Len(c2s) + Len(buffer) + 2 <= WireCapacity
    BY DEF C!EncodeAndFlush
  <2>2. Len(c2s) \in Nat /\ Len(OnTheWay) \in Nat /\ Len(buffer) = 0
    BY <1>6, <1>7
  <2>3. QED
    BY <1>7, <2>1, <2>2
<1>10. OnTheWay' = OnTheWay \o buffer \o <<P!RequestHeader(c, m), P!Body({c}, "object")>>
  BY <1>3, <1>7 DEF t
<1>11. P!EncodeAndFlush(c)
  BY <1>1, <1>8, <1>9, <1>10
  DEF C!EncodeAndFlush, P!EncodeAndFlush, C!EncodeReturns, P!EncodeReturns,
      C!ConnectionDown, P!ConnectionDown
<1>12. QED
  BY <1>11 DEF P!CallerStep, P!Encode

-----------------------------------------------------------------------------
(* The server's steps are the peer's, or none. *)

\* The server is there while its reader has not ended.
LEMMA ReaderUp ==
    ASSUME SystemInv, reader # "closed"
    PROVE  ~closed /\ ~crashed /\ ServerUp
  BY DEF SystemInv, ReaderInv, ServerUp

\* Nothing the client could tell.
LEMMA NothingSeen ==
    ASSUME UNCHANGED clientVars, UNCHANGED <<s2c, OnTheWay, AtServer, ServerUp, Greeted>>
    PROVE  UNCHANGED P!vars
  BY DEF P!vars

\* The end of the connection at the server.
LEMMA HangupMaps ==
    ASSUME SystemInv, UNCHANGED clientVars,
           S!HandshakeRejects \/ S!ReadPanics \/ S!Drain
    PROVE  P!PeerStep
<1>1. ServerUp /\ ~ServerUp' /\ ~Greeted' /\ UNCHANGED s2c
  BY ReaderUp DEF S!HandshakeRejects, S!ReadPanics, S!Drain, ServerUp, Greeted
<1>2. OnTheWay' = << >> /\ AtServer' = {}
  BY <1>1 DEF OnTheWay, AtServer
<1>3. P!PeerHangup
  BY <1>1, <1>2 DEF P!PeerHangup
<1>4. QED
  BY <1>3 DEF P!PeerStep

\* What the server holds of request r, with its inputs in f.
Item(f, r) == [header |-> Header(r, "found", FALSE), refused |-> FALSE,
               data |-> f[r]]

\* The requests that were taken, one by one.
LEMMA TakenItems ==
    /\ \A q : q \in Taken <=>
         \E r \in Requests : Unanswered(r) /\ q = Item(input, r)
    /\ \A r, s : \A f, g : Item(f, r) = Item(g, s) => r = s
<1>1. ASSUME NEW r, NEW s, NEW f, NEW g, Item(f, r) = Item(g, s)
      PROVE  r = s
  <2>1. Item(f, r).header = Header(r, "found", FALSE)
        /\ Item(g, s).header = Header(s, "found", FALSE)
    BY DEF Item
  <2>2. Header(r, "found", FALSE).seq = r /\ Header(s, "found", FALSE).seq = s
    BY DEF Header
  <2>3. QED
    BY <1>1, <2>1, <2>2
<1>2. Taken = {Item(input, r) : r \in {q \in Requests : Unanswered(q)}}
  BY DEF Taken, Item
<1>3. QED
  BY <1>1, <1>2

\* A handler starts.
LEMMA TakenGrows ==
    ASSUME HandlerInv, NEW k \in Requests, NEW d, ~Unanswered(k), Unanswered(k)',
           input' = [input EXCEPT ![k] = d],
           \A r \in Requests : r # k => (Unanswered(r)' <=> Unanswered(r))
    PROVE  Taken' = Taken \cup {[header |-> Header(k, "found", FALSE),
                                 refused |-> FALSE, data |-> d]}
<1> DEFINE new == [header |-> Header(k, "found", FALSE), refused |-> FALSE,
                   data |-> d]
<1>1. input'[k] = d /\ \A r \in Requests : r # k => input'[r] = input[r]
  BY DEF HandlerInv
<1>2. Item(input', k) = new /\ \A r \in Requests : r # k =>
        Item(input', r) = Item(input, r)
  BY <1>1 DEF Item
<1>3. \A q : q \in Taken' <=>
        \E r \in Requests : Unanswered(r)' /\ q = Item(input', r)
  <2>1. Taken' = {Item(input', r) : r \in {q \in Requests : Unanswered(q)'}}
    BY DEF Taken, Item, Requests
  <2>2. QED
    BY <2>1
<1> HIDE DEF new
<1>4. ASSUME NEW q
      PROVE  q \in Taken' <=> q \in Taken \/ q = new
  <2>1. CASE q \in Taken'
    <3>1. PICK r \in Requests : Unanswered(r)' /\ q = Item(input', r)
      BY <1>3, <2>1
    <3>2. CASE r = k
      BY <1>2, <2>1, <3>1, <3>2
    <3>3. CASE r # k
      <4>1. Unanswered(r) /\ q = Item(input, r)
        BY <1>2, <3>1, <3>3
      <4>2. QED
        BY <2>1, <4>1, TakenItems
    <3>4. QED
      BY <3>2, <3>3
  <2>2. CASE q \in Taken
    <3>1. PICK r \in Requests : Unanswered(r) /\ q = Item(input, r)
      BY <2>2, TakenItems
    <3>2. r # k
      BY <3>1
    <3>3. Unanswered(r)' /\ q = Item(input', r)
      BY <1>2, <3>1, <3>2
    <3>4. QED
      BY <1>3, <2>2, <3>3
  <2>3. CASE q = new
    BY <1>2, <1>3, <2>3
  <2>4. QED
    BY <2>1, <2>2, <2>3
<1>5. QED
  BY <1>4 DEF new

\* A handler has answered.
LEMMA TakenShrinks ==
    ASSUME NEW k \in Requests, Unanswered(k), ~Unanswered(k)', UNCHANGED input,
           \A r \in Requests : r # k => (Unanswered(r)' <=> Unanswered(r))
    PROVE  Taken' = Taken \ {Item(input, k)} /\ Item(input, k) \in Taken
<1>1. \A q : q \in Taken' <=>
        \E r \in Requests : Unanswered(r)' /\ q = Item(input, r)
  <2>1. Taken' = {Item(input, r) : r \in {q \in Requests : Unanswered(q)'}}
    BY DEF Taken, Item, Requests
  <2>2. QED
    BY <2>1
<1>2. \A q : q \in Taken' <=> q \in Taken /\ q # Item(input, k)
  BY <1>1, TakenItems
<1>3. QED
  BY <1>2, TakenItems

\* A reader at its next header refuses nobody.
LEMMA NotRefusing ==
    ASSUME SystemInv, reader \in {"header", "body"}
    PROVE  AtServer = Taken /\ ~P!Refusing
<1>1. AtServer = Taken
  BY ReaderUp DEF AtServer, Refused
<1>2. ASSUME NEW q \in Taken
      PROVE  q.refused = FALSE
  <2>1. PICK r \in Requests : q = Item(input, r)
    BY TakenItems
  <2>2. QED
    BY <2>1 DEF Item
<1>3. QED
  BY <1>1, <1>2 DEF P!Refusing

\* What is refused now, with what was taken before.
LEMMA RefusalStarts ==
    ASSUME SystemInv, UNCHANGED <<worker, waiter, input, closed, crashed>>,
           reader \in {"header", "body"}, reader' = "refuse"
    PROVE  AtServer' = AtServer \cup
             {[header |-> header', refused |-> TRUE, data |-> P!ZeroData]}
<1>1. ServerUp /\ ServerUp'
  BY ReaderUp DEF ServerUp
<1>2. AtServer = Taken
  BY NotRefusing
<1>3. Taken' = Taken
  BY DEF Taken, Unanswered, Requests
<1>4. Refused' = {[header |-> header', refused |-> TRUE, data |-> P!ZeroData]}
  BY DEF Refused, ZeroData, P!ZeroData
<1>5. QED
  BY <1>1, <1>2, <1>3, <1>4 DEF AtServer

\* A header is read: of a known method it stays on its way until its body
\* comes, any other is refused.
LEMMA ReadHeaderMaps ==
    ASSUME SystemInv, UNCHANGED clientVars, S!ReadHeader
    PROVE  P!PeerStep \/ UNCHANGED P!vars
<1>1. /\ reader = "header" /\ c2s # << >> /\ c2s' = Tail(c2s)
      /\ S!HeaderDecodes(Head(c2s))
      /\ header' = S!DecodedHeader(Head(c2s))
      /\ header'.method \notin {"noMethod", "valueOutput"}
      /\ reader' = IF header'.method = "found" THEN "body" ELSE "refuse"
      /\ UNCHANGED <<s2c, worker, waiter, input, closed, crashed>>
  BY DEF S!ReadHeader, S!Panicking
<1>2. StreamInv /\ ServerUp /\ Greeted /\ UNCHANGED <<ServerUp, Greeted>>
  BY <1>1, ReaderUp DEF SystemInv, ServerUp, Greeted
<1>3. OnTheWay = c2s
  BY <1>1, <1>2 DEF OnTheWay
<1>4. CASE header'.method = "found"
  <2>1. header' = Head(c2s)
    BY <1>1, <1>2, <1>4, HeaderRead
  <2>2. OnTheWay' = <<Head(c2s)>> \o Tail(c2s)
    BY <1>1, <1>2, <1>4, <2>1 DEF OnTheWay
  <2>3. OnTheWay' = OnTheWay
    BY <1>1, <1>2, <1>3, <2>2, NextValue
  <2>4. AtServer' = AtServer
    BY <1>1, <1>2, <1>4 DEF AtServer, Taken, Refused, Unanswered, Requests
  <2>5. QED
    BY <1>1, <1>2, <2>3, <2>4, NothingSeen
<1>5. CASE header'.method # "found"
  <2>1. OnTheWay' = Tail(OnTheWay)
    BY <1>1, <1>2, <1>3, <1>5 DEF OnTheWay
  <2>2. header' = P!DecodedHeader(Head(OnTheWay))
    BY <1>1, <1>3 DEF S!DecodedHeader, P!DecodedHeader, S!ZeroHeader,
       P!ZeroHeader, S!Header, P!Header
  <2>3. AtServer' = AtServer \cup
          {[header |-> header', refused |-> TRUE, data |-> P!ZeroData]}
    BY <1>1, <1>5, RefusalStarts
  <2>4. ~P!Refusing
    BY <1>1, NotRefusing
  <2>5. P!HeaderDecodes(Head(OnTheWay))
    BY <1>1, <1>3 DEF S!HeaderDecodes, P!HeaderDecodes, S!Shape, P!Shape
  <2>6. P!PeerRefuse
    BY <1>1, <1>2, <1>3, <1>5, <2>1, <2>2, <2>3, <2>4, <2>5 DEF P!PeerRefuse
  <2>7. QED
    BY <2>6 DEF P!PeerStep
<1>6. QED
  BY <1>4, <1>5

\* A body that does not come any more: the request is refused.
LEMMA ReadBodyFailsMaps ==
    ASSUME SystemInv, UNCHANGED clientVars, S!ReadBodyFails
    PROVE  P!PeerStep
<1>1. /\ reader = "body" /\ reader' = "refuse" /\ isClosed /\ c2s' = c2s
      /\ UNCHANGED <<header, s2c, worker, waiter, input, closed, crashed>>
  BY NextValue, Uncut DEF S!ReadBodyFails, SystemInv
<1>2. StreamInv /\ ServerUp /\ Greeted /\ UNCHANGED <<ServerUp, Greeted>>
  BY <1>1, ReaderUp DEF SystemInv, ServerUp, Greeted
<1>3. OnTheWay = <<header>> \o c2s /\ OnTheWay' = c2s
  BY <1>1, <1>2 DEF OnTheWay
<1>4. OnTheWay # << >> /\ Head(OnTheWay) = header /\ Tail(OnTheWay) = c2s
  <2> DEFINE W == Headers \cup WireValues
  <2>1. header \in W /\ c2s \in Seq(W)
    BY <1>2 DEF SystemInv, ReaderInv, StreamInv
  <2> HIDE DEF W
  <2>2. QED
    BY <1>3, <2>1
<1>5. P!DecodedHeader(Head(OnTheWay)) = header /\ P!HeaderDecodes(Head(OnTheWay))
  BY <1>1, <1>4, BodyExpected DEF P!DecodedHeader, P!HeaderDecodes, P!Shape, Header
<1>6. AtServer' = AtServer \cup
        {[header |-> header', refused |-> TRUE, data |-> P!ZeroData]}
  BY <1>1, RefusalStarts
<1>7. ~P!Refusing
  BY <1>1, NotRefusing
<1>8. P!PeerRefuse
  BY <1>1, <1>2, <1>3, <1>4, <1>5, <1>6, <1>7 DEF P!PeerRefuse
<1>9. QED
  BY <1>8 DEF P!PeerStep

\* A whole request is taken: both values leave the connection at once.
LEMMA ReadBodyMaps ==
    ASSUME SystemInv, UNCHANGED clientVars, S!ReadBody
    PROVE  P!PeerStep
<1> DEFINE k == header.seq
           d == S!DecodedBody(Head(c2s))
           new == [header |-> header, refused |-> FALSE, data |-> d]
<1>1. /\ reader = "body" /\ c2s # << >> /\ c2s' = Tail(c2s) /\ reader' = "header"
      /\ input' = [input EXCEPT ![k] = d]
      /\ worker' = [worker EXCEPT ![k] = "calling"]
      /\ waiter' = [waiter EXCEPT ![k] = "select"]
      /\ UNCHANGED <<header, s2c, closed, crashed>>
  BY DEF S!ReadBody
<1>2. /\ StreamInv /\ HandlerInv /\ ServerUp /\ ServerUp'
      /\ Greeted /\ UNCHANGED Greeted
  BY <1>1, ReaderUp DEF SystemInv, ServerUp, Greeted
<1>3. header = Header(k, "found", FALSE) /\ k \in Requests /\ waiter[k] = "none"
  BY <1>1, BodyExpected
<1>4. OnTheWay = <<header>> \o c2s /\ OnTheWay' = Tail(c2s)
  BY <1>1, <1>2 DEF OnTheWay
<1>5. /\ Len(OnTheWay) >= 2 /\ OnTheWay[1] = header /\ OnTheWay[2] = Head(c2s)
      /\ Tail(Tail(OnTheWay)) = Tail(c2s)
  <2> DEFINE W == Headers \cup WireValues
  <2>1. header \in W /\ c2s \in Seq(W)
    BY <1>2 DEF SystemInv, ReaderInv, StreamInv
  <2> HIDE DEF W
  <2>2. Tail(OnTheWay) = c2s
    BY <1>4, <2>1
  <2>3. QED
    BY <1>1, <1>4, <2>1, <2>2
<1>6. P!DecodedHeader(OnTheWay[1]).method = "found" /\ P!DecodedBody(OnTheWay[2]) = d
  BY <1>3, <1>5 DEF P!DecodedHeader, Header, P!DecodedBody, S!DecodedBody,
     P!ZeroData, S!ZeroData
<1>7. AtServer' = AtServer \cup {new}
  <2>1. AtServer = Taken /\ AtServer' = Taken'
    BY <1>1, <1>2, NotRefusing DEF AtServer, Refused
  <2>2. PICK n \in Requests : n = k
    BY <1>3
  <2>3. \A r \in Requests : r # n => (Unanswered(r)' <=> Unanswered(r))
    BY <1>1, <1>2, <2>2 DEF Unanswered, HandlerInv
  <2>4. Unanswered(n)' /\ ~Unanswered(n) /\ input' = [input EXCEPT ![n] = d]
    BY <1>1, <1>2, <1>3, <2>2 DEF Unanswered, HandlerInv
  <2>5. PICK e : e = d
    OBVIOUS
  <2>6. Taken' = Taken \cup {[header |-> Header(n, "found", FALSE),
                              refused |-> FALSE, data |-> e]}
    BY <1>2, <2>3, <2>4, <2>5, TakenGrows
  <2>7. QED
    BY <1>3, <2>1, <2>2, <2>5, <2>6
<1>8. P!PeerTake
  BY <1>1, <1>2, <1>4, <1>5, <1>6, <1>7, NotRefusing DEF P!PeerTake
<1>9. QED
  BY <1>8 DEF P!PeerStep

\* The handshake, with what it loses.
LEMMA HandshakeMaps ==
    ASSUME SystemInv, UNCHANGED clientVars, S!Handshake
    PROVE  P!PeerStep
<1>1. /\ reader = "handshake" /\ reader' = "header"
      /\ c2s' \in S!ReadAhead(c2s, Overread)
      /\ UNCHANGED <<s2c, header, worker, waiter, input, closed, crashed>>
  BY DEF S!Handshake
<1>2. ServerUp /\ ServerUp' /\ ~Greeted /\ Greeted'
  BY <1>1, ReaderUp DEF ServerUp, Greeted
<1>3. OnTheWay = c2s /\ OnTheWay' = c2s'
  BY <1>1, <1>2 DEF OnTheWay
<1>4. AtServer' = AtServer
  BY <1>1, <1>2 DEF AtServer, Taken, Refused, Unanswered, Requests
<1>5. P!ReadAhead(c2s, Overread) = S!ReadAhead(c2s, Overread)
  BY DEF P!ReadAhead, S!ReadAhead, P!Fragment, S!Fragment
<1>6. P!PeerHandshake
  BY <1>1, <1>2, <1>3, <1>4, <1>5 DEF P!PeerHandshake
<1>7. QED
  BY <1>6 DEF P!PeerStep

\* The rest of the reader's steps before a reply: nothing that shows.
LEMMA ReaderHidden ==
    ASSUME SystemInv, UNCHANGED clientVars, S!ReadHeaderFails \/ S!RefuseHeader
    PROVE  UNCHANGED P!vars
<1>1. /\ UNCHANGED <<c2s, s2c, header, worker, waiter, input, closed, crashed>>
      /\ reader \in {"header", "refuse"}
      /\ reader' = IF reader = "header" THEN "drain" ELSE "refusing"
  BY DEF S!ReadHeaderFails, S!RefuseHeader, S!EncodeHeader
<1>2. UNCHANGED <<OnTheWay, AtServer, ServerUp, Greeted>>
  BY <1>1 DEF OnTheWay, AtServer, ServerUp, Greeted, Taken, Refused, Unanswered,
     Requests
<1>3. QED
  BY <1>1, <1>2, NothingSeen

\* What the peer sends is what was flushed.
LEMMA SentByPeer ==
    ASSUME SystemInv, ~closed, NEW h \in Headers, NEW b \in Bodies,
           s2c' = IF ~isClosed /\ ~closed THEN s2c \o <<h, b>> ELSE s2c
    PROVE  P!PeerSends(<<h, b>>)
<1>1. s2c \in Seq(Headers \cup Bodies)
  BY DEF SystemInv, StreamInv
<1>2. s2c \o << >> = s2c
  BY <1>1
<1>3. QED
  BY <1>2 DEF P!PeerSends

\* The refusal is flushed, before the reader reads on.
LEMMA RefuseBodyMaps ==
    ASSUME SystemInv, UNCHANGED clientVars, S!RefuseBody
    PROVE  P!PeerStep
<1>1. /\ reader = "refusing" /\ reader' = "header" /\ S!EncodeBody(InvalidRequest)
      /\ UNCHANGED <<c2s, header, worker, waiter, input, closed, crashed>>
  BY ReplyValues DEF S!RefuseBody
<1>2. StreamInv /\ ReaderInv /\ ServerUp /\ UNCHANGED <<ServerUp, Greeted>> /\ ~closed
  BY <1>1, ReaderUp DEF SystemInv, ServerUp, Greeted
<1>3. header \in Headers /\ header.seq \in Nat
      /\ header.method \in {"", "found", "noService", "noMethod"}
  BY <1>2 DEF ReaderInv, Headers
<1>4. PICK h \in Headers : h = Header(header.seq, header.method, TRUE)
  BY <1>3, ReplyValues
<1>5. PICK b \in Bodies : b = InvalidRequest
  BY ReplyValues
<1>6. serverBuffer = <<h>>
  BY <1>1, <1>4 DEF SystemInv, SendInv
<1>7. s2c' = IF ~isClosed /\ ~closed THEN s2c \o <<h, b>> ELSE s2c
  BY <1>1, <1>2, <1>5, <1>6, ReplyFlushed
<1>8. P!PeerSends(<<h, b>>)
  BY <1>2, <1>7, SentByPeer
<1> DEFINE request == [header |-> header, refused |-> TRUE, data |-> ZeroData]
<1>9. P!ErrorReply(request.header) = <<h, b>>
  BY <1>4, <1>5 DEF P!ErrorReply, P!Header, Header, P!InvalidRequest, P!Body,
     P!ZeroData, InvalidRequest, Body, ZeroData
<1>10. OnTheWay' = OnTheWay
  BY <1>1, <1>2 DEF OnTheWay
<1>11. AtServer = Taken \cup {request} /\ AtServer' = Taken
  BY <1>1, <1>2 DEF AtServer, Taken, Refused, Unanswered, Requests
<1>12. request \notin Taken
  <2>1. ASSUME NEW r \in Requests
        PROVE  request # Item(input, r)
    BY DEF Item
  <2>2. QED
    BY <2>1, TakenItems
<1> HIDE DEF request
<1>13. AtServer' = AtServer \ {request} /\ request \in AtServer
  BY <1>11, <1>12
<1>14. P!PeerReply(request)
  BY <1>2, <1>8, <1>9, <1>10, <1>13 DEF P!PeerReply
<1>15. QED
  BY <1>13, <1>14 DEF P!PeerStep

\* What the handlers do among themselves.
LEMMA HandlerHidden ==
    ASSUME SystemInv, UNCHANGED clientVars, NEW r \in Requests,
           \/ S!CallInTime(r) \/ S!ResponseSent(r) \/ S!CallTimesOut(r)
           \/ S!MethodReturns(r) \/ S!WorkerSendsHeader(r) \/ S!WaiterSendsHeader(r)
    PROVE  UNCHANGED P!vars
<1>1. HandlerInv
  BY DEF SystemInv
<1>2. UNCHANGED <<s2c, c2s, reader, header, input, closed, crashed>>
  BY DEF S!CallInTime, S!ResponseSent, S!CallTimesOut, S!MethodReturns,
         S!WorkerSendsHeader, S!WaiterSendsHeader, S!EncodeHeader
<1>3. \A q \in Requests : Unanswered(q)' <=> Unanswered(q)
  <2> USE <1>1 DEF HandlerInv, Unanswered
  <2>1. CASE S!CallInTime(r)
    BY <2>1 DEF S!CallInTime
  <2>2. CASE S!ResponseSent(r)
    BY <2>2 DEF S!ResponseSent
  <2>3. CASE S!CallTimesOut(r)
    BY <2>3 DEF S!CallTimesOut
  <2>4. CASE S!MethodReturns(r)
    BY <2>4 DEF S!MethodReturns
  <2>5. CASE S!WorkerSendsHeader(r)
    BY <2>5 DEF S!WorkerSendsHeader
  <2>6. CASE S!WaiterSendsHeader(r)
    BY <2>6 DEF S!WaiterSendsHeader
  <2>7. QED
    BY <2>1, <2>2, <2>3, <2>4, <2>5, <2>6
<1>4. Taken' = Taken
  <2>1. {q \in Requests : Unanswered(q)}' = {q \in Requests : Unanswered(q)}
    BY <1>3 DEF Requests
  <2>2. QED
    BY <1>2, <2>1 DEF Taken
<1>5. UNCHANGED <<OnTheWay, AtServer, ServerUp, Greeted>>
  BY <1>2, <1>4 DEF OnTheWay, AtServer, ServerUp, Greeted, Refused
<1>6. QED
  BY <1>2, <1>5, NothingSeen

\* A handler's reply: the peer's one reply to that request, unless the
\* connection has been closed.
LEMMA BodyMaps ==
    ASSUME SystemInv, UNCHANGED clientVars, ~crashed, NEW r \in Requests,
           S!WorkerSendsBody(r) \/ S!WaiterSendsBody(r)
    PROVE  P!PeerStep \/ UNCHANGED P!vars
<1>1. HandlerInv
  BY DEF SystemInv
<1>2. UNCHANGED <<c2s, reader, header, input, failed, closed, crashed>>
  BY DEF S!WorkerSendsBody, S!WaiterSendsBody
<1>3. PICK h \in Headers, b \in Bodies :
        /\ h = Header(r, "found", failed[r])
        /\ b = IF failed[r] THEN InvalidRequest ELSE Body(input[r], "scalar")
        /\ s2c' = IF ~isClosed /\ ~closed THEN s2c \o <<h, b>> ELSE s2c
  BY BodyEffect
<1>4. UNCHANGED <<OnTheWay, ServerUp, Greeted>>
  BY <1>2 DEF OnTheWay, ServerUp, Greeted
<1>5. CASE closed
  <2>1. ~ServerUp /\ ~ServerUp' /\ s2c' = s2c
    BY <1>2, <1>3, <1>5 DEF ServerUp
  <2>2. AtServer' = AtServer
    BY <2>1 DEF AtServer
  <2>3. QED
    BY <1>4, <2>1, <2>2, NothingSeen
<1>6. CASE ~closed
  <2> DEFINE request == Item(input, r)
  <2>1. ServerUp /\ ServerUp'
    BY <1>2, <1>6 DEF ServerUp
  <2>2. /\ Unanswered(r) /\ ~Unanswered(r)'
        /\ \A q \in Requests : q # r => (Unanswered(q)' <=> Unanswered(q))
    <3> USE <1>1 DEF HandlerInv, Unanswered
    <3>1. CASE S!WorkerSendsBody(r)
      BY <3>1 DEF S!WorkerSendsBody
    <3>2. CASE S!WaiterSendsBody(r)
      BY <3>2 DEF S!WaiterSendsBody
    <3>3. QED
      BY <3>1, <3>2
  <2>3. Taken' = Taken \ {request} /\ request \in Taken
    BY <1>2, <2>2, TakenShrinks
  <2>4. request.refused = FALSE
    BY DEF Item
  <2>5. request \notin Refused /\ Refused' = Refused
    BY <1>2, <2>4 DEF Refused
  <2>6. AtServer' = AtServer \ {request} /\ request \in AtServer
    BY <2>1, <2>3, <2>5 DEF AtServer
  <2>7. P!PeerSends(<<h, b>>)
    BY <1>3, <1>6, SentByPeer
  <2>8. request.header = Header(r, "found", FALSE) /\ request.data = input[r]
    BY DEF Item
  <2>9. CASE failed[r]
    <3>1. P!ErrorReply(request.header) = <<h, b>>
      BY <1>1, <1>3, <2>8, <2>9 DEF P!ErrorReply, P!Header, Header, HandlerInv,
         P!InvalidRequest, P!Body, P!ZeroData, InvalidRequest, Body, ZeroData
    <3> HIDE DEF request
    <3>2. P!PeerReply(request)
      BY <1>4, <2>1, <2>6, <2>7, <3>1 DEF P!PeerReply
    <3>3. QED
      BY <2>6, <3>2 DEF P!PeerStep
  <2>10. CASE ~failed[r]
    <3>1. request.header = h /\ P!Body(request.data, "scalar") = b
      BY <1>1, <1>3, <2>8, <2>10 DEF HandlerInv, P!Body, Body
    <3> HIDE DEF request
    <3>2. P!PeerReply(request)
      BY <1>4, <2>1, <2>4, <2>6, <2>7, <3>1 DEF P!PeerReply
    <3>3. QED
      BY <2>6, <3>2 DEF P!PeerStep
  <2>11. QED
    BY <2>9, <2>10
<1>7. QED
  BY <1>5, <1>6

-----------------------------------------------------------------------------
\* Every step of the system is a step of the client with its abstract peer.
LEMMA StepMaps ==
    ASSUME SystemInv, [Next]_vars
    PROVE  [P!Next]_(P!vars)
<1>1. ASSUME NEW c \in Calls, Caller(c)
      PROVE  P!Next
  BY <1>1, CallerMaps, FlushMaps DEF Caller, C!CallerStep, C!Encode, P!Next, SystemInv
<1>2. CASE ReceiveCall
  BY <1>2, ReceiverMaps DEF ReceiveCall, P!Next
<1>3. CASE User
  BY <1>3, CallerMaps, CloseMaps DEF User, P!Next, SystemInv
<1>4. CASE ServeConnection
  <2>1. P!PeerStep \/ UNCHANGED P!vars
    BY <1>4, HandshakeMaps, HangupMaps, ReadHeaderMaps, ReadBodyMaps,
       ReadBodyFailsMaps, RefuseBodyMaps, ReaderHidden
    DEF ServeConnection, S!ReaderStep
  <2>2. QED
    BY <2>1 DEF P!Next
<1>5. ASSUME NEW r \in Requests, Handler(r) \/ TimesOut(r) \/ Returns(r)
      PROVE  [P!Next]_(P!vars)
  <2>1. P!PeerStep \/ UNCHANGED P!vars
    BY <1>5, HandlerHidden, BodyMaps DEF Handler, TimesOut, Returns, S!HandlerStep
  <2>2. QED
    BY <2>1 DEF P!Next
<1>6. CASE UNCHANGED vars
  <2>1. UNCHANGED <<clientVars, s2c, OnTheWay, AtServer, ServerUp, Greeted>>
    BY <1>6, PeerUntouched DEF vars
  <2>2. QED
    BY <2>1, NothingSeen
<1>7. QED
  BY <1>1, <1>2, <1>3, <1>4, <1>5, <1>6 DEF Next, Quiescent

\* The server is a peer as RpcClient assumes it: every behaviour of the two
\* together, for any number of calls, with and without a ProcessingTimeout and
\* whatever the handshake's decoder swallows (server.go:105-123), is one of
\* RpcClient, so that what is proved there of any peer holds for this server.
THEOREM ServerRefinesPeer == Spec => ServerIsPeer
<1>1. Init => P!Init
  <2> SUFFICES ASSUME Init
               PROVE  P!Init
    OBVIOUS
  <2>1. ServerUp /\ ~Greeted /\ OnTheWay = << >> /\ Refused = {}
    BY DEF Init, S!Init, C!Init, ServerUp, Greeted, OnTheWay, Refused
  <2>2. \A r \in Requests : ~Unanswered(r)
    BY DEF Init, S!Init, Unanswered
  <2>3. AtServer = {}
    BY <2>1, <2>2, TakenItems DEF AtServer
  <2>4. QED
    BY <2>1, <2>3 DEF Init, S!Init, C!Init, P!Init, C!FirstNumber, P!FirstNumber,
       C!NoOutput, P!NoOutput, C!ZeroHeader, P!ZeroHeader, C!Header, P!Header
<1>2. SystemInv /\ [Next]_vars => [P!Next]_(P!vars)
  BY StepMaps
<1>3. QED
  BY <1>1, <1>2, SystemInvariance, PTL DEF Spec, ServerIsPeer, P!Spec

-----------------------------------------------------------------------------
(* The theorems about RpcClient, for the client of this server. *)

Q == INSTANCE RpcCallsProofs WITH
    Unencodable <- {}, Undecodable <- {}, Unmarshalable <- {},
    AnswerShape <- "scalar", WireCapacity <- WireCapacity + 1,
    c2s <- OnTheWay, peerOpen <- ServerUp, greeted <- Greeted,
    inFlight <- AtServer, peerBuffer <- << >>

\* What those theorems assume of the constants.
LEMMA ClientAssumption == Q!CallsAssumption
  BY SystemAssumption

\* The steps of P and of Q, which are instances of the same module.
LEMMA SameClient ==
    /\ P!Init <=> Q!Init
    /\ [P!Next]_(P!vars) <=> [Q!Next]_(Q!vars)
<1> USE DEF P!clientVars, P!coderVars, P!recordVars, P!callerVars,
            P!receiverVars, P!peerVars, P!vars, Q!clientVars, Q!coderVars,
            Q!recordVars, Q!callerVars, Q!receiverVars, Q!peerVars, Q!vars,
            P!Header, Q!Header, P!Body, Q!Body, P!ZeroHeader, Q!ZeroHeader,
            P!ZeroData, Q!ZeroData, P!Registered, Q!Registered
<1>1. P!Init <=> Q!Init
  BY DEF P!Init, Q!Init, P!FirstNumber, Q!FirstNumber, P!NoOutput, Q!NoOutput
<1>2. ASSUME NEW c
      PROVE  /\ P!StartCall(c) <=> Q!StartCall(c)
             /\ P!ContextDone(c) <=> Q!ContextDone(c)
             /\ P!AddCall(c) <=> Q!AddCall(c)
             /\ P!RejectCall(c) <=> Q!RejectCall(c)
  BY DEF P!StartCall, Q!StartCall, P!ContextDone, Q!ContextDone, P!AddCall,
     Q!AddCall, P!RejectCall, Q!RejectCall, P!IsAvailable, Q!IsAvailable,
     P!NextNumber, Q!NextNumber, P!With, Q!With
<1>3. ASSUME NEW c
      PROVE  P!Encode(c) <=> Q!Encode(c)
  BY DEF P!Encode, Q!Encode, P!EncodeReturns, Q!EncodeReturns,
     P!RequestHeader, Q!RequestHeader, P!EncodeAfterFailure, Q!EncodeAfterFailure,
     P!EncodeFails, Q!EncodeFails, P!EncodeAndFlush, Q!EncodeAndFlush,
     P!EncodeIntoTheVoid, Q!EncodeIntoTheVoid, P!ConnectionDown, Q!ConnectionDown
<1>4. ASSUME NEW c
      PROVE  P!CallerStep(c) <=> Q!CallerStep(c)
  BY <1>2, <1>3 DEF P!CallerStep, Q!CallerStep, P!UndoSend, Q!UndoSend,
     P!SelectFinish, Q!SelectFinish, P!SelectDone, Q!SelectDone, P!CancelCall,
     Q!CancelCall, P!Without, Q!Without, P!Restrict, Q!Restrict
<1>5. P!ReceiverStep <=> Q!ReceiverStep
  <2>1. P!RecvHeader <=> Q!RecvHeader
    BY DEF P!RecvHeader, Q!RecvHeader, P!HeaderDecodes, Q!HeaderDecodes,
       P!DecodedHeader, Q!DecodedHeader, P!Shape, Q!Shape
  <2>2. P!RecvHeaderFails <=> Q!RecvHeaderFails
    BY DEF P!RecvHeaderFails, Q!RecvHeaderFails, P!HeaderDecodes,
       Q!HeaderDecodes, P!Shape, Q!Shape, P!ConnectionDown, Q!ConnectionDown
  <2>3. P!RecvLookup <=> Q!RecvLookup
    BY DEF P!RecvLookup, Q!RecvLookup, P!Without, Q!Without, P!Restrict, Q!Restrict
  <2>4. P!RecvBody <=> Q!RecvBody
    BY DEF P!RecvBody, Q!RecvBody, P!RecvDiscard, Q!RecvDiscard, P!RecvAnswer,
       Q!RecvAnswer, P!RecvBodyFails, Q!RecvBodyFails, P!BodyRead, Q!BodyRead,
       P!BodyDecodes, Q!BodyDecodes, P!DecodedBody, Q!DecodedBody, P!Shape,
       Q!Shape, P!ConnectionDown, Q!ConnectionDown
  <2>5. P!RecvFinish <=> Q!RecvFinish
    BY DEF P!RecvFinish, Q!RecvFinish
  <2>6. QED
    BY <2>1, <2>2, <2>3, <2>4, <2>5 DEF P!ReceiverStep, Q!ReceiverStep,
       P!TerminateLockRequest, Q!TerminateLockRequest, P!TerminateLockEntity,
       Q!TerminateLockEntity, P!TerminateOne, Q!TerminateOne, P!TerminateEnd,
       Q!TerminateEnd
<1>6. P!PeerStep <=> Q!PeerStep
  BY DEF P!PeerStep, Q!PeerStep, P!PeerHandshake, Q!PeerHandshake,
     P!ReadAhead, Q!ReadAhead, P!Fragment, Q!Fragment, P!HeaderDecodes,
     Q!HeaderDecodes, P!Shape, Q!Shape, P!PeerTake, Q!PeerTake, P!PeerRefuse,
     Q!PeerRefuse, P!PeerReply, Q!PeerReply, P!PeerHangup, Q!PeerHangup,
     P!PeerSends, Q!PeerSends, P!Refusing, Q!Refusing, P!ErrorReply,
     Q!ErrorReply, P!InvalidRequest, Q!InvalidRequest, P!DecodedHeader,
     Q!DecodedHeader, P!DecodedBody, Q!DecodedBody
<1>7. P!Close <=> Q!Close
  BY DEF P!Close, Q!Close
<1>8. [P!Next]_(P!vars) <=> [Q!Next]_(Q!vars)
  BY <1>2, <1>4, <1>5, <1>6, <1>7 DEF P!Next, Q!Next, P!Quiescent, Q!Quiescent
<1>9. QED
  BY <1>1, <1>8

\* P and Q are the same specification.
LEMMA SameSpec == ServerIsPeer <=> Q!Spec
  BY SameClient, PTL DEF ServerIsPeer, P!Spec, Q!Spec

\* Client and server together keep the contract of RpcCalls: a call is settled
\* once, and a nil error comes with the answer the server computed from the
\* call's own input, whatever both ends' goroutines do in between, with and
\* without a ProcessingTimeout, and whatever of the requests the handshake's
\* decoder swallows or cuts: such a call is pending until the connection ends.
THEOREM ContractKept == Spec => CallsKeepContract
<1>1. Q!Marshals
  BY DEF Q!Marshals
<1>2. Q!Spec /\ Q!Marshals => Q!ImplementsRpcCalls
  BY ClientAssumption, Q!ClientRefinesCalls
<1> USE DEF Q!Phase, C!Phase, Q!Outcome, C!Outcome
<1>3. Q!Abstract!Init <=> C!Abstract!Init
  BY DEF Q!Abstract!Init, C!Abstract!Init
<1>4. [Q!Abstract!Next]_(Q!Abstract!vars) <=> [C!Abstract!Next]_(C!Abstract!vars)
  BY DEF Q!Abstract!Next, Q!Abstract!Invoke, Q!Abstract!Expire, Q!Abstract!Settle,
     Q!Abstract!GoDown, Q!Abstract!Return, Q!Abstract!Abandon, Q!Abstract!vars,
     C!Abstract!Next, C!Abstract!Invoke, C!Abstract!Expire, C!Abstract!Settle,
     C!Abstract!GoDown, C!Abstract!Return, C!Abstract!Abandon, C!Abstract!vars
<1>5. Q!ImplementsRpcCalls => CallsKeepContract
  BY <1>3, <1>4, PTL DEF Q!ImplementsRpcCalls, C!ImplementsRpcCalls, CallsKeepContract,
     Q!Abstract!Spec, C!Abstract!Spec
<1>6. QED
  BY <1>1, <1>2, <1>5, ServerRefinesPeer, SameSpec, PTL

\* In no state of the two does a goroutine of the client block in finishCall,
\* a caller wait although the receiver has ended and left it behind
\* (client.go:112-124), or a Call that returned nil hold another call's answer.
\* A call that the server will never answer, because the handshake swallowed it
\* or its method hangs, is not left behind: it waits, in the map, for the end of
\* its context or of the connection.
THEOREM CallersServed ==
    Spec => [](C!FinishedAtMostOnce /\ C!NoCallerLeftBehind /\ C!AnswerIntegrity)
<1>1. Q!Marshals
  BY DEF Q!Marshals
<1>2. Q!Spec /\ Q!Marshals => []Q!AnswerIntegrity
  BY ClientAssumption, Q!OwnAnswer
<1>3. Q!Spec => []Q!FinishedAtMostOnce
  BY ClientAssumption, Q!FinishedOnce
<1>4. Q!Spec => []Q!NoCallerLeftBehind
  BY ClientAssumption, Q!NobodyLeftBehind
<1>5. /\ Q!AnswerIntegrity => C!AnswerIntegrity
      /\ Q!FinishedAtMostOnce => C!FinishedAtMostOnce
      /\ Q!NoCallerLeftBehind => C!NoCallerLeftBehind
  BY DEF Q!AnswerIntegrity, C!AnswerIntegrity, Q!FinishedAtMostOnce,
     C!FinishedAtMostOnce, Q!AboutToFinish, C!AboutToFinish,
     Q!NoCallerLeftBehind, C!NoCallerLeftBehind, Q!Outstanding, C!Outstanding,
     Q!Registered, C!Registered
<1>6. QED
  BY <1>1, <1>2, <1>3, <1>4, <1>5, ServerRefinesPeer, SameSpec, PTL
=============================================================================
