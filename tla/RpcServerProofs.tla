-------------------------- MODULE RpcServerProofs ---------------------------
(***************************************************************************)
(* Proofs about RpcServer, for any number of requests of any kinds, with   *)
(* or without a time limit: the type invariant, RepliesFramed, OneReply    *)
(* and RepliesBeforeClose.  They follow from the inductive invariant IInv: *)
(* who holds sendMutex, what waitGroup counts, what stands behind each     *)
(* header in the request direction, and that a request is in one place at  *)
(* a time on its way from the client's buffer to the reply's header.       *)
(***************************************************************************)
EXTENDS RpcServer, JsonStreamProofs, FiniteSetTheorems

\* The values of the two streams.
Headers ==
    [type : {"header"}, seq : Nat, error : BOOLEAN,
     method : {"", "found", "noService", "noMethod", "valueOutput"}]

Values ==
    Headers
    \cup [type : {"body"}, data : SUBSET Requests, shape : {"object", "scalar"}]
    \cup {Fragment}

StreamInv ==
    /\ c2s \in Seq(Values) /\ held \in Seq(Values)
    /\ s2c \in Seq(Values) /\ buffer \in Seq(Values)
    /\ header \in Headers

\* What the client writes behind the header of r: the next header if r's own
\* body could not be marshalled.
Follows(r, v) ==
    IF kind[r] = "unsent" THEN v.type = "header" ELSE v = RequestBody(r)

\* Behind every header of s is what the client wrote there.
Linked(s) ==
    \A i \in 1 .. Len(s) : s[i].type = "header" =>
        /\ s[i].seq \in Requests /\ s[i] = RequestHeader(s[i].seq)
        /\ i + 1 \in 1 .. Len(s) /\ Follows(s[i].seq, s[i + 1])

\* s holds headers of requests whose bodies could not be marshalled.
Orphaned(s) ==
    \A i \in 1 .. Len(s) :
        /\ s[i].seq \in Requests /\ kind[s[i].seq] = "unsent"
        /\ s[i] = RequestHeader(s[i].seq)

\* The reader is in step with the client, and what has been decoded for a
\* request is its own input, or nothing.
RequestInv ==
    /\ Linked(c2s)
    /\ Orphaned(held)
    /\ reader = "body" =>
         /\ header.seq \in Requests
         /\ c2s # << >> /\ Follows(header.seq, Head(c2s))
    /\ \A r \in Requests : waiter[r] # "none" =>
         input[r] = {r} \/ (kind[r] = "unsent" /\ input[r] = ZeroData)

\* sendMutex is held exactly by the goroutine inside send_response.
MutexInv ==
    /\ sendMutex = Reader <=> reader = "refusing"
    /\ \A r \in Requests : sendMutex = Worker(r) <=> worker[r] = "sending"
    /\ \A r \in Requests : sendMutex = Waiter(r) <=> waiter[r] = "sending"

\* The two goroutines of a request: the worker answers only after it met the
\* waiter, and the waiter only after its timer won.
HandlerInv ==
    \A r \in Requests :
        /\ worker[r] = "none" <=> waiter[r] = "none"
        /\ waiter[r] = "response" <=> worker[r] \in {"send", "sending", "sent"}
        /\ worker[r] = "finished" => waiter[r] \in {"left", "returned"}
        /\ waiter[r] \in {"send", "sending"} => failed[r]

\* The handlers that have not called waitGroup.Done.
Waiting == {r \in Requests : waiter[r] \notin {"none", "returned"}}

WaitInv ==
    /\ waitGroup = Cardinality(Waiting)
    /\ reader = "handshake" => \A r \in Requests : waiter[r] = "none"
    /\ closed <=> reader = "closed"
    /\ reader = "closed" /\ header.method \notin Panicking => Waiting = {}

\* A request is in one place at a time: unsent, on its way, in the reader's
\* hands, in its handler's, or answered.
In  == c2s \o held
Out == s2c \o buffer

InHand(r) == reader \in {"body", "refuse"} /\ header.seq = r

Answering(r) ==
    \/ waiter[r] \in {"select", "send"}
    \/ waiter[r] = "response" /\ worker[r] = "send"

PlaceInv ==
    \A r \in Requests :
        /\ Once(In, r) /\ Once(Out, r)
        /\ r \notin submitted => ~Occurs(In, r)
        /\ r \notin submitted \/ Occurs(In, r) => ~InHand(r)
        /\ r \notin submitted \/ Occurs(In, r) \/ InHand(r) => waiter[r] = "none"
        /\ (r \notin submitted \/ Occurs(In, r) \/ InHand(r) \/ Answering(r))
             => ~Occurs(Out, r)

\* A reply as RepliesFramed wants it.
Frame(h, b) ==
    /\ h.type = "header" /\ b.type = "body"
    /\ h.error => b = InvalidRequest
    /\ ~h.error => \/ b.data = {h.seq}
                   \/ kind[h.seq] = "unsent" /\ b.data = ZeroData

\* Between two replies the buffer is empty, and during one it holds the header
\* of the one goroutine that sends.
FrameInv ==
    EverythingMarshals =>
        /\ Len(s2c) % 2 = 0
        /\ \A i \in 1 .. Len(s2c) : i % 2 = 1 => Frame(s2c[i], s2c[i + 1])
        /\ sendMutex = Nobody => buffer = << >>
        /\ reader = "refusing" =>
             buffer = <<Header(header.seq, header.method, TRUE)>>
        /\ \A r \in Requests : worker[r] = "sending" \/ waiter[r] = "sending" =>
             buffer = <<ReplyHeader(r)>>

IInv ==
    /\ TypeOK
    /\ StreamInv
    /\ RequestInv
    /\ MutexInv
    /\ HandlerInv
    /\ WaitInv
    /\ PlaceInv
    /\ FrameInv

-----------------------------------------------------------------------------
(* What the groups of actions have in common. *)

USE RequestsAssumption DEF clientVars, connVars, handlerVars, sendVars

\* A handler that has not called waitGroup.Done is counted.
LEMMA WaitGroupCounts ==
    ASSUME TypeOK, WaitInv
    PROVE  /\ IsFiniteSet(Waiting) /\ waitGroup \in Nat
           /\ \A r \in Waiting : waitGroup - 1 \in Nat
<1>1. IsFiniteSet(Waiting)
  BY FS_Subset DEF Waiting
<1>2. Cardinality(Waiting) \in Nat
  BY <1>1, FS_CardinalityType
<1>3. ASSUME NEW r \in Waiting PROVE Cardinality(Waiting) # 0
  BY <1>1, <1>3, FS_EmptySet
<1>4. QED
  BY <1>1, <1>2, <1>3 DEF WaitInv

\* What a value decodes to.
LEMMA Decoding ==
    ASSUME NEW v \in Values
    PROVE  /\ v.type \in {"header", "body", "fragment"}
           /\ v.type = "header" => v \in Headers
           /\ DecodedHeader(v) \in Headers
           /\ \A s : BodyDecodes(v, s) => DecodedBody(v) \in SUBSET Requests
<1>1. CASE v \in Headers
  BY <1>1 DEF Headers, DecodedHeader, DecodedBody, ZeroData
<1>2. CASE v \in [type : {"body"}, data : SUBSET Requests,
                  shape : {"object", "scalar"}]
  BY <1>2 DEF Headers, DecodedHeader, DecodedBody, ZeroHeader, Header
<1>3. CASE v = Fragment
  BY <1>3 DEF Headers, DecodedHeader, BodyDecodes, ZeroHeader, Header, Fragment
<1>4. QED
  BY <1>1, <1>2, <1>3 DEF Values

\* The values the client and the server write.
LEMMA Writing ==
    ASSUME TypeOK
    PROVE  /\ Fragment \in Values /\ InvalidRequest \in Values
           /\ \A r \in Requests :
                /\ RequestHeader(r) \in Values /\ RequestBody(r) \in Values
                /\ ReplyHeader(r) \in Values /\ ReplyBody(r) \in Values
           /\ header \in Headers =>
                Header(header.seq, header.method, TRUE) \in Values
<1>1. \A r \in Requests : Method(r) \in {"found", "noService", "noMethod", "valueOutput"}
  BY DEF Method
<1>2. \A r \in Requests : RequestHeader(r) \in Values /\ ReplyHeader(r) \in Values
  BY <1>1 DEF TypeOK, RequestHeader, ReplyHeader, Header, Values, Headers
<1>3. \A r \in Requests : RequestBody(r) \in Values
  BY DEF RequestBody, Body, Values
<1>4. Fragment \in Values /\ InvalidRequest \in Values
  BY DEF InvalidRequest, ZeroData, Body, Values
<1>5. \A r \in Requests : ReplyBody(r) \in Values
  BY <1>4 DEF TypeOK, ReplyBody, Body, Values
<1>6. header \in Headers => Header(header.seq, header.method, TRUE) \in Values
  BY DEF Header, Values, Headers
<1>7. QED
  BY <1>2, <1>3, <1>4, <1>5, <1>6

\* Reading from the front of a stream keeps it in step.
LEMMA LinkedSuffix ==
    ASSUME NEW V, NEW s \in Seq(V), NEW k \in 0 .. Len(s), Linked(s)
    PROVE  Linked(SubSeq(s, k + 1, Len(s)))
<1> DEFINE t == SubSeq(s, k + 1, Len(s))
<1>1. /\ Len(s) \in Nat /\ Len(t) = Len(s) - k
      /\ \A i \in 1 .. Len(t) : t[i] = s[k + i] /\ k + i \in 1 .. Len(s)
  BY SuffixElements
<1> HIDE DEF t
<1>2. ASSUME NEW i \in 1 .. Len(t), t[i].type = "header"
      PROVE  /\ t[i].seq \in Requests /\ t[i] = RequestHeader(t[i].seq)
             /\ i + 1 \in 1 .. Len(t) /\ Follows(t[i].seq, t[i + 1])
  <2>1. /\ s[k + i].seq \in Requests /\ s[k + i] = RequestHeader(s[k + i].seq)
        /\ k + i + 1 \in 1 .. Len(s) /\ Follows(s[k + i].seq, s[k + i + 1])
    BY <1>1, <1>2 DEF Linked
  <2>2. i + 1 \in 1 .. Len(t) /\ k + (i + 1) = k + i + 1
    BY <1>1, <2>1
  <2>3. t[i] = s[k + i] /\ t[i + 1] = s[k + i + 1]
    BY <1>1, <2>2
  <2>4. QED
    BY <2>1, <2>2, <2>3
<1>3. QED
  BY <1>2 DEF t, Linked

\* So does reading ahead, even into the middle of a value.
LEMMA LinkedReadAhead ==
    ASSUME NEW s \in Seq(Values), NEW k, NEW t \in ReadAhead(s, k), Linked(s)
    PROVE  Linked(t)
<1>1. Fragment \in Values
  BY DEF Values
<1>2. PICK d \in 0 .. Len(s) :
        /\ Len(t) = Len(s) - d
        /\ \A i \in 1 .. Len(t) :
             /\ d + i \in 1 .. Len(s)
             /\ t[i] = s[d + i] \/ (i = 1 /\ t[i] = Fragment)
  BY <1>1, ReadAheadElements
<1>3. Len(s) \in Nat
  BY LenProperties
<1>4. ASSUME NEW i \in 1 .. Len(t), t[i].type = "header"
      PROVE  /\ t[i].seq \in Requests /\ t[i] = RequestHeader(t[i].seq)
             /\ i + 1 \in 1 .. Len(t) /\ Follows(t[i].seq, t[i + 1])
  <2>1. t[i] = s[d + i] /\ d + i \in 1 .. Len(s)
    BY <1>2, <1>4 DEF Fragment
  <2>2. /\ s[d + i].seq \in Requests /\ s[d + i] = RequestHeader(s[d + i].seq)
        /\ d + i + 1 \in 1 .. Len(s) /\ Follows(s[d + i].seq, s[d + i + 1])
    BY <1>4, <2>1 DEF Linked
  <2>3. i + 1 \in 1 .. Len(t) /\ d + (i + 1) = d + i + 1 /\ i + 1 # 1
    BY <1>2, <1>3, <2>2
  <2>4. t[i + 1] = s[d + i + 1]
    BY <1>2, <2>3
  <2>5. QED
    BY <2>1, <2>2, <2>3, <2>4
<1>5. QED
  BY <1>4 DEF Linked

\* Writing whole requests keeps it in step.
LEMMA LinkedConcat ==
    ASSUME NEW V, NEW s \in Seq(V), NEW t \in Seq(V), Linked(s), Linked(t)
    PROVE  Linked(s \o t)
<1> DEFINE u == s \o t
<1>1. /\ Len(s) \in Nat /\ Len(t) \in Nat /\ Len(u) = Len(s) + Len(t)
      /\ \A i \in 1 .. Len(s) : u[i] = s[i]
      /\ \A i \in 1 .. Len(t) : u[Len(s) + i] = t[i]
  BY ConcatProperties, LenProperties
<1> HIDE DEF u
<1>2. ASSUME NEW i \in 1 .. Len(u), u[i].type = "header"
      PROVE  /\ u[i].seq \in Requests /\ u[i] = RequestHeader(u[i].seq)
             /\ i + 1 \in 1 .. Len(u) /\ Follows(u[i].seq, u[i + 1])
  <2>1. CASE i \in 1 .. Len(s)
    BY <1>1, <1>2, <2>1 DEF Linked
  <2>2. CASE i \notin 1 .. Len(s)
    <3> DEFINE j == i - Len(s)
    <3>1. j \in 1 .. Len(t) /\ i = Len(s) + j /\ i + 1 = Len(s) + (j + 1)
      BY <1>1, <2>2
    <3> HIDE DEF j
    <3>2. u[i] = t[j]
      BY <1>1, <3>1
    <3>3. /\ t[j].seq \in Requests /\ t[j] = RequestHeader(t[j].seq)
          /\ j + 1 \in 1 .. Len(t) /\ Follows(t[j].seq, t[j + 1])
      BY <1>2, <3>1, <3>2 DEF Linked
    <3>4. u[i + 1] = t[j + 1] /\ i + 1 \in 1 .. Len(u)
      BY <1>1, <3>1, <3>3
    <3>5. QED
      BY <3>2, <3>3, <3>4
  <2>3. QED
    BY <2>1, <2>2
<1>3. QED
  BY <1>2 DEF u, Linked

\* The flush of a request, behind the headers that failed ones left.
LEMMA LinkedFlush ==
    ASSUME TypeOK, StreamInv, RequestInv, NEW r \in Requests, kind[r] # "unsent"
    PROVE  Linked(held \o <<RequestHeader(r), RequestBody(r)>>)
<1> DEFINE t == held \o <<RequestHeader(r), RequestBody(r)>>
<1>1. /\ Len(held) \in Nat /\ Len(t) = Len(held) + 2
      /\ \A i \in 1 .. Len(held) : t[i] = held[i]
      /\ t[Len(held) + 1] = RequestHeader(r)
      /\ t[Len(held) + 2] = RequestBody(r)
  BY DEF StreamInv
<1> HIDE DEF t
<1>2. RequestHeader(r).type = "header" /\ RequestHeader(r).seq = r
  BY DEF RequestHeader, Header
<1>3. RequestBody(r).type = "body" /\ Follows(r, RequestBody(r))
  BY DEF RequestBody, Body, Follows
<1>4. \A i \in 1 .. Len(held) : t[i].type = "header"
  <2>1. \A q : RequestHeader(q).type = "header"
    BY DEF RequestHeader, Header
  <2>2. QED
    BY <1>1, <2>1 DEF RequestInv, Orphaned
<1>5. ASSUME NEW i \in 1 .. Len(t), t[i].type = "header"
      PROVE  /\ t[i].seq \in Requests /\ t[i] = RequestHeader(t[i].seq)
             /\ i + 1 \in 1 .. Len(t) /\ Follows(t[i].seq, t[i + 1])
  <2>1. CASE i \in 1 .. Len(held)
    <3>1. i + 1 \in 1 .. Len(t) /\ t[i + 1].type = "header"
      BY <1>1, <1>2, <1>4, <2>1
    <3>2. QED
      BY <1>1, <2>1, <3>1 DEF RequestInv, Orphaned, Follows
  <2>2. CASE i = Len(held) + 1
    BY <1>1, <1>2, <1>3, <2>2
  <2>3. CASE i = Len(held) + 2
    BY <1>1, <1>3, <1>5, <2>3
  <2>4. QED
    BY <1>1, <2>1, <2>2, <2>3
<1>6. QED
  BY <1>5 DEF t, Linked

-----------------------------------------------------------------------------
(* Every step preserves each conjunct of IInv. *)

\* TypeOK: waitGroup never falls below zero, and what is decoded into an input
\* is the data of requests.
LEMMA TypeStep ==
    ASSUME TypeOK, StreamInv, RequestInv, WaitInv, [Next]_vars
    PROVE  TypeOK'
<1> USE DEF TypeOK
<1>1. ASSUME NEW r \in Requests, ClientSend(r) PROVE TypeOK'
  BY <1>1 DEF ClientSend
<1>2. ASSUME NEW r \in Requests, ClientHolds(r) PROVE TypeOK'
  BY <1>2 DEF ClientHolds
<1>3. CASE ClientHangup
  BY <1>3 DEF ClientHangup
<1>4. CASE Handshake
  BY <1>4 DEF Handshake, ReaderFrame
<1>5. CASE HandshakeRejects
  BY <1>5 DEF HandshakeRejects, ReaderFrame
<1>6. CASE ReadHeader
  BY <1>6 DEF ReadHeader, ReaderFrame
<1>7. CASE ReadPanics
  BY <1>7 DEF ReadPanics
<1>8. CASE ReadHeaderFails
  BY <1>8 DEF ReadHeaderFails, ReaderFrame
<1>9. CASE ReadBody
  <2>1. header.seq \in Requests /\ c2s # << >>
    BY <1>9 DEF ReadBody, RequestInv
  <2>2. Head(c2s) \in Values
    BY <2>1, HeadTailProperties DEF StreamInv
  <2>3. DecodedBody(Head(c2s)) \in SUBSET Requests
    BY <1>9, <2>2, Decoding DEF ReadBody
  <2>4. QED
    BY <1>9, <2>1, <2>3 DEF ReadBody, WorkerStates, WaiterStates
<1>10. CASE ReadBodyFails
  BY <1>10 DEF ReadBodyFails, ReaderFrame
<1>11. CASE RefuseHeader
  BY <1>11 DEF RefuseHeader, EncodeHeader
<1>12. CASE RefuseBody
  BY <1>12 DEF RefuseBody, EncodeBody
<1>13. CASE Drain
  BY <1>13 DEF Drain, ReaderFrame
<1>14. ASSUME NEW r \in Requests, MethodReturns(r) PROVE TypeOK'
  BY <1>14 DEF MethodReturns, HandlerFrame, WorkerStates
<1>15. ASSUME NEW r \in Requests, CallInTime(r) PROVE TypeOK'
  BY <1>15 DEF CallInTime, HandlerFrame, WorkerStates, WaiterStates
<1>16. ASSUME NEW r \in Requests, CallTimesOut(r) PROVE TypeOK'
  BY <1>16 DEF CallTimesOut, HandlerFrame, WaiterStates
<1>17. ASSUME NEW r \in Requests, WorkerSendsHeader(r) PROVE TypeOK'
  BY <1>17 DEF WorkerSendsHeader, EncodeHeader, HandlerFrame, WorkerStates
<1>18. ASSUME NEW r \in Requests, WorkerSendsBody(r) PROVE TypeOK'
  BY <1>18 DEF WorkerSendsBody, EncodeBody, EncodeBodyFails, HandlerFrame, WorkerStates
<1>19. ASSUME NEW r \in Requests, ResponseSent(r) PROVE TypeOK'
  <2>1. waitGroup - 1 \in Nat
    BY <1>19, WaitGroupCounts DEF ResponseSent, Waiting
  <2>2. QED
    BY <1>19, <2>1 DEF ResponseSent, HandlerFrame, WorkerStates, WaiterStates
<1>20. ASSUME NEW r \in Requests, WaiterSendsHeader(r) PROVE TypeOK'
  BY <1>20 DEF WaiterSendsHeader, EncodeHeader, HandlerFrame, WaiterStates
<1>21. ASSUME NEW r \in Requests, WaiterSendsBody(r) PROVE TypeOK'
  <2>1. waitGroup - 1 \in Nat
    BY <1>21, WaitGroupCounts DEF WaiterSendsBody, Waiting
  <2>2. QED
    BY <1>21, <2>1 DEF WaiterSendsBody, EncodeBody, HandlerFrame, WaiterStates
<1>22. CASE UNCHANGED vars
  BY <1>22 DEF vars
<1>23. QED
  BY <1>1, <1>2, <1>3, <1>4, <1>5, <1>6, <1>7, <1>8, <1>9, <1>10, <1>11,
     <1>12, <1>13, <1>14, <1>15, <1>16, <1>17, <1>18, <1>19, <1>20, <1>21,
     <1>22
  DEF Next, ClientStep, ReaderStep, HandlerStep, Quiescent

\* Who holds sendMutex.
LEMMA MutexStep ==
    ASSUME TypeOK, RequestInv, MutexInv, HandlerInv, PlaceInv, [Next]_vars
    PROVE  MutexInv'
<1> USE DEF TypeOK, MutexInv, Nobody, Reader, Worker, Waiter
<1>1. ASSUME NEW r \in Requests, ClientSend(r) PROVE MutexInv'
  BY <1>1 DEF ClientSend
<1>2. ASSUME NEW r \in Requests, ClientHolds(r) PROVE MutexInv'
  BY <1>2 DEF ClientHolds
<1>3. CASE ClientHangup
  BY <1>3 DEF ClientHangup
<1>4. CASE Handshake
  BY <1>4 DEF Handshake, ReaderFrame
<1>5. CASE HandshakeRejects
  BY <1>5 DEF HandshakeRejects, ReaderFrame
<1>6. CASE ReadHeader
  BY <1>6 DEF ReadHeader, ReaderFrame
<1>7. CASE ReadPanics
  BY <1>7 DEF ReadPanics
<1>8. CASE ReadHeaderFails
  BY <1>8 DEF ReadHeaderFails, ReaderFrame
<1>9. CASE ReadBody
  <2>1. header.seq \in Requests
    BY <1>9 DEF ReadBody, RequestInv
  <2>2. waiter[header.seq] = "none" /\ worker[header.seq] = "none"
    BY <1>9, <2>1 DEF ReadBody, PlaceInv, InHand, HandlerInv
  <2>3. QED
    BY <1>9, <2>1, <2>2 DEF ReadBody
<1>10. CASE ReadBodyFails
  BY <1>10 DEF ReadBodyFails, ReaderFrame
<1>11. CASE RefuseHeader
  BY <1>11 DEF RefuseHeader, EncodeHeader
<1>12. CASE RefuseBody
  BY <1>12 DEF RefuseBody, EncodeBody
<1>13. CASE Drain
  BY <1>13 DEF Drain, ReaderFrame
<1>14. ASSUME NEW r \in Requests, MethodReturns(r) PROVE MutexInv'
  BY <1>14 DEF MethodReturns, HandlerFrame
<1>15. ASSUME NEW r \in Requests, CallInTime(r) PROVE MutexInv'
  BY <1>15 DEF CallInTime, HandlerFrame
<1>16. ASSUME NEW r \in Requests, CallTimesOut(r) PROVE MutexInv'
  BY <1>16 DEF CallTimesOut, HandlerFrame
<1>17. ASSUME NEW r \in Requests, WorkerSendsHeader(r) PROVE MutexInv'
  BY <1>17 DEF WorkerSendsHeader, EncodeHeader, HandlerFrame
<1>18. ASSUME NEW r \in Requests, WorkerSendsBody(r) PROVE MutexInv'
  BY <1>18 DEF WorkerSendsBody, EncodeBody, EncodeBodyFails, HandlerFrame
<1>19. ASSUME NEW r \in Requests, ResponseSent(r) PROVE MutexInv'
  BY <1>19 DEF ResponseSent, HandlerFrame
<1>20. ASSUME NEW r \in Requests, WaiterSendsHeader(r) PROVE MutexInv'
  BY <1>20 DEF WaiterSendsHeader, EncodeHeader, HandlerFrame
<1>21. ASSUME NEW r \in Requests, WaiterSendsBody(r) PROVE MutexInv'
  BY <1>21 DEF WaiterSendsBody, EncodeBody, HandlerFrame
<1>22. CASE UNCHANGED vars
  BY <1>22 DEF vars
<1>23. QED
  BY <1>1, <1>2, <1>3, <1>4, <1>5, <1>6, <1>7, <1>8, <1>9, <1>10, <1>11,
     <1>12, <1>13, <1>14, <1>15, <1>16, <1>17, <1>18, <1>19, <1>20, <1>21,
     <1>22
  DEF Next, ClientStep, ReaderStep, HandlerStep, Quiescent

\* The two directions carry values, and the reader works on a header.
LEMMA StreamStep ==
    ASSUME TypeOK, StreamInv, [Next]_vars
    PROVE  StreamInv'
<1> USE DEF StreamInv
<1>a. ASSUME c2s # << >>
      PROVE  /\ Tail(c2s) \in Seq(Values) /\ DecodedHeader(Head(c2s)) \in Headers
  BY <1>a, HeadTailProperties, Decoding
<1>b. ASSUME NEW h \in Values PROVE Append(buffer, h) \in Seq(Values)
  BY <1>b, AppendProperties
<1>c. ASSUME NEW m \in Seq(Values), Flush(m)
      PROVE  s2c' \in Seq(Values) /\ buffer' \in Seq(Values)
  <2>1. s2c \o m \in Seq(Values) /\ << >> \in Seq(Values)
    BY <1>c, ConcatProperties
  <2>2. QED
    BY <1>c, <2>1 DEF Flush
<1>1. ASSUME NEW r \in Requests, ClientSend(r) PROVE StreamInv'
  <2>1. <<RequestHeader(r), RequestBody(r)>> \in Seq(Values)
    BY Writing
  <2>2. c2s \o held \o <<RequestHeader(r), RequestBody(r)>> \in Seq(Values)
    BY <2>1, ConcatProperties
  <2>3. QED
    BY <1>1, <2>2 DEF ClientSend
<1>2. ASSUME NEW r \in Requests, ClientHolds(r) PROVE StreamInv'
  BY <1>2, Writing, AppendProperties DEF ClientHolds
<1>3. CASE ClientHangup
  BY <1>3 DEF ClientHangup
<1>4. CASE Handshake
  <2>1. Fragment \in Values
    BY Writing
  <2>2. c2s' \in ReadAhead(c2s, Overread)
    BY <1>4 DEF Handshake
  <2>3. c2s' \in Seq(Values)
    BY <2>1, <2>2, ReadAheadElements
  <2>4. QED
    BY <1>4, <2>3 DEF Handshake, ReaderFrame
<1>5. CASE HandshakeRejects
  BY <1>5 DEF HandshakeRejects, ReaderFrame
<1>6. CASE ReadHeader
  BY <1>6, <1>a DEF ReadHeader, ReaderFrame
<1>7. CASE ReadPanics
  BY <1>7, <1>a DEF ReadPanics
<1>8. CASE ReadHeaderFails
  BY <1>8 DEF ReadHeaderFails, ReaderFrame
<1>9. CASE ReadBody
  BY <1>9, <1>a DEF ReadBody
<1>10. CASE ReadBodyFails
  BY <1>10, <1>a DEF ReadBodyFails, ReaderFrame
<1>11. CASE RefuseHeader
  BY <1>11, <1>b, Writing DEF RefuseHeader, EncodeHeader
<1>12. CASE RefuseBody
  BY <1>12, <1>b, <1>c, Writing DEF RefuseBody, EncodeBody
<1>13. CASE Drain
  BY <1>13 DEF Drain, ReaderFrame
<1>14. ASSUME NEW r \in Requests, MethodReturns(r) PROVE StreamInv'
  BY <1>14 DEF MethodReturns, HandlerFrame
<1>15. ASSUME NEW r \in Requests, CallInTime(r) PROVE StreamInv'
  BY <1>15 DEF CallInTime, HandlerFrame
<1>16. ASSUME NEW r \in Requests, CallTimesOut(r) PROVE StreamInv'
  BY <1>16 DEF CallTimesOut, HandlerFrame
<1>17. ASSUME NEW r \in Requests, WorkerSendsHeader(r) PROVE StreamInv'
  BY <1>17, <1>b, Writing DEF WorkerSendsHeader, EncodeHeader, HandlerFrame
<1>18. ASSUME NEW r \in Requests, WorkerSendsBody(r) PROVE StreamInv'
  BY <1>18, <1>b, <1>c, Writing
  DEF WorkerSendsBody, EncodeBody, EncodeBodyFails, HandlerFrame
<1>19. ASSUME NEW r \in Requests, ResponseSent(r) PROVE StreamInv'
  BY <1>19 DEF ResponseSent, HandlerFrame
<1>20. ASSUME NEW r \in Requests, WaiterSendsHeader(r) PROVE StreamInv'
  BY <1>20, <1>b, Writing DEF WaiterSendsHeader, EncodeHeader, HandlerFrame
<1>21. ASSUME NEW r \in Requests, WaiterSendsBody(r) PROVE StreamInv'
  BY <1>21, <1>b, <1>c, Writing DEF WaiterSendsBody, EncodeBody, HandlerFrame
<1>22. CASE UNCHANGED vars
  BY <1>22 DEF vars
<1>23. QED
  BY <1>1, <1>2, <1>3, <1>4, <1>5, <1>6, <1>7, <1>8, <1>9, <1>10, <1>11,
     <1>12, <1>13, <1>14, <1>15, <1>16, <1>17, <1>18, <1>19, <1>20, <1>21,
     <1>22
  DEF Next, ClientStep, ReaderStep, HandlerStep, Quiescent

\* The two goroutines of a request.
LEMMA GoroutinesStep ==
    ASSUME TypeOK, RequestInv, HandlerInv, PlaceInv, [Next]_vars
    PROVE  HandlerInv'
<1> USE DEF TypeOK, HandlerInv
<1>1. ASSUME NEW r \in Requests, ClientSend(r) PROVE HandlerInv'
  BY <1>1 DEF ClientSend
<1>2. ASSUME NEW r \in Requests, ClientHolds(r) PROVE HandlerInv'
  BY <1>2 DEF ClientHolds
<1>3. CASE ClientHangup
  BY <1>3 DEF ClientHangup
<1>4. CASE Handshake
  BY <1>4 DEF Handshake, ReaderFrame
<1>5. CASE HandshakeRejects
  BY <1>5 DEF HandshakeRejects, ReaderFrame
<1>6. CASE ReadHeader
  BY <1>6 DEF ReadHeader, ReaderFrame
<1>7. CASE ReadPanics
  BY <1>7 DEF ReadPanics
<1>8. CASE ReadHeaderFails
  BY <1>8 DEF ReadHeaderFails, ReaderFrame
<1>9. CASE ReadBody
  <2>1. header.seq \in Requests
    BY <1>9 DEF ReadBody, RequestInv
  <2>2. QED
    BY <1>9, <2>1 DEF ReadBody
<1>10. CASE ReadBodyFails
  BY <1>10 DEF ReadBodyFails, ReaderFrame
<1>11. CASE RefuseHeader
  BY <1>11 DEF RefuseHeader
<1>12. CASE RefuseBody
  BY <1>12 DEF RefuseBody
<1>13. CASE Drain
  BY <1>13 DEF Drain, ReaderFrame
<1>14. ASSUME NEW r \in Requests, MethodReturns(r) PROVE HandlerInv'
  BY <1>14 DEF MethodReturns, HandlerFrame
<1>15. ASSUME NEW r \in Requests, CallInTime(r) PROVE HandlerInv'
  BY <1>15 DEF CallInTime, HandlerFrame
<1>16. ASSUME NEW r \in Requests, CallTimesOut(r) PROVE HandlerInv'
  BY <1>16 DEF CallTimesOut, HandlerFrame
<1>17. ASSUME NEW r \in Requests, WorkerSendsHeader(r) PROVE HandlerInv'
  BY <1>17 DEF WorkerSendsHeader, HandlerFrame
<1>18. ASSUME NEW r \in Requests, WorkerSendsBody(r) PROVE HandlerInv'
  BY <1>18 DEF WorkerSendsBody, HandlerFrame
<1>19. ASSUME NEW r \in Requests, ResponseSent(r) PROVE HandlerInv'
  BY <1>19 DEF ResponseSent, HandlerFrame
<1>20. ASSUME NEW r \in Requests, WaiterSendsHeader(r) PROVE HandlerInv'
  BY <1>20 DEF WaiterSendsHeader, HandlerFrame
<1>21. ASSUME NEW r \in Requests, WaiterSendsBody(r) PROVE HandlerInv'
  BY <1>21 DEF WaiterSendsBody, HandlerFrame
<1>22. CASE UNCHANGED vars
  BY <1>22 DEF vars
<1>23. QED
  BY <1>1, <1>2, <1>3, <1>4, <1>5, <1>6, <1>7, <1>8, <1>9, <1>10, <1>11,
     <1>12, <1>13, <1>14, <1>15, <1>16, <1>17, <1>18, <1>19, <1>20, <1>21,
     <1>22
  DEF Next, ClientStep, ReaderStep, HandlerStep, Quiescent

\* A step that touches neither the stream nor a new handler.
LEMMA RequestFrame ==
    ASSUME RequestInv, UNCHANGED <<kind, c2s, held, input>>,
           reader' = "body" => UNCHANGED <<reader, header>>,
           \A r \in Requests : waiter[r] = "none" => waiter'[r] = "none"
    PROVE  RequestInv'
  BY DEF RequestInv, Linked, Orphaned, RequestHeader, RequestBody, Follows, Method

\* A step of the reader that takes the next value.
LEMMA RequestTaken ==
    ASSUME StreamInv, RequestInv, c2s # << >>, c2s' = Tail(c2s),
           UNCHANGED kind
    PROVE  Linked(c2s)'
<1>1. /\ Len(c2s) \in Nat \ {0}
      /\ Tail(c2s) = SubSeq(c2s, 1 + 1, Len(c2s))
  BY EmptySeq, TailIsSubSeq, HeadTailProperties DEF StreamInv
<1>2. Linked(Tail(c2s))
  <2>1. 1 \in 0 .. Len(c2s)
    BY <1>1
  <2>2. Linked(SubSeq(c2s, 1 + 1, Len(c2s)))
    BY <2>1, LinkedSuffix DEF StreamInv, RequestInv
  <2>3. QED
    BY <1>1, <2>2
<1>3. QED
  BY <1>2 DEF Linked, RequestHeader, RequestBody, Follows, Method

\* The reader stays in step with the client, whatever the handshake swallowed.
LEMMA RequestStep ==
    ASSUME TypeOK, StreamInv, RequestInv, PlaceInv, HandlerInv, [Next]_vars
    PROVE  RequestInv'
<1>1. ASSUME NEW r \in Requests, ClientSend(r) PROVE RequestInv'
  <2> DEFINE m == <<RequestHeader(r), RequestBody(r)>>
  <2>1. m \in Seq(Values)
    BY Writing
  <2> HIDE DEF m
  <2>2. held \o m \in Seq(Values) /\ c2s \o held \o m = c2s \o (held \o m)
    <3>1. c2s \in Seq(Values) /\ held \in Seq(Values)
      BY DEF StreamInv
    <3>2. held \o m \in Seq(Values)
      BY <2>1, <3>1, ConcatProperties
    <3>3. c2s \o held \o m = c2s \o (held \o m)
      BY <2>1, <3>1, ConcatAssociative
    <3>4. QED
      BY <3>2, <3>3
  <2>3. Linked(held \o m)
    BY <1>1, LinkedFlush DEF ClientSend, m
  <2>4. Linked(c2s \o (held \o m))
    BY <2>2, <2>3, LinkedConcat DEF StreamInv, RequestInv
  <2>5. c2s' = c2s \o (held \o m) /\ kind' = kind
    BY <1>1, <2>2 DEF ClientSend, m
  <2>6. Linked(c2s)'
    BY <2>4, <2>5 DEF Linked, RequestHeader, RequestBody, Follows, Method
  <2>7. ASSUME reader = "body"
        PROVE  c2s' # << >> /\ Head(c2s') = Head(c2s)
    <3>1. c2s # << >>
      BY <2>7 DEF RequestInv
    <3>2. c2s \in Seq(Values) /\ held \o m \in Seq(Values)
      BY <2>2 DEF StreamInv
    <3>3. Len(c2s) \in Nat \ {0} /\ Head(c2s) = c2s[1]
      BY <3>1, <3>2, EmptySeq, HeadTailProperties
    <3>4. /\ c2s \o (held \o m) \in Seq(Values)
          /\ Len(c2s \o (held \o m)) \in Nat \ {0}
          /\ (c2s \o (held \o m))[1] = c2s[1]
      BY <3>2, <3>3, ConcatProperties, LenProperties
    <3>5. QED
      BY <2>5, <3>3, <3>4, EmptySeq, HeadTailProperties
  <2>8. QED
    <3>1. Orphaned(held)'
      BY <1>1 DEF ClientSend, Orphaned
    <3>2. UNCHANGED <<kind, reader, header, waiter, input>>
      BY <1>1 DEF ClientSend
    <3>3. QED
      BY <2>6, <2>7, <3>1, <3>2 DEF RequestInv, Follows, RequestBody
<1>2. ASSUME NEW r \in Requests, ClientHolds(r) PROVE RequestInv'
  <2>1. RequestHeader(r).seq = r
    BY DEF RequestHeader, Header
  <2> DEFINE t == Append(held, RequestHeader(r))
  <2>2. /\ Len(held) \in Nat /\ Len(t) = Len(held) + 1
        /\ \A i \in 1 .. Len(held) : t[i] = held[i]
        /\ t[Len(held) + 1] = RequestHeader(r)
    BY AppendProperties, Writing DEF StreamInv
  <2> HIDE DEF t
  <2>3. ASSUME NEW i \in 1 .. Len(t)
        PROVE  /\ t[i].seq \in Requests /\ kind[t[i].seq] = "unsent"
               /\ t[i] = RequestHeader(t[i].seq)
    <3>1. CASE i \in 1 .. Len(held)
      BY <2>2, <3>1 DEF RequestInv, Orphaned
    <3>2. CASE i = Len(held) + 1
      BY <1>2, <2>1, <2>2, <3>2 DEF ClientHolds
    <3>3. QED
      BY <2>2, <3>1, <3>2
  <2>4. UNCHANGED <<kind, c2s, reader, header, waiter, input>> /\ held' = t
    BY <1>2 DEF ClientHolds, t
  <2>5. Orphaned(held)'
    BY <2>3, <2>4 DEF Orphaned, RequestHeader, Method
  <2>6. Linked(c2s)'
    BY <2>4 DEF RequestInv, Linked, RequestHeader, RequestBody, Follows, Method
  <2>7. QED
    BY <2>4, <2>5, <2>6 DEF RequestInv, Follows, RequestBody
<1>3. CASE ClientHangup
  BY <1>3, RequestFrame DEF ClientHangup
<1>4. CASE Handshake
  <2>1. c2s' \in ReadAhead(c2s, Overread) /\ kind' = kind
    BY <1>4 DEF Handshake, ReaderFrame
  <2>2. PICK t : c2s' = t /\ t \in ReadAhead(c2s, Overread)
    BY <2>1
  <2>3. Linked(t)
    BY <2>2, LinkedReadAhead DEF StreamInv, RequestInv
  <2>4. Linked(c2s)'
    BY <2>1, <2>2, <2>3 DEF Linked, RequestHeader, RequestBody, Follows, Method
  <2>5. QED
    BY <1>4, <2>4 DEF Handshake, ReaderFrame, RequestInv, RequestHeader, Method, Orphaned
<1>5. CASE HandshakeRejects
  BY <1>5, RequestFrame DEF HandshakeRejects, ReaderFrame
<1>6. CASE ReadHeader
  <2>1. Linked(c2s)' /\ UNCHANGED <<kind, held, input, waiter>>
    BY <1>6, RequestTaken DEF ReadHeader, ReaderFrame
  <2>2. ASSUME reader' = "body"
        PROVE  /\ header'.seq \in Requests
               /\ c2s' # << >> /\ Follows(header'.seq, Head(c2s'))
    <3>1. /\ Len(c2s) \in Nat \ {0} /\ Head(c2s) = c2s[1]
          /\ Tail(c2s) \in Seq(Values) /\ Len(Tail(c2s)) = Len(c2s) - 1
          /\ \A i \in 1 .. Len(Tail(c2s)) : Tail(c2s)[i] = c2s[i + 1]
      BY <1>6, EmptySeq, HeadTailProperties DEF ReadHeader, StreamInv
    <3>2. header' = c2s[1] /\ c2s[1].type = "header"
      BY <1>6, <2>2, <3>1 DEF ReadHeader, DecodedHeader, ZeroHeader, Header
    <3>3. /\ c2s[1].seq \in Requests /\ 2 \in 1 .. Len(c2s)
          /\ Follows(c2s[1].seq, c2s[2])
      BY <3>1, <3>2 DEF RequestInv, Linked
    <3>4. Tail(c2s) # << >> /\ Head(Tail(c2s)) = c2s[2]
      <4>1. Len(Tail(c2s)) # 0 /\ 1 \in 1 .. Len(Tail(c2s))
        BY <3>1, <3>3
      <4>2. Tail(c2s) # << >> /\ Head(Tail(c2s)) = Tail(c2s)[1]
        BY <3>1, <4>1, FirstValue
      <4>3. QED
        BY <3>1, <4>1, <4>2
    <3>5. QED
      BY <1>6, <3>2, <3>3, <3>4 DEF ReadHeader
  <2>3. QED
    BY <2>1, <2>2 DEF RequestInv, Follows, RequestBody, RequestHeader, Method, Orphaned
<1>7. CASE ReadPanics
  <2>1. Linked(c2s)' /\ UNCHANGED <<kind, held, input, waiter>>
    BY <1>7, RequestTaken DEF ReadPanics
  <2>2. QED
    BY <1>7, <2>1 DEF ReadPanics, RequestInv, RequestHeader, Method, Orphaned
<1>8. CASE ReadHeaderFails
  BY <1>8, RequestFrame DEF ReadHeaderFails, ReaderFrame
<1>9. CASE ReadBody
  <2> DEFINE q == header.seq
  <2>1. q \in Requests /\ Follows(q, Head(c2s)) /\ c2s # << >>
    BY <1>9 DEF ReadBody, RequestInv
  <2>2. Linked(c2s)' /\ UNCHANGED <<kind, held>>
    BY <1>9, RequestTaken DEF ReadBody
  <2>3. \/ DecodedBody(Head(c2s)) = {q}
        \/ kind[q] = "unsent" /\ DecodedBody(Head(c2s)) = ZeroData
    BY <2>1 DEF Follows, DecodedBody, RequestBody, Body
  <2>4. ASSUME NEW r \in Requests, waiter'[r] # "none"
        PROVE  input'[r] = {r} \/ (kind[r] = "unsent" /\ input'[r] = ZeroData)
    BY <1>9, <2>1, <2>3, <2>4 DEF ReadBody, RequestInv, TypeOK
  <2>5. QED
    BY <1>9, <2>2, <2>4 DEF ReadBody, RequestInv, RequestHeader, Method, Orphaned
<1>10. CASE ReadBodyFails
  <2>1. CASE c2s' = c2s
    BY <1>10, <2>1, RequestFrame DEF ReadBodyFails, ReaderFrame
  <2>2. CASE c2s # << >> /\ c2s' = Tail(c2s)
    <3>1. Linked(c2s)' /\ UNCHANGED <<kind, held, input, waiter>>
      BY <1>10, <2>2, RequestTaken DEF ReadBodyFails, ReaderFrame
    <3>2. QED
      BY <1>10, <3>1 DEF ReadBodyFails, RequestInv, RequestHeader, Method, Orphaned
  <2>3. QED
    BY <1>10, <2>1, <2>2 DEF ReadBodyFails
<1>11. CASE RefuseHeader
  BY <1>11, RequestFrame DEF RefuseHeader
<1>12. CASE RefuseBody
  BY <1>12, RequestFrame DEF RefuseBody
<1>13. CASE Drain
  BY <1>13, RequestFrame DEF Drain, ReaderFrame
<1>14. ASSUME NEW r \in Requests, MethodReturns(r) PROVE RequestInv'
  BY <1>14, RequestFrame DEF MethodReturns, HandlerFrame
<1>15. ASSUME NEW r \in Requests, CallInTime(r) PROVE RequestInv'
  BY <1>15, RequestFrame DEF CallInTime, HandlerFrame
<1>16. ASSUME NEW r \in Requests, CallTimesOut(r) PROVE RequestInv'
  BY <1>16, RequestFrame DEF CallTimesOut, HandlerFrame
<1>17. ASSUME NEW r \in Requests, WorkerSendsHeader(r) PROVE RequestInv'
  BY <1>17, RequestFrame DEF WorkerSendsHeader, HandlerFrame
<1>18. ASSUME NEW r \in Requests, WorkerSendsBody(r) PROVE RequestInv'
  BY <1>18, RequestFrame DEF WorkerSendsBody, HandlerFrame
<1>19. ASSUME NEW r \in Requests, ResponseSent(r) PROVE RequestInv'
  BY <1>19, RequestFrame DEF ResponseSent, HandlerFrame
<1>20. ASSUME NEW r \in Requests, WaiterSendsHeader(r) PROVE RequestInv'
  BY <1>20, RequestFrame DEF WaiterSendsHeader, HandlerFrame
<1>21. ASSUME NEW r \in Requests, WaiterSendsBody(r) PROVE RequestInv'
  BY <1>21, RequestFrame DEF WaiterSendsBody, HandlerFrame
<1>22. CASE UNCHANGED vars
  BY <1>22, RequestFrame DEF vars
<1>23. QED
  BY <1>1, <1>2, <1>3, <1>4, <1>5, <1>6, <1>7, <1>8, <1>9, <1>10, <1>11,
     <1>12, <1>13, <1>14, <1>15, <1>16, <1>17, <1>18, <1>19, <1>20, <1>21,
     <1>22
  DEF Next, ClientStep, ReaderStep, HandlerStep, Quiescent

\* A step after which the same handlers are counted.
LEMMA WaitFrame ==
    ASSUME WaitInv, Waiting' = Waiting, UNCHANGED <<waitGroup, closed>>,
           reader' = "handshake" => reader = "handshake" /\ UNCHANGED waiter,
           reader' = "closed" => UNCHANGED <<reader, header>>,
           reader = "closed" => reader' = "closed"
    PROVE  WaitInv'
  BY DEF WaitInv

\* A handler calls waitGroup.Done.
LEMMA WaitDone ==
    ASSUME TypeOK, WaitInv, NEW r \in Requests,
           waiter[r] \notin {"none", "returned"},
           waiter' = [waiter EXCEPT ![r] = "returned"],
           waitGroup' = waitGroup - 1,
           UNCHANGED <<closed, reader, header>>
    PROVE  WaitInv'
<1>1. r \in Waiting /\ Waiting' = Waiting \ {r}
  BY DEF Waiting, TypeOK
<1>2. Cardinality(Waiting') = Cardinality(Waiting) - 1
  BY <1>1, WaitGroupCounts, FS_RemoveElement
<1>3. QED
  BY <1>1, <1>2 DEF WaitInv, TypeOK

\* What waitGroup counts, and that the connection is closed only at zero.
LEMMA WaitStep ==
    ASSUME TypeOK, RequestInv, HandlerInv, WaitInv, PlaceInv, [Next]_vars
    PROVE  WaitInv'
<1>1. ASSUME NEW r \in Requests, ClientSend(r) PROVE WaitInv'
  BY <1>1, WaitFrame DEF ClientSend, Waiting
<1>2. ASSUME NEW r \in Requests, ClientHolds(r) PROVE WaitInv'
  BY <1>2, WaitFrame DEF ClientHolds, Waiting
<1>3. CASE ClientHangup
  BY <1>3, WaitFrame DEF ClientHangup, Waiting
<1>4. CASE Handshake
  BY <1>4, WaitFrame DEF Handshake, ReaderFrame, Waiting
<1>5. CASE HandshakeRejects
  BY <1>5 DEF HandshakeRejects, ReaderFrame, WaitInv, Waiting
<1>6. CASE ReadHeader
  BY <1>6, WaitFrame DEF ReadHeader, ReaderFrame, Waiting
<1>7. CASE ReadPanics
  BY <1>7 DEF ReadPanics, WaitInv, Waiting
<1>8. CASE ReadHeaderFails
  BY <1>8, WaitFrame DEF ReadHeaderFails, ReaderFrame, Waiting
<1>9. CASE ReadBody
  <2> DEFINE q == header.seq
  <2>1. q \in Requests /\ waiter[q] = "none"
    BY <1>9 DEF ReadBody, RequestInv, PlaceInv, InHand
  <2>2. waiter' = [waiter EXCEPT ![q] = "select"]
    BY <1>9 DEF ReadBody
  <2> HIDE DEF q
  <2>3. q \notin Waiting /\ Waiting' = Waiting \cup {q}
    BY <2>1, <2>2 DEF Waiting, TypeOK
  <2>4. Cardinality(Waiting') = Cardinality(Waiting) + 1
    BY <2>3, WaitGroupCounts, FS_AddElement
  <2>5. QED
    BY <1>9, <2>4 DEF ReadBody, WaitInv
<1>10. CASE ReadBodyFails
  BY <1>10, WaitFrame DEF ReadBodyFails, ReaderFrame, Waiting
<1>11. CASE RefuseHeader
  BY <1>11, WaitFrame DEF RefuseHeader, Waiting
<1>12. CASE RefuseBody
  BY <1>12, WaitFrame DEF RefuseBody, Waiting
<1>13. CASE Drain
  <2>1. Waiting = {}
    BY <1>13, WaitGroupCounts, FS_EmptySet DEF Drain, WaitInv
  <2>2. QED
    BY <1>13, <2>1 DEF Drain, ReaderFrame, WaitInv, Waiting
<1>14. ASSUME NEW r \in Requests, MethodReturns(r) PROVE WaitInv'
  BY <1>14, WaitFrame DEF MethodReturns, HandlerFrame, Waiting
<1>15. ASSUME NEW r \in Requests, CallInTime(r) PROVE WaitInv'
  <2>1. Waiting' = Waiting /\ reader # "handshake"
    BY <1>15 DEF CallInTime, Waiting, WaitInv, TypeOK
  <2>2. QED
    BY <1>15, <2>1, WaitFrame DEF CallInTime, HandlerFrame
<1>16. ASSUME NEW r \in Requests, CallTimesOut(r) PROVE WaitInv'
  <2>1. Waiting' = Waiting /\ reader # "handshake"
    BY <1>16 DEF CallTimesOut, Waiting, WaitInv, TypeOK
  <2>2. QED
    BY <1>16, <2>1, WaitFrame DEF CallTimesOut, HandlerFrame
<1>17. ASSUME NEW r \in Requests, WorkerSendsHeader(r) PROVE WaitInv'
  BY <1>17, WaitFrame DEF WorkerSendsHeader, HandlerFrame, Waiting
<1>18. ASSUME NEW r \in Requests, WorkerSendsBody(r) PROVE WaitInv'
  BY <1>18, WaitFrame DEF WorkerSendsBody, HandlerFrame, Waiting
<1>19. ASSUME NEW r \in Requests, ResponseSent(r) PROVE WaitInv'
  <2>1. CASE limit = 0
    <3>1. Waiting' = Waiting /\ reader # "handshake"
      BY <1>19, <2>1 DEF ResponseSent, Waiting, WaitInv, TypeOK
    <3>2. QED
      BY <1>19, <2>1, <3>1, WaitFrame DEF ResponseSent, HandlerFrame
  <2>2. CASE limit # 0
    BY <1>19, <2>2, WaitDone DEF ResponseSent, HandlerFrame
  <2>3. QED
    BY <2>1, <2>2
<1>20. ASSUME NEW r \in Requests, WaiterSendsHeader(r) PROVE WaitInv'
  <2>1. Waiting' = Waiting /\ reader # "handshake"
    BY <1>20 DEF WaiterSendsHeader, Waiting, WaitInv, TypeOK
  <2>2. QED
    BY <1>20, <2>1, WaitFrame DEF WaiterSendsHeader, HandlerFrame
<1>21. ASSUME NEW r \in Requests, WaiterSendsBody(r) PROVE WaitInv'
  BY <1>21, WaitDone DEF WaiterSendsBody, HandlerFrame
<1>22. CASE UNCHANGED vars
  BY <1>22, WaitFrame DEF vars, Waiting
<1>23. QED
  BY <1>1, <1>2, <1>3, <1>4, <1>5, <1>6, <1>7, <1>8, <1>9, <1>10, <1>11,
     <1>12, <1>13, <1>14, <1>15, <1>16, <1>17, <1>18, <1>19, <1>20, <1>21,
     <1>22
  DEF Next, ClientStep, ReaderStep, HandlerStep, Quiescent

-----------------------------------------------------------------------------
(* Where a request is: the steps that read from the request direction, and *)
(* those that write to the reply direction.                                *)

\* The reader takes the next value.
LEMMA InTaken ==
    ASSUME StreamInv, c2s # << >>, c2s' = Tail(c2s), UNCHANGED held, NEW n
    PROVE  /\ Occurs(In, n)' => Occurs(In, n)
           /\ Once(In, n) => Once(In, n)'
           /\ IsHeader(Head(c2s), n) => Occurs(In, n)
           /\ Once(In, n) /\ IsHeader(Head(c2s), n) => ~Occurs(In, n)'
<1> USE DEF StreamInv
<1>1. /\ Tail(c2s) \in Seq(Values)
      /\ Occurs(Tail(c2s), n) => Occurs(c2s, n)
      /\ IsHeader(Head(c2s), n) => Occurs(c2s, n)
      /\ Once(c2s, n) => Once(Tail(c2s), n)
      /\ Once(c2s, n) /\ IsHeader(Head(c2s), n) => ~Occurs(Tail(c2s), n)
  BY OccursTail
<1>2. /\ Occurs(c2s \o held, n) <=> Occurs(c2s, n) \/ Occurs(held, n)
      /\ Once(c2s \o held, n) <=> /\ Once(c2s, n) /\ Once(held, n)
                                  /\ ~(Occurs(c2s, n) /\ Occurs(held, n))
  BY OccursConcat
<1>3. /\ Occurs(Tail(c2s) \o held, n) <=> Occurs(Tail(c2s), n) \/ Occurs(held, n)
      /\ Once(Tail(c2s) \o held, n) <=>
           /\ Once(Tail(c2s), n) /\ Once(held, n)
           /\ ~(Occurs(Tail(c2s), n) /\ Occurs(held, n))
  BY <1>1, OccursConcat
<1>4. In = c2s \o held /\ In' = Tail(c2s) \o held
  BY DEF In
<1>5. /\ Occurs(In, n)' <=> Occurs(Tail(c2s) \o held, n)
      /\ Once(In, n)' <=> Once(Tail(c2s) \o held, n)
  BY <1>4 DEF Occurs, Once
<1>6. QED
  BY <1>1, <1>2, <1>3, <1>4, <1>5

\* send_response encodes a header.
LEMMA OutHeader ==
    ASSUME StreamInv, NEW p, NEW h \in Values, EncodeHeader(p, h), NEW n
    PROVE  /\ Occurs(Out, n)' <=> Occurs(Out, n) \/ IsHeader(h, n)
           /\ Once(Out, n)' <=> Once(Out, n) /\ ~(Occurs(Out, n) /\ IsHeader(h, n))
<1> USE DEF StreamInv
<1>1. /\ Append(buffer, h) \in Seq(Values)
      /\ Occurs(Append(buffer, h), n) <=> Occurs(buffer, n) \/ IsHeader(h, n)
      /\ Once(Append(buffer, h), n) <=>
           Once(buffer, n) /\ ~(Occurs(buffer, n) /\ IsHeader(h, n))
  BY OccursAppend
<1>2. /\ Occurs(s2c \o buffer, n) <=> Occurs(s2c, n) \/ Occurs(buffer, n)
      /\ Once(s2c \o buffer, n) <=> /\ Once(s2c, n) /\ Once(buffer, n)
                                    /\ ~(Occurs(s2c, n) /\ Occurs(buffer, n))
  BY OccursConcat
<1>3. LET t == Append(buffer, h)
      IN  /\ Occurs(s2c \o t, n) <=> Occurs(s2c, n) \/ Occurs(t, n)
          /\ Once(s2c \o t, n) <=> /\ Once(s2c, n) /\ Once(t, n)
                                   /\ ~(Occurs(s2c, n) /\ Occurs(t, n))
  BY <1>1, OccursConcat
<1>4. Out = s2c \o buffer /\ Out' = s2c \o Append(buffer, h)
  BY DEF Out, EncodeHeader
<1>5. /\ Occurs(Out, n)' <=> Occurs(s2c \o Append(buffer, h), n)
      /\ Once(Out, n)' <=> Once(s2c \o Append(buffer, h), n)
  BY <1>4 DEF Occurs, Once
<1>6. QED
  BY <1>1, <1>2, <1>3, <1>4, <1>5

\* It encodes a body and flushes, or the connection swallows both.
LEMMA OutBody ==
    ASSUME StreamInv, NEW b \in Values, b.type = "body", EncodeBody(b), NEW n
    PROVE  /\ Occurs(Out, n)' => Occurs(Out, n)
           /\ Once(Out, n) => Once(Out, n)'
<1> USE DEF StreamInv
<1> DEFINE t == Append(buffer, b)
<1>1. /\ t \in Seq(Values)
      /\ Occurs(t, n) <=> Occurs(buffer, n)
      /\ Once(t, n) <=> Once(buffer, n)
  BY OccursAppend DEF IsHeader
<1>2. /\ Occurs(s2c \o buffer, n) <=> Occurs(s2c, n) \/ Occurs(buffer, n)
      /\ Once(s2c \o buffer, n) <=> /\ Once(s2c, n) /\ Once(buffer, n)
                                    /\ ~(Occurs(s2c, n) /\ Occurs(buffer, n))
  BY OccursConcat
<1>3. /\ Occurs(s2c \o t, n) <=> Occurs(s2c, n) \/ Occurs(t, n)
      /\ Once(s2c \o t, n) <=> /\ Once(s2c, n) /\ Once(t, n)
                               /\ ~(Occurs(s2c, n) /\ Occurs(t, n))
  BY <1>1, OccursConcat
<1>4. Out = s2c \o buffer /\ (Out' = s2c \o t \/ Out' = s2c)
  <2>1. s2c \o t \in Seq(Values)
    BY <1>1, ConcatProperties
  <2>2. s2c \o t \o << >> = s2c \o t /\ s2c \o << >> = s2c
    BY <2>1, ConcatEmptySeq
  <2>3. QED
    BY <2>2 DEF Out, EncodeBody, Flush
<1> HIDE DEF t
<1>5. ASSUME NEW s, Out' = s
      PROVE  (Occurs(Out, n)' <=> Occurs(s, n)) /\ (Once(Out, n)' <=> Once(s, n))
  BY <1>5 DEF Occurs, Once
<1>6. QED
  BY <1>1, <1>2, <1>3, <1>4, <1>5

\* The client writes a request, or the header of one that it cannot send.
LEMMA InWritten ==
    ASSUME TypeOK, StreamInv, NEW r \in Requests,
           ClientSend(r) \/ ClientHolds(r), NEW n
    PROVE  /\ Occurs(In, n)' <=> Occurs(In, n) \/ n = r
           /\ Once(In, n)' <=> Once(In, n) /\ ~(Occurs(In, n) /\ n = r)
<1> USE DEF StreamInv
<1>1. /\ RequestHeader(r) \in Values /\ RequestBody(r) \in Values
      /\ IsHeader(RequestHeader(r), n) <=> n = r
      /\ ~IsHeader(RequestBody(r), n)
  BY Writing DEF IsHeader, RequestHeader, RequestBody, Header, Body
<1>2. ASSUME NEW t \in Seq(Values), In' = In \o t,
             Occurs(t, n) <=> n = r, Once(t, n)
      PROVE  /\ Occurs(In, n)' <=> Occurs(In, n) \/ n = r
             /\ Once(In, n)' <=> Once(In, n) /\ ~(Occurs(In, n) /\ n = r)
  <2>1. In \in Seq(Values)
    BY ConcatProperties DEF In
  <2>2. /\ Occurs(In \o t, n) <=> Occurs(In, n) \/ Occurs(t, n)
        /\ Once(In \o t, n) <=> /\ Once(In, n) /\ Once(t, n)
                                /\ ~(Occurs(In, n) /\ Occurs(t, n))
    BY <2>1, OccursConcat
  <2>3. (Occurs(In, n)' <=> Occurs(In \o t, n)) /\ (Once(In, n)' <=> Once(In \o t, n))
    BY <1>2 DEF Occurs, Once
  <2>4. QED
    BY <1>2, <2>2, <2>3
<1>3. CASE ClientSend(r)
  <2> DEFINE t == <<RequestHeader(r), RequestBody(r)>>
  <2>1. t \in Seq(Values) /\ (Occurs(t, n) <=> n = r) /\ Once(t, n)
    BY <1>1, OccursPair
  <2> HIDE DEF t
  <2>2. c2s' = c2s \o held \o t /\ held' = << >>
    BY <1>3 DEF ClientSend, t
  <2>3. c2s \o held \o t \in Seq(Values)
    BY <2>1, ConcatProperties
  <2>4. In' = In \o t
    BY <2>2, <2>3, ConcatEmptySeq DEF In
  <2>5. QED
    BY <1>2, <2>1, <2>4
<1>4. CASE ClientHolds(r)
  <2> DEFINE t == <<RequestHeader(r)>>
  <2>1. t \in Seq(Values) /\ (Occurs(t, n) <=> n = r) /\ Once(t, n)
    BY <1>1, OccursSingle
  <2>2. held' = held \o t /\ c2s' = c2s
    BY <1>1, <1>4, AppendIsConcat DEF ClientHolds
  <2> HIDE DEF t
  <2>3. (c2s \o held) \o t = c2s \o (held \o t)
    <3>1. c2s \in Seq(Values) /\ held \in Seq(Values) /\ t \in Seq(Values)
      BY <2>1
    <3>2. QED
      BY <3>1, ConcatAssociative
  <2>4. In' = In \o t
    BY <2>2, <2>3 DEF In
  <2>5. QED
    BY <1>2, <2>1, <2>4
<1>5. QED
  BY <1>3, <1>4

\* The handshake's decoder swallows a prefix.
LEMMA InSwallowed ==
    ASSUME TypeOK, StreamInv, Handshake, NEW n
    PROVE  /\ Occurs(In, n)' => Occurs(In, n)
           /\ Once(In, n) => Once(In, n)'
<1> USE DEF StreamInv
<1>1. Fragment \in Values /\ c2s' \in ReadAhead(c2s, Overread)
  BY Writing DEF Handshake
<1>2. /\ c2s' \in Seq(Values)
      /\ \A t \in ReadAhead(c2s, Overread) : Occurs(t, n) => Occurs(c2s, n)
      /\ \A t \in ReadAhead(c2s, Overread) : Once(c2s, n) => Once(t, n)
  BY <1>1, OccursReadAhead
<1>3. PICK t \in Seq(Values) : /\ c2s' = t
                               /\ Occurs(t, n) => Occurs(c2s, n)
                               /\ Once(c2s, n) => Once(t, n)
  BY <1>1, <1>2
<1>4. /\ Occurs(c2s \o held, n) <=> Occurs(c2s, n) \/ Occurs(held, n)
      /\ Once(c2s \o held, n) <=> /\ Once(c2s, n) /\ Once(held, n)
                                  /\ ~(Occurs(c2s, n) /\ Occurs(held, n))
  BY OccursConcat
<1>5. /\ Occurs(t \o held, n) <=> Occurs(t, n) \/ Occurs(held, n)
      /\ Once(t \o held, n) <=> /\ Once(t, n) /\ Once(held, n)
                                /\ ~(Occurs(t, n) /\ Occurs(held, n))
  BY OccursConcat
<1>6. In = c2s \o held /\ In' = t \o held
  BY <1>3 DEF In, Handshake, ReaderFrame
<1>7. /\ Occurs(In, n)' <=> Occurs(t \o held, n)
      /\ Once(In, n)' <=> Once(t \o held, n)
  BY <1>6 DEF Occurs, Once
<1>8. QED
  BY <1>3, <1>4, <1>5, <1>6, <1>7

\* A step that moves no request on, or ends it.
LEMMA PlaceFrame ==
    ASSUME PlaceInv, submitted' = submitted,
           \A r \in Requests :
               /\ Occurs(In, r)' => Occurs(In, r)
               /\ Once(In, r) => Once(In, r)'
               /\ Occurs(Out, r)' => Occurs(Out, r)
               /\ Once(Out, r) => Once(Out, r)'
               /\ InHand(r)' => InHand(r)
               /\ waiter[r] = "none" => waiter'[r] = "none"
               /\ Answering(r)' => Answering(r)
    PROVE  PlaceInv'
  BY DEF PlaceInv

\* The streams are as they were.
LEMMA SameIn ==
    ASSUME UNCHANGED <<c2s, held>>, NEW n
    PROVE  (Occurs(In, n)' <=> Occurs(In, n)) /\ (Once(In, n)' <=> Once(In, n))
  BY DEF In, Occurs, Once

\* Replies stay where they are while nothing is encoded or read.
LEMMA SameOut ==
    ASSUME UNCHANGED <<s2c, buffer>>, NEW n
    PROVE  (Occurs(Out, n)' <=> Occurs(Out, n)) /\ (Once(Out, n)' <=> Once(Out, n))
  BY DEF Out, Occurs, Once

\* A request stays in one place.
LEMMA PlaceStep ==
    ASSUME TypeOK, StreamInv, RequestInv, HandlerInv, PlaceInv, [Next]_vars
    PROVE  PlaceInv'
<1> USE DEF InHand, Answering
<1>1. ASSUME NEW r \in Requests, ClientSend(r) \/ ClientHolds(r) PROVE PlaceInv'
  <2>1. r \notin submitted /\ submitted' = submitted \cup {r}
    BY <1>1 DEF ClientSend, ClientHolds
  <2>2. UNCHANGED <<s2c, buffer, reader, header, waiter, worker>>
    BY <1>1 DEF ClientSend, ClientHolds
  <2>3. QED
    BY <1>1, <2>1, <2>2, InWritten, SameOut DEF PlaceInv
<1>2. CASE ClientHangup
  BY <1>2, PlaceFrame, SameIn, SameOut DEF ClientHangup
<1>3. CASE Handshake
  BY <1>3, PlaceFrame, InSwallowed, SameOut DEF Handshake, ReaderFrame
<1>4. CASE HandshakeRejects
  BY <1>4, PlaceFrame, SameIn, SameOut DEF HandshakeRejects, ReaderFrame
<1>5. CASE ReadHeader
  <2>1. /\ reader = "header" /\ c2s # << >> /\ c2s' = Tail(c2s)
        /\ header' = DecodedHeader(Head(c2s))
        /\ UNCHANGED <<submitted, held, s2c, buffer, waiter, worker>>
    BY <1>5 DEF ReadHeader, ReaderFrame
  <2>2. ASSUME NEW r \in Requests, header'.seq = r
        PROVE  IsHeader(Head(c2s), r)
    BY <2>1, <2>2 DEF DecodedHeader, ZeroHeader, Header, IsHeader
  <2>3. QED
    BY <2>1, <2>2, InTaken, SameOut DEF PlaceInv
<1>6. CASE ReadPanics
  BY <1>6, PlaceFrame, InTaken, SameOut DEF ReadPanics
<1>7. CASE ReadHeaderFails
  BY <1>7, PlaceFrame, SameIn, SameOut DEF ReadHeaderFails, ReaderFrame
<1>8. CASE ReadBody
  <2> DEFINE q == header.seq
  <2>1. q \in Requests /\ InHand(q)
    BY <1>8 DEF ReadBody, RequestInv
  <2>2. /\ c2s # << >> /\ c2s' = Tail(c2s) /\ reader' = "header"
        /\ UNCHANGED <<submitted, held, s2c, buffer, header>>
        /\ waiter' = [waiter EXCEPT ![q] = "select"]
        /\ worker' = [worker EXCEPT ![q] = "calling"]
    BY <1>8 DEF ReadBody
  <2>3. ASSUME NEW r \in Requests, r # q
        PROVE  waiter'[r] = waiter[r] /\ worker'[r] = worker[r]
    BY <2>2, <2>3 DEF TypeOK
  <2>4. waiter'[q] = "select"
    BY <2>1, <2>2 DEF TypeOK
  <2> HIDE DEF q
  <2>5. QED
    BY <2>1, <2>2, <2>3, <2>4, InTaken, SameOut DEF PlaceInv
<1>9. CASE ReadBodyFails
  <2>1. CASE c2s' = c2s
    BY <1>9, <2>1, PlaceFrame, SameIn, SameOut DEF ReadBodyFails, ReaderFrame
  <2>2. CASE c2s # << >> /\ c2s' = Tail(c2s)
    BY <1>9, <2>2, PlaceFrame, InTaken, SameOut DEF ReadBodyFails, ReaderFrame
  <2>3. QED
    BY <1>9, <2>1, <2>2 DEF ReadBodyFails
<1>10. CASE RefuseHeader
  <2> DEFINE h == Header(header.seq, header.method, TRUE)
  <2>1. h \in Values /\ \A n : IsHeader(h, n) <=> n = header.seq
    BY Writing DEF StreamInv, IsHeader, Header
  <2>2. /\ EncodeHeader(Reader, h) /\ reader = "refuse" /\ reader' = "refusing"
        /\ UNCHANGED <<submitted, c2s, held, waiter, worker>>
    BY <1>10 DEF RefuseHeader
  <2> HIDE DEF h
  <2>3. QED
    BY <2>1, <2>2, SameIn, OutHeader DEF PlaceInv
<1>11. CASE RefuseBody
  <2>1. InvalidRequest \in Values /\ InvalidRequest.type = "body"
    BY Writing DEF InvalidRequest, Body
  <2>2. QED
    BY <1>11, <2>1, PlaceFrame, SameIn, OutBody DEF RefuseBody
<1>12. CASE Drain
  BY <1>12, PlaceFrame, SameIn, SameOut DEF Drain, ReaderFrame
<1>13. ASSUME NEW r \in Requests, MethodReturns(r) PROVE PlaceInv'
  BY <1>13, PlaceFrame, SameIn, SameOut DEF MethodReturns, HandlerFrame, TypeOK
<1>14. ASSUME NEW r \in Requests, CallInTime(r) PROVE PlaceInv'
  BY <1>14, PlaceFrame, SameIn, SameOut DEF CallInTime, HandlerFrame, TypeOK
<1>15. ASSUME NEW r \in Requests, CallTimesOut(r) PROVE PlaceInv'
  BY <1>15, PlaceFrame, SameIn, SameOut DEF CallTimesOut, HandlerFrame, TypeOK
<1>16. ASSUME NEW r \in Requests, WorkerSendsHeader(r) \/ WaiterSendsHeader(r)
       PROVE  PlaceInv'
  <2>1. ReplyHeader(r) \in Values /\ \A n : IsHeader(ReplyHeader(r), n) <=> n = r
    BY Writing DEF ReplyHeader, IsHeader, Header
  <2>2. /\ Answering(r) /\ waiter[r] # "none" /\ ~Answering(r)'
        /\ \A q \in Requests \ {r} :
             waiter'[q] = waiter[q] /\ worker'[q] = worker[q]
        /\ UNCHANGED <<submitted, c2s, held, reader, header>>
    BY <1>16 DEF WorkerSendsHeader, WaiterSendsHeader, HandlerFrame, TypeOK, HandlerInv
  <2>3. \E p : EncodeHeader(p, ReplyHeader(r))
    BY <1>16 DEF WorkerSendsHeader, WaiterSendsHeader
  <2>4. ASSUME NEW n
        PROVE  /\ Occurs(Out, n)' <=> Occurs(Out, n) \/ n = r
               /\ Once(Out, n)' <=> Once(Out, n) /\ ~(Occurs(Out, n) /\ n = r)
    BY <2>1, <2>3, OutHeader
  <2>5. QED
    BY <2>2, <2>4, SameIn DEF PlaceInv
<1>17. ASSUME NEW r \in Requests, WorkerSendsBody(r) PROVE PlaceInv'
  <2>1. ReplyBody(r) \in Values /\ ReplyBody(r).type = "body"
    BY Writing DEF ReplyBody, InvalidRequest, Body
  <2>2. ASSUME NEW n
        PROVE  /\ Occurs(Out, n)' => Occurs(Out, n)
               /\ Once(Out, n) => Once(Out, n)'
    BY <1>17, <2>1, SameOut, OutBody DEF WorkerSendsBody, EncodeBodyFails
  <2>3. QED
    BY <1>17, <2>2, PlaceFrame, SameIn DEF WorkerSendsBody, HandlerFrame, TypeOK
<1>18. ASSUME NEW r \in Requests, ResponseSent(r) PROVE PlaceInv'
  BY <1>18, PlaceFrame, SameIn, SameOut DEF ResponseSent, HandlerFrame, TypeOK
<1>19. ASSUME NEW r \in Requests, WaiterSendsBody(r) PROVE PlaceInv'
  <2>1. InvalidRequest \in Values /\ InvalidRequest.type = "body"
    BY Writing DEF InvalidRequest, Body
  <2>2. QED
    BY <1>19, <2>1, PlaceFrame, SameIn, OutBody
    DEF WaiterSendsBody, HandlerFrame, TypeOK
<1>20. CASE UNCHANGED vars
  BY <1>20, PlaceFrame, SameIn, SameOut DEF vars
<1>21. QED
  BY <1>1, <1>2, <1>3, <1>4, <1>5, <1>6, <1>7, <1>8, <1>9, <1>10, <1>11,
     <1>12, <1>13, <1>14, <1>15, <1>16, <1>17, <1>18, <1>19, <1>20
  DEF Next, ClientStep, ReaderStep, HandlerStep, Quiescent

-----------------------------------------------------------------------------
(* The reply direction. *)

\* One more reply, of a header and its body.
LEMMA ReplyAppended ==
    ASSUME NEW V, NEW s \in Seq(V), NEW h \in V, NEW b \in V, Frame(h, b),
           Len(s) % 2 = 0,
           \A i \in 1 .. Len(s) : i % 2 = 1 => Frame(s[i], s[i + 1])
    PROVE  LET t == s \o <<h, b>>
           IN  /\ Len(t) % 2 = 0
               /\ \A i \in 1 .. Len(t) : i % 2 = 1 => Frame(t[i], t[i + 1])
<1> DEFINE t == s \o <<h, b>>
<1>1. /\ Len(s) \in Nat /\ Len(t) = Len(s) + 2
      /\ \A i \in 1 .. Len(s) : t[i] = s[i]
      /\ t[Len(s) + 1] = h /\ t[Len(s) + 2] = b
  OBVIOUS
<1> HIDE DEF t
<1>2. Len(t) % 2 = 0
  BY <1>1
<1>3. ASSUME NEW i \in 1 .. Len(t), i % 2 = 1 PROVE Frame(t[i], t[i + 1])
  <2>1. CASE i \in 1 .. Len(s)
    <3>1. i # Len(s)
      BY <1>3
    <3>2. i + 1 \in 1 .. Len(s)
      BY <1>1, <2>1, <3>1
    <3>3. QED
      BY <1>1, <1>3, <2>1, <3>2
  <2>2. CASE i = Len(s) + 1
    BY <1>1, <2>2
  <2>3. CASE i = Len(s) + 2
    BY <1>1, <1>3, <2>3
  <2>4. QED
    BY <1>1, <2>1, <2>2, <2>3
<1>4. QED
  BY <1>2, <1>3 DEF t

\* A step that sends nothing.
LEMMA FrameKept ==
    ASSUME FrameInv, UNCHANGED <<kind, s2c, buffer, sendMutex>>,
           reader' = "refusing" => UNCHANGED <<reader, header>>,
           \A r \in Requests : worker'[r] = "sending" \/ waiter'[r] = "sending" =>
               /\ worker[r] = "sending" \/ waiter[r] = "sending"
               /\ failed'[r] = failed[r]
    PROVE  FrameInv'
<1> SUFFICES ASSUME EverythingMarshals PROVE FrameInv'
  BY DEF FrameInv, EverythingMarshals
<1>1. /\ Len(s2c') % 2 = 0
      /\ \A i \in 1 .. Len(s2c') : i % 2 = 1 => Frame(s2c[i], s2c[i + 1])'
  BY DEF FrameInv, Frame
<1>2. ASSUME NEW r \in Requests, worker'[r] = "sending" \/ waiter'[r] = "sending"
      PROVE  buffer' = <<ReplyHeader(r)'>>
  <2>1. ReplyHeader(r)' = ReplyHeader(r)
    BY <1>2 DEF ReplyHeader, Method
  <2>2. QED
    BY <1>2, <2>1 DEF FrameInv
<1>3. QED
  BY <1>1, <1>2 DEF FrameInv

\* send_response encodes the header of the goroutine that takes sendMutex.
LEMMA FrameHeader ==
    ASSUME MutexInv', FrameInv, StreamInv, NEW p, NEW h, EncodeHeader(p, h),
           p # Nobody, UNCHANGED kind,
           p = Reader => h = Header(header.seq, header.method, TRUE)',
           \A r \in Requests : p = Worker(r) \/ p = Waiter(r) =>
               h = ReplyHeader(r)'
    PROVE  FrameInv'
<1> SUFFICES ASSUME EverythingMarshals PROVE FrameInv'
  BY DEF FrameInv, EverythingMarshals
<1>1. buffer = << >> /\ sendMutex' = p /\ s2c' = s2c
  BY DEF FrameInv, EncodeHeader
<1>2. buffer' = <<h>>
  BY <1>1 DEF EncodeHeader
<1>3. /\ Len(s2c') % 2 = 0
      /\ \A i \in 1 .. Len(s2c') : i % 2 = 1 => Frame(s2c[i], s2c[i + 1])'
  BY <1>1 DEF FrameInv, Frame
<1>4. /\ reader' = "refusing" => p = Reader
      /\ \A r \in Requests : worker'[r] = "sending" => p = Worker(r)
      /\ \A r \in Requests : waiter'[r] = "sending" => p = Waiter(r)
  BY <1>1 DEF MutexInv
<1>5. QED
  BY <1>1, <1>2, <1>3, <1>4 DEF FrameInv

\* It encodes the body that belongs to it, and releases sendMutex.
LEMMA FrameBody ==
    ASSUME MutexInv', FrameInv, StreamInv, UNCHANGED kind,
           NEW b \in Values, EncodeBody(b),
           EverythingMarshals => \E h \in Values : buffer = <<h>> /\ Frame(h, b)
    PROVE  FrameInv'
<1> SUFFICES ASSUME EverythingMarshals PROVE FrameInv'
  BY DEF FrameInv, EverythingMarshals
<1>1. PICK h \in Values : buffer = <<h>> /\ Frame(h, b)
  OBVIOUS
<1>2. Append(buffer, b) = <<h, b>>
  BY <1>1, HeaderAndBody
<1>3. /\ sendMutex' = Nobody /\ buffer' = << >>
      /\ s2c' = s2c \o <<h, b>> \/ s2c' = s2c
  BY <1>2 DEF EncodeBody, Flush
<1>4. /\ Len(s2c) % 2 = 0
      /\ \A i \in 1 .. Len(s2c) : i % 2 = 1 => Frame(s2c[i], s2c[i + 1])
  BY DEF FrameInv
<1>5. LET t == s2c \o <<h, b>>
      IN  /\ Len(t) % 2 = 0
          /\ \A i \in 1 .. Len(t) : i % 2 = 1 => Frame(t[i], t[i + 1])
  BY <1>1, <1>4, ReplyAppended DEF StreamInv
<1>6. ASSUME NEW t, s2c' = t, Len(t) % 2 = 0,
             \A i \in 1 .. Len(t) : i % 2 = 1 => Frame(t[i], t[i + 1])
      PROVE  /\ Len(s2c') % 2 = 0
             /\ \A i \in 1 .. Len(s2c') : i % 2 = 1 => Frame(s2c[i], s2c[i + 1])'
  BY <1>6 DEF Frame
<1>7. /\ Len(s2c') % 2 = 0
      /\ \A i \in 1 .. Len(s2c') : i % 2 = 1 => Frame(s2c[i], s2c[i + 1])'
  BY <1>3, <1>4, <1>5, <1>6
<1>8. /\ reader' # "refusing"
      /\ \A r \in Requests : worker'[r] # "sending" /\ waiter'[r] # "sending"
  BY <1>3 DEF MutexInv, Nobody, Reader, Worker, Waiter
<1>9. QED
  BY <1>3, <1>7, <1>8 DEF FrameInv

\* Every header on the wire is followed by its body.
LEMMA FrameStep ==
    ASSUME TypeOK, StreamInv, RequestInv, MutexInv, MutexInv', HandlerInv,
           FrameInv, [Next]_vars
    PROVE  FrameInv'
<1>1. ASSUME NEW r \in Requests, ClientSend(r) PROVE FrameInv'
  BY <1>1, FrameKept DEF ClientSend
<1>2. ASSUME NEW r \in Requests, ClientHolds(r) PROVE FrameInv'
  BY <1>2, FrameKept DEF ClientHolds
<1>3. CASE ClientHangup
  BY <1>3, FrameKept DEF ClientHangup
<1>4. CASE Handshake
  BY <1>4, FrameKept DEF Handshake, ReaderFrame
<1>5. CASE HandshakeRejects
  BY <1>5, FrameKept DEF HandshakeRejects, ReaderFrame
<1>6. CASE ReadHeader
  BY <1>6, FrameKept DEF ReadHeader, ReaderFrame
<1>7. CASE ReadPanics
  BY <1>7, FrameKept DEF ReadPanics
<1>8. CASE ReadHeaderFails
  BY <1>8, FrameKept DEF ReadHeaderFails, ReaderFrame
<1>9. CASE ReadBody
  <2>1. header.seq \in Requests
    BY <1>9 DEF ReadBody, RequestInv
  <2>2. QED
    BY <1>9, <2>1, FrameKept DEF ReadBody, TypeOK
<1>10. CASE ReadBodyFails
  BY <1>10, FrameKept DEF ReadBodyFails, ReaderFrame
<1>11. CASE RefuseHeader
  <2> DEFINE h == Header(header.seq, header.method, TRUE)
  <2>1. EncodeHeader(Reader, h) /\ UNCHANGED <<kind, header>>
    BY <1>11 DEF RefuseHeader
  <2>2. /\ Reader # Nobody
        /\ \A r \in Requests : Reader # Worker(r) /\ Reader # Waiter(r)
    BY DEF Reader, Nobody, Worker, Waiter
  <2>3. h = Header(header.seq, header.method, TRUE)'
    BY <2>1
  <2> HIDE DEF h
  <2>4. QED
    BY <2>1, <2>2, <2>3, FrameHeader
<1>12. CASE RefuseBody
  <2>1. InvalidRequest \in Values /\ InvalidRequest.type = "body"
    BY Writing DEF InvalidRequest, Body
  <2>2. EncodeBody(InvalidRequest) /\ UNCHANGED kind /\ reader = "refusing"
    BY <1>12 DEF RefuseBody
  <2> DEFINE h == Header(header.seq, header.method, TRUE)
  <2>3. h \in Values /\ Frame(h, InvalidRequest)
    BY <2>1, Writing DEF Frame, Header, StreamInv
  <2> HIDE DEF h
  <2>4. EverythingMarshals => buffer = <<h>>
    BY <2>2 DEF FrameInv, h
  <2>5. QED
    BY <2>1, <2>2, <2>3, <2>4, FrameBody
<1>13. CASE Drain
  BY <1>13, FrameKept DEF Drain, ReaderFrame
<1>14. ASSUME NEW r \in Requests, MethodReturns(r) PROVE FrameInv'
  BY <1>14, FrameKept DEF MethodReturns, HandlerFrame, TypeOK
<1>15. ASSUME NEW r \in Requests, CallInTime(r) PROVE FrameInv'
  BY <1>15, FrameKept DEF CallInTime, HandlerFrame, TypeOK
<1>16. ASSUME NEW r \in Requests, CallTimesOut(r) PROVE FrameInv'
  BY <1>16, FrameKept DEF CallTimesOut, HandlerFrame, TypeOK, HandlerInv
<1>17. ASSUME NEW r \in Requests, WorkerSendsHeader(r) PROVE FrameInv'
  <2>1. /\ EncodeHeader(Worker(r), ReplyHeader(r)) /\ UNCHANGED <<kind, failed>>
        /\ ReplyHeader(r)' = ReplyHeader(r)
    BY <1>17 DEF WorkerSendsHeader, HandlerFrame, ReplyHeader, Method
  <2>2. /\ Worker(r) # Nobody /\ Worker(r) # Reader
        /\ \A q \in Requests :
             Worker(r) # Waiter(q) /\ (Worker(r) = Worker(q) => q = r)
    BY DEF Reader, Nobody, Worker, Waiter
  <2>3. ASSUME NEW q \in Requests, Worker(r) = Worker(q) \/ Worker(r) = Waiter(q)
        PROVE  ReplyHeader(r) = ReplyHeader(q)'
    BY <2>1, <2>2, <2>3
  <2>4. QED
    BY <2>1, <2>2, <2>3, FrameHeader
<1>18. ASSUME NEW r \in Requests, WorkerSendsBody(r) PROVE FrameInv'
  <2>1. ReplyHeader(r) \in Values /\ ReplyBody(r) \in Values
    BY Writing
  <2>2. UNCHANGED kind /\ (EverythingMarshals => buffer = <<ReplyHeader(r)>>)
    BY <1>18 DEF WorkerSendsBody, HandlerFrame, FrameInv
  <2>3. Frame(ReplyHeader(r), ReplyBody(r))
    <3>1. CASE failed[r]
      BY <3>1 DEF Frame, ReplyHeader, ReplyBody, Header, Body, InvalidRequest
    <3>2. CASE ~failed[r]
      <4>1. input[r] = {r} \/ (kind[r] = "unsent" /\ input[r] = ZeroData)
        BY <1>18 DEF RequestInv, HandlerInv, WorkerSendsBody
      <4>2. QED
        BY <3>2, <4>1 DEF Frame, ReplyHeader, ReplyBody, Header, Body
    <3>3. QED
      BY <3>1, <3>2
  <2>4. CASE EncodeBody(ReplyBody(r))
    BY <2>1, <2>2, <2>3, <2>4, FrameBody
  <2>5. CASE CannotMarshal(r)
    BY <2>2, <2>5 DEF CannotMarshal, FrameInv, EverythingMarshals
  <2>6. QED
    BY <1>18, <2>4, <2>5 DEF WorkerSendsBody
<1>19. ASSUME NEW r \in Requests, ResponseSent(r) PROVE FrameInv'
  BY <1>19, FrameKept DEF ResponseSent, HandlerFrame, TypeOK
<1>20. ASSUME NEW r \in Requests, WaiterSendsHeader(r) PROVE FrameInv'
  <2>1. /\ EncodeHeader(Waiter(r), ReplyHeader(r)) /\ UNCHANGED <<kind, failed>>
        /\ ReplyHeader(r)' = ReplyHeader(r)
    BY <1>20 DEF WaiterSendsHeader, HandlerFrame, ReplyHeader, Method
  <2>2. /\ Waiter(r) # Nobody /\ Waiter(r) # Reader
        /\ \A q \in Requests :
             Waiter(r) # Worker(q) /\ (Waiter(r) = Waiter(q) => q = r)
    BY DEF Reader, Nobody, Worker, Waiter
  <2>3. ASSUME NEW q \in Requests, Waiter(r) = Worker(q) \/ Waiter(r) = Waiter(q)
        PROVE  ReplyHeader(r) = ReplyHeader(q)'
    BY <2>1, <2>2, <2>3
  <2>4. QED
    BY <2>1, <2>2, <2>3, FrameHeader
<1>21. ASSUME NEW r \in Requests, WaiterSendsBody(r) PROVE FrameInv'
  <2>1. InvalidRequest \in Values /\ ReplyHeader(r) \in Values
    BY Writing
  <2>2. UNCHANGED kind /\ (EverythingMarshals => buffer = <<ReplyHeader(r)>>)
    BY <1>21 DEF WaiterSendsBody, HandlerFrame, FrameInv
  <2>3. Frame(ReplyHeader(r), InvalidRequest)
    BY <1>21 DEF WaiterSendsBody, HandlerInv, Frame, ReplyHeader, Header,
                 InvalidRequest, Body
  <2>4. QED
    BY <1>21, <2>1, <2>2, <2>3, FrameBody DEF WaiterSendsBody
<1>22. CASE UNCHANGED vars
  BY <1>22, FrameKept DEF vars
<1>23. QED
  BY <1>1, <1>2, <1>3, <1>4, <1>5, <1>6, <1>7, <1>8, <1>9, <1>10, <1>11,
     <1>12, <1>13, <1>14, <1>15, <1>16, <1>17, <1>18, <1>19, <1>20, <1>21,
     <1>22
  DEF Next, ClientStep, ReaderStep, HandlerStep, Quiescent

-----------------------------------------------------------------------------
(* The theorems. *)

\* Before the handshake there is nothing on the connection.
LEMMA InitIInv ==
    ASSUME Init PROVE IInv
<1> USE DEF Init
<1>1. TypeOK
  BY DEF TypeOK, WorkerStates, WaiterStates, ZeroData
<1>2. StreamInv
  BY EmptySeq DEF StreamInv, Headers, ZeroHeader, Header
<1>3. RequestInv
  BY DEF RequestInv, Linked, Orphaned
<1>4. MutexInv
  BY DEF MutexInv, Nobody, Reader, Worker, Waiter
<1>5. HandlerInv
  BY DEF HandlerInv
<1>6. WaitInv
  <2>1. Waiting = {}
    BY DEF Waiting
  <2>2. QED
    BY <2>1, FS_EmptySet DEF WaitInv
<1>7. PlaceInv
  <2>1. In = << >> /\ Out = << >>
    BY DEF In, Out
  <2>2. QED
    BY <2>1, OccursEmpty DEF PlaceInv, InHand, Answering
<1>8. FrameInv
  BY DEF FrameInv
<1>9. QED
  BY <1>1, <1>2, <1>3, <1>4, <1>5, <1>6, <1>7, <1>8 DEF IInv

\* IInv is an invariant of every behaviour of a connection.
THEOREM Invariance == Spec => []IInv
<1>1. Init => IInv
  BY InitIInv
<1>2. IInv /\ [Next]_vars => IInv'
  <2> SUFFICES ASSUME IInv, [Next]_vars PROVE IInv'
    OBVIOUS
  <2>1. MutexInv'
    BY MutexStep DEF IInv
  <2>2. QED
    BY <2>1, TypeStep, StreamStep, RequestStep, GoroutinesStep, WaitStep,
       PlaceStep, FrameStep
    DEF IInv
<1>3. QED
  BY <1>1, <1>2, PTL DEF Spec

\* The type invariant of a connection of server.Server: in particular,
\* waitGroup never goes negative, which would panic.
THEOREM TypeCorrect == Spec => []TypeOK
<1>1. IInv => TypeOK
  BY DEF IInv
<1>2. QED
  BY <1>1, Invariance, PTL

\* send_response keeps a header and its body together whatever the reader, the
\* workers and the timeouts send at the same time, and a reply carries the
\* output for its own request's input.
THEOREM Framing == Spec => []RepliesFramed
<1>1. IInv => RepliesFramed
  BY DEF IInv, FrameInv, RepliesFramed, Frame
<1>2. QED
  BY <1>1, Invariance, PTL

\* request_handle sends the answer or the timeout's error, never both, and the
\* read loop refuses a request at most once and never one it has handed over.
THEOREM AnsweredOnce == Spec => []OneReply
<1>1. ASSUME IInv, NEW r \in Requests PROVE Cardinality(ReplyTo(r)) <= 1
  <2>1. s2c \in Seq(Values) /\ buffer \in Seq(Values)
    BY <1>1 DEF IInv, StreamInv
  <2>2. Once(s2c, r)
    BY <1>1, <2>1, OccursConcat DEF IInv, PlaceInv, Out
  <2>3. CASE ReplyTo(r) = {}
    BY <2>3, FS_EmptySet
  <2>4. CASE ReplyTo(r) # {}
    <3>1. PICK i : i \in ReplyTo(r)
      BY <2>4
    <3>2. ReplyTo(r) = {i}
      BY <2>2, <3>1 DEF ReplyTo, Once, IsHeader
    <3>3. QED
      BY <3>2, FS_Singleton
  <2>5. QED
    BY <2>3, <2>4
<1>2. IInv => OneReply
  BY <1>1 DEF OneReply
<1>3. QED
  BY <1>2, Invariance, PTL

\* serveCoder closes the connection after waitGroup.Wait, when every handler
\* has sent its reply and called Done.
THEOREM ClosedWhenAnswered == Spec => []RepliesBeforeClose
<1>1. IInv => RepliesBeforeClose
  <2> SUFFICES ASSUME IInv, reader = "closed", ~Panicked, NEW r \in Requests
               PROVE  /\ waiter[r] \in {"none", "returned"}
                      /\ worker[r] \notin {"send", "sending"}
    BY DEF RepliesBeforeClose
  <2>1. waiter[r] \in {"none", "returned"}
    BY DEF IInv, WaitInv, Panicked, Waiting
  <2>2. QED
    BY <2>1 DEF IInv, HandlerInv
<1>2. QED
  BY <1>1, Invariance, PTL
=============================================================================
