--------------------------- MODULE RpcCallsProofs ---------------------------
(***************************************************************************)
(* That RpcClient implements RpcCalls, and AnswerIntegrity, for every set  *)
(* of calls and every behaviour of the server, if no answer fails to       *)
(* marshal or answers are scalars: without that the code breaks both.      *)
(* RpcClientProofs' invariant says who finishes a call and when; what is   *)
(* added here follows the data: what stands behind each header on its way  *)
(* to the server and back, so that a body that is decoded into the output  *)
(* of a call can only be that call's own answer.                           *)
(***************************************************************************)
EXTENDS RpcClientProofs, JsonStreamProofs

\* A header is never decoded as an answer: either the server's encoder never
\* leaves one without its body, or a header cannot pass for an answer.
Marshals == Unmarshalable = {} \/ AnswerShape = "scalar"

\* The values of the two streams; a cut one only where the handshake's decoder
\* has read ahead.
Headers ==
    [type : {"header"}, seq : Nat, error : BOOLEAN,
     method : {"", "found", "noService", "noMethod"}]

Bodies == [type : {"body"}, data : SUBSET Calls, shape : {"object", "scalar"}]

Values == Headers \cup Bodies \cup {Fragment}

InFlight ==
    [header : Headers, refused : BOOLEAN, data : SUBSET Calls]

StreamInv ==
    /\ c2s \in Seq(Values) /\ s2c \in Seq(Values)
    /\ buffer \in Seq(Headers) /\ peerBuffer \in Seq(Headers)
    /\ inFlight \subseteq InFlight
    /\ response \in Headers

\* n was given to a call that is not in the map any more, or to nobody: no
\* call will ever be found under it.
Dead(n) == n < sequenceNumber /\ n \notin DOMAIN pendingCalls

\* d is the data of the call with number n.
Owns(n, d) == \E c \in Calls : callSeq[c] = n /\ n # 0 /\ d = {c}

\* What may stand behind a request's header with number n ...
RequestFollows(n, v) ==
    /\ v.type # "fragment"
    /\ Dead(n) \/ (v.type = "body" /\ Owns(n, v.data))

\* ... and behind an answer's: a header, if that one was left without its body.
AnswerFollows(n, v) ==
    \/ Dead(n)
    \/ AnswerShape = "scalar" /\ v.type = "header"
    \/ v.type = "body" /\ Owns(n, v.data)

\* Behind every header of s is what belongs there.
LinkedRequests(s) ==
    \A i \in 1 .. Len(s) : s[i].type = "header" =>
        i + 1 \in 1 .. Len(s) /\ RequestFollows(s[i].seq, s[i + 1])

LinkedAnswers(s) ==
    \A i \in 1 .. Len(s) : s[i].type = "header" /\ ~s[i].error =>
        i + 1 \in 1 .. Len(s) /\ AnswerFollows(s[i].seq, s[i + 1])

\* The call with number n has failed to marshal and is about to be undone.
BeingUndone(n) == \E c \in Calls : pc[c] = "undo" /\ callSeq[c] = n

\* The request direction: a header without its body is the header of a call
\* that has been given up, or is about to be by the holder of requestMutex.
RequestInv ==
    /\ LinkedRequests(c2s)
    /\ \A i \in 1 .. Len(buffer) :
         Dead(buffer[i].seq) \/ BeingUndone(buffer[i].seq)
    /\ \A c \in Calls : Sending(c) => callSeq[c] # 0
    /\ \A r \in inFlight :
         r.refused \/ Dead(r.header.seq) \/ Owns(r.header.seq, r.data)

\* The reply direction, and what is left of the reply the receiver is reading.
ReplyInv ==
    /\ LinkedAnswers(s2c)
    /\ peerBuffer # << >> => AnswerShape = "scalar"
    /\ rpc = "lookup" /\ ~response.error =>
         \/ Dead(response.seq)
         \/ s2c # << >> /\ AnswerFollows(response.seq, Head(s2c))
    /\ rpc = "body" /\ ~response.error /\ rcvCall # None =>
         /\ s2c # << >>
         /\ \/ AnswerShape = "scalar" /\ Head(s2c).type = "header"
            \/ Head(s2c).type = "body" /\ Head(s2c).data = {rcvCall}

\* Whatever is, or is about to be, delivered without an error is the answer.
OutcomeInv ==
    /\ Output \in [Calls -> SUBSET (Calls \cup {None})]
    /\ \A c \in Calls : result[c] = "none" <=> pc[c] # "returned"
    /\ \A c \in Calls : pc[c] = "cancel" => ctxDone[c]
    /\ \A c \in Calls : Finish[c] = 1 /\ ~Error[c] => Output[c] = {c}
    /\ \A c \in Calls : result[c] = "nil" => Output[c] = {c}
    /\ rpc = "finish" /\ ~Error[rcvCall] => Output[rcvCall] = {rcvCall}

AnswerInv ==
    /\ Marshals
    /\ IInv
    /\ StreamInv
    /\ RequestInv
    /\ ReplyInv
    /\ OutcomeInv

-----------------------------------------------------------------------------
(* Streams. *)

\* A position in two streams and a message behind them.
LEMMA ThreeParts ==
    ASSUME NEW a \in Nat, NEW b \in Nat, NEW i \in 1 .. a + b + 2
    PROVE  i \in 1 .. a \/ i - a \in 1 .. b \/ i = a + b + 1 \/ i = a + b + 2
  OBVIOUS

USE CallsAssumption
    DEF clientVars, coderVars, recordVars, callerVars, receiverVars, peerVars

\* Reading the first value of a stream.
LEMMA Rest ==
    ASSUME NEW V, NEW s \in Seq(V), s # << >>
    PROVE  /\ Len(s) \in Nat \ {0}
           /\ Head(s) \in V /\ Head(s) = s[1]
           /\ Tail(s) \in Seq(V) /\ Len(Tail(s)) = Len(s) - 1
           /\ \A i \in 1 .. Len(Tail(s)) : Tail(s)[i] = s[i + 1]
  BY EmptySeq, HeadTailProperties

\* Reading the second one.
LEMMA SecondValue ==
    ASSUME NEW V, NEW s \in Seq(V), Len(s) >= 2
    PROVE  /\ s # << >> /\ Head(s) = s[1] /\ s[1] \in V /\ s[2] \in V
           /\ Tail(s) \in Seq(V) /\ Tail(s) # << >> /\ Head(Tail(s)) = s[2]
<1>1. s # << >> /\ s[1] \in V /\ s[2] \in V
  BY LenProperties, ElementOfSeq, EmptySeq
<1>2. /\ Len(s) \in Nat /\ Head(s) = s[1]
      /\ Tail(s) \in Seq(V) /\ Len(Tail(s)) = Len(s) - 1
      /\ \A i \in 1 .. Len(Tail(s)) : Tail(s)[i] = s[i + 1]
  BY <1>1, Rest
<1>3. Len(Tail(s)) >= 1 /\ Tail(s)[1] = s[2]
  BY <1>2
<1>4. Tail(s) # << >>
  <2>1. Len(Tail(s)) # 0
    BY <1>2, <1>3, LenProperties
  <2>2. QED
    BY <2>1, EmptySeq
<1>5. Head(Tail(s)) = Tail(s)[1]
  BY <1>2, <1>4, Rest
<1>6. QED
  BY <1>1, <1>2, <1>3, <1>4, <1>5

\* Joining two streams.
LEMMA Joined ==
    ASSUME NEW V, NEW s \in Seq(V), NEW t \in Seq(V)
    PROVE  /\ s \o t \in Seq(V) /\ Len(s) \in Nat /\ Len(t) \in Nat
           /\ Len(s \o t) = Len(s) + Len(t)
           /\ \A i \in 1 .. Len(s) : (s \o t)[i] = s[i]
           /\ \A i \in 1 .. Len(t) : (s \o t)[Len(s) + i] = t[i]
  BY ConcatProperties, LenProperties

\* What stands where in the stream after a message has been flushed: the old
\* values, what was left in the buffer, and the message.
LEMMA Flushed ==
    ASSUME NEW s \in Seq(Values), NEW t \in Seq(Headers),
           NEW h \in Headers, NEW b \in Bodies
    PROVE  LET w == s \o t \o <<h, b>>
           IN  /\ w \in Seq(Values) /\ w # << >>
               /\ s # << >> => Head(w) = Head(s)
               /\ Len(w) = Len(s) + Len(t) + 2 /\ Len(s) \in Nat /\ Len(t) \in Nat
               /\ \A i \in 1 .. Len(s) : w[i] = s[i]
               /\ \A i \in 1 .. Len(t) : w[Len(s) + i] = t[i]
               /\ w[Len(s) + Len(t) + 1] = h
               /\ w[Len(s) + Len(t) + 2] = b
<1> DEFINE u == s \o t
           m == <<h, b>>
           w == u \o m
<1>1. t \in Seq(Values) /\ m \in Seq(Values) /\ Len(m) = 2 /\ m[1] = h /\ m[2] = b
  BY DEF Values
<1>2. /\ u \in Seq(Values) /\ Len(u) = Len(s) + Len(t)
      /\ Len(s) \in Nat /\ Len(t) \in Nat
      /\ \A i \in 1 .. Len(s) : u[i] = s[i]
      /\ \A i \in 1 .. Len(t) : u[Len(s) + i] = t[i]
  BY <1>1, Joined
<1> HIDE DEF u, m
<1>3. /\ w \in Seq(Values) /\ Len(w) = Len(u) + Len(m)
      /\ \A i \in 1 .. Len(u) : w[i] = u[i]
      /\ \A i \in 1 .. Len(m) : w[Len(u) + i] = m[i]
  <2>1. u \in Seq(Values) /\ m \in Seq(Values)
    BY <1>1, <1>2
  <2>2. QED
    BY <2>1, Joined
<1> HIDE DEF w
<1>4. /\ Len(w) = Len(s) + Len(t) + 2
      /\ \A i \in 1 .. Len(s) : w[i] = s[i]
  BY <1>1, <1>2, <1>3
<1>5. ASSUME NEW i \in 1 .. Len(t) PROVE w[Len(s) + i] = t[i]
  <2>1. Len(s) + i \in 1 .. Len(u)
    BY <1>2
  <2>2. QED
    BY <1>2, <1>3, <2>1
<1>6. w[Len(s) + Len(t) + 1] = h /\ w[Len(s) + Len(t) + 2] = b
  BY <1>1, <1>2, <1>3
<1>7. w # << >>
  BY <1>2, <1>3, <1>4, EmptySeq
<1>8. ASSUME s # << >> PROVE Head(w) = Head(s)
  <2>1. Len(s) \in Nat \ {0} /\ Head(s) = s[1]
    BY <1>8, Rest
  <2>2. Head(w) = w[1]
    BY <1>3, <1>7, Rest
  <2>3. QED
    BY <1>4, <2>1, <2>2
<1>9. QED
  BY <1>2, <1>3, <1>4, <1>5, <1>6, <1>7, <1>8 DEF u, m, w

\* Reading keeps the links of the request direction ...
LEMMA RequestsRest ==
    ASSUME NEW s \in Seq(Values), s # << >>, LinkedRequests(s)
    PROVE  LinkedRequests(Tail(s))
<1>1. /\ Len(s) \in Nat \ {0} /\ Len(Tail(s)) = Len(s) - 1
      /\ \A i \in 1 .. Len(Tail(s)) : Tail(s)[i] = s[i + 1]
  BY Rest
<1> SUFFICES ASSUME NEW i \in 1 .. Len(Tail(s)), Tail(s)[i].type = "header"
             PROVE  /\ i + 1 \in 1 .. Len(Tail(s))
                    /\ RequestFollows(Tail(s)[i].seq, Tail(s)[i + 1])
  BY DEF LinkedRequests
<1>2. i + 1 \in 1 .. Len(s) /\ Tail(s)[i] = s[i + 1]
  BY <1>1
<1>3. (i + 1) + 1 \in 1 .. Len(s) /\ RequestFollows(s[i + 1].seq, s[(i + 1) + 1])
  BY <1>2 DEF LinkedRequests
<1>4. i + 1 \in 1 .. Len(Tail(s))
  BY <1>1, <1>2, <1>3
<1>5. QED
  BY <1>1, <1>2, <1>3, <1>4

\* ... so does reading ahead of them, even into the middle of one ...
LEMMA RequestsReadAhead ==
    ASSUME NEW s \in Seq(Values), NEW k, NEW t \in ReadAhead(s, k),
           LinkedRequests(s)
    PROVE  t \in Seq(Values) /\ LinkedRequests(t)
<1>1. Fragment \in Values
  BY DEF Values
<1>2. PICK d \in 0 .. Len(s) :
        /\ Len(t) = Len(s) - d
        /\ \A i \in 1 .. Len(t) :
             /\ d + i \in 1 .. Len(s)
             /\ t[i] = s[d + i] \/ (i = 1 /\ t[i] = Fragment)
  BY <1>1, ReadAheadElements
<1>3. t \in Seq(Values) /\ Len(s) \in Nat
  BY <1>1, ReadAheadElements
<1>4. ASSUME NEW i \in 1 .. Len(t), t[i].type = "header"
      PROVE  i + 1 \in 1 .. Len(t) /\ RequestFollows(t[i].seq, t[i + 1])
  <2>1. t[i] = s[d + i] /\ d + i \in 1 .. Len(s)
    BY <1>2, <1>4 DEF Fragment
  <2>2. d + i + 1 \in 1 .. Len(s) /\ RequestFollows(s[d + i].seq, s[d + i + 1])
    BY <1>4, <2>1 DEF LinkedRequests
  <2>3. i + 1 \in 1 .. Len(t) /\ d + (i + 1) = d + i + 1 /\ i + 1 # 1
    BY <1>2, <1>3, <2>2
  <2>4. t[i + 1] = s[d + i + 1]
    BY <1>2, <2>3
  <2>5. QED
    BY <2>1, <2>2, <2>3, <2>4
<1>5. QED
  BY <1>3, <1>4 DEF LinkedRequests

\* ... and reading keeps those of the reply direction.
LEMMA AnswersRest ==
    ASSUME NEW s \in Seq(Values), s # << >>, LinkedAnswers(s)
    PROVE  LinkedAnswers(Tail(s))
<1>1. /\ Len(s) \in Nat \ {0} /\ Len(Tail(s)) = Len(s) - 1
      /\ \A i \in 1 .. Len(Tail(s)) : Tail(s)[i] = s[i + 1]
  BY Rest
<1> SUFFICES ASSUME NEW i \in 1 .. Len(Tail(s)),
                    Tail(s)[i].type = "header", ~Tail(s)[i].error
             PROVE  /\ i + 1 \in 1 .. Len(Tail(s))
                    /\ AnswerFollows(Tail(s)[i].seq, Tail(s)[i + 1])
  BY DEF LinkedAnswers
<1>2. i + 1 \in 1 .. Len(s) /\ Tail(s)[i] = s[i + 1]
  BY <1>1
<1>3. (i + 1) + 1 \in 1 .. Len(s) /\ AnswerFollows(s[i + 1].seq, s[(i + 1) + 1])
  BY <1>2 DEF LinkedAnswers
<1>4. i + 1 \in 1 .. Len(Tail(s))
  BY <1>1, <1>2, <1>3
<1>5. QED
  BY <1>1, <1>2, <1>3, <1>4

\* A value that is a header.
LEMMA HeadersOnly ==
    ASSUME NEW v \in Values, v.type = "header"
    PROVE  v \in Headers
  BY DEF Values, Bodies, Fragment

\* What stands behind the header a stream begins with.
LEMMA RequestBehind ==
    ASSUME NEW s \in Seq(Values), Len(s) >= 2, LinkedRequests(s),
           s[1].type = "header"
    PROVE  RequestFollows(s[1].seq, s[2])
<1>1. Len(s) \in Nat /\ 1 \in 1 .. Len(s)
  BY LenProperties
<1>2. RequestFollows(s[1].seq, s[1 + 1])
  BY <1>1 DEF LinkedRequests
<1>3. QED
  BY <1>2

\* A flush of a request behind the headers of calls that were given up.
LEMMA RequestsFlushed ==
    ASSUME NEW s \in Seq(Values), NEW t \in Seq(Headers),
           NEW h \in Headers, NEW b \in Bodies,
           LinkedRequests(s), RequestFollows(h.seq, b),
           \A i \in 1 .. Len(t) : Dead(t[i].seq)
    PROVE  LinkedRequests(s \o t \o <<h, b>>)
<1> DEFINE w == s \o t \o <<h, b>>
<1>1. /\ Len(w) = Len(s) + Len(t) + 2 /\ Len(s) \in Nat /\ Len(t) \in Nat
      /\ \A i \in 1 .. Len(s) : w[i] = s[i]
      /\ \A i \in 1 .. Len(t) : w[Len(s) + i] = t[i]
      /\ w[Len(s) + Len(t) + 1] = h
      /\ w[Len(s) + Len(t) + 2] = b
  BY Flushed
<1> HIDE DEF w
<1> SUFFICES ASSUME NEW i \in 1 .. Len(w), w[i].type = "header"
             PROVE  i + 1 \in 1 .. Len(w) /\ RequestFollows(w[i].seq, w[i + 1])
  BY DEF LinkedRequests, w
<1>2. CASE i \in 1 .. Len(s)
  <2>1. i + 1 \in 1 .. Len(s) /\ RequestFollows(s[i].seq, s[i + 1])
    BY <1>1, <1>2 DEF LinkedRequests
  <2>2. QED
    BY <1>1, <1>2, <2>1
<1>3. CASE i - Len(s) \in 1 .. Len(t)
  <2>1. w[i] = t[i - Len(s)]
    BY <1>1, <1>3
  <2>2. Dead(w[i].seq)
    BY <1>3, <2>1
  <2>3. i + 1 \in 1 .. Len(w)
    BY <1>1, <1>3
  <2>4. w[i + 1].type # "fragment"
    <3>1. CASE i - Len(s) = Len(t)
      <4>1. i + 1 = Len(s) + Len(t) + 1
        BY <1>1, <3>1
      <4>2. QED
        BY <1>1, <4>1 DEF Headers
    <3>2. CASE (i + 1) - Len(s) \in 1 .. Len(t)
      <4>1. w[i + 1] = t[(i + 1) - Len(s)]
        BY <1>1, <3>2
      <4>2. t[(i + 1) - Len(s)] \in Headers
        BY <3>2, ElementOfSeq
      <4>3. QED
        BY <4>1, <4>2 DEF Headers
    <3>3. QED
      BY <1>1, <1>3, <3>1, <3>2
  <2>5. QED
    BY <2>2, <2>3, <2>4 DEF RequestFollows
<1>4. CASE i = Len(s) + Len(t) + 1
  BY <1>1, <1>4
<1>5. CASE i = Len(s) + Len(t) + 2
  BY <1>1, <1>5 DEF Bodies
<1>6. \/ i \in 1 .. Len(s) \/ i - Len(s) \in 1 .. Len(t)
      \/ i = Len(s) + Len(t) + 1 \/ i = Len(s) + Len(t) + 2
  <2>1. i \in 1 .. Len(s) + Len(t) + 2 /\ Len(s) \in Nat /\ Len(t) \in Nat
    BY <1>1
  <2>2. QED
    BY <2>1, ThreeParts
<1>7. QED
  BY <1>2, <1>3, <1>4, <1>5, <1>6

\* A flush of a reply behind headers that are left without their bodies.
LEMMA AnswersFlushed ==
    ASSUME NEW s \in Seq(Values), NEW t \in Seq(Headers),
           NEW h \in Headers, NEW b \in Bodies,
           LinkedAnswers(s), h.error \/ AnswerFollows(h.seq, b),
           t # << >> => AnswerShape = "scalar"
    PROVE  LinkedAnswers(s \o t \o <<h, b>>)
<1> DEFINE w == s \o t \o <<h, b>>
<1>1. /\ Len(w) = Len(s) + Len(t) + 2 /\ Len(s) \in Nat /\ Len(t) \in Nat
      /\ \A i \in 1 .. Len(s) : w[i] = s[i]
      /\ \A i \in 1 .. Len(t) : w[Len(s) + i] = t[i]
      /\ w[Len(s) + Len(t) + 1] = h
      /\ w[Len(s) + Len(t) + 2] = b
  BY Flushed
<1> HIDE DEF w
<1> SUFFICES ASSUME NEW i \in 1 .. Len(w), w[i].type = "header", ~w[i].error
             PROVE  i + 1 \in 1 .. Len(w) /\ AnswerFollows(w[i].seq, w[i + 1])
  BY DEF LinkedAnswers, w
<1>2. CASE i \in 1 .. Len(s)
  <2>1. i + 1 \in 1 .. Len(s) /\ AnswerFollows(s[i].seq, s[i + 1])
    BY <1>1, <1>2 DEF LinkedAnswers
  <2>2. QED
    BY <1>1, <1>2, <2>1
<1>3. CASE i - Len(s) \in 1 .. Len(t)
  <2>1. AnswerShape = "scalar"
    BY <1>1, <1>3, EmptySeq
  <2>2. i + 1 \in 1 .. Len(w)
    BY <1>1, <1>3
  <2>3. w[i + 1].type = "header"
    <3>1. CASE i - Len(s) = Len(t)
      <4>1. i + 1 = Len(s) + Len(t) + 1
        BY <1>1, <3>1
      <4>2. QED
        BY <1>1, <4>1 DEF Headers
    <3>2. CASE (i + 1) - Len(s) \in 1 .. Len(t)
      <4>1. w[i + 1] = t[(i + 1) - Len(s)]
        BY <1>1, <3>2
      <4>2. t[(i + 1) - Len(s)] \in Headers
        BY <3>2, ElementOfSeq
      <4>3. QED
        BY <4>1, <4>2 DEF Headers
    <3>3. QED
      BY <1>1, <1>3, <3>1, <3>2
  <2>4. QED
    BY <2>1, <2>2, <2>3 DEF AnswerFollows
<1>4. CASE i = Len(s) + Len(t) + 1
  BY <1>1, <1>4
<1>5. CASE i = Len(s) + Len(t) + 2
  BY <1>1, <1>5 DEF Bodies
<1>6. \/ i \in 1 .. Len(s) \/ i - Len(s) \in 1 .. Len(t)
      \/ i = Len(s) + Len(t) + 1 \/ i = Len(s) + Len(t) + 2
  <2>1. i \in 1 .. Len(s) + Len(t) + 2 /\ Len(s) \in Nat /\ Len(t) \in Nat
    BY <1>1
  <2>2. QED
    BY <2>1, ThreeParts
<1>7. QED
  BY <1>2, <1>3, <1>4, <1>5, <1>6

-----------------------------------------------------------------------------
(* What a step leaves alone. *)

\* A number that is dead stays dead, and a call keeps its number.
LEMMA Persistence ==
    ASSUME IInv, [Next]_vars
    PROVE  /\ \A n \in Nat : Dead(n) => Dead(n)'
           /\ \A c \in Calls : callSeq[c] # 0 => callSeq'[c] = callSeq[c]
           /\ callSeq' \in [Calls -> Nat]
<1>1. /\ sequenceNumber' \in {sequenceNumber, sequenceNumber + 1}
      /\ DOMAIN pendingCalls' \subseteq DOMAIN pendingCalls \cup {sequenceNumber}
      /\ \A c \in Calls : callSeq[c] # 0 => callSeq'[c] = callSeq[c]
  <2> USE DEF IInv, TypeOK, NumberInv
  <2>1. ASSUME NEW c \in Calls, AddCall(c) PROVE <1>1!:
    BY <2>1 DEF AddCall, With, NextNumber
  <2>2. ASSUME NEW c \in Calls, Encode(c) PROVE <1>1!:
    BY <2>2, EncodeEffect DEF EncodeReturns
  <2>3. ASSUME NEW c \in Calls,
               \/ StartCall(c) \/ ContextDone(c) \/ RejectCall(c)
               \/ UndoSend(c) \/ SelectFinish(c) \/ SelectDone(c) \/ CancelCall(c)
        PROVE  <1>1!:
    BY <2>3 DEF StartCall, ContextDone, RejectCall, UndoSend, SelectFinish,
        SelectDone, CancelCall, Without, Restrict
  <2>4. CASE ReceiverStep
    BY <2>4 DEF ReceiverStep, RecvHeader, RecvHeaderFails, RecvLookup, RecvBody,
        RecvDiscard, RecvAnswer, RecvBodyFails, BodyRead, RecvFinish,
        TerminateLockRequest, TerminateLockEntity, TerminateOne, TerminateEnd,
        Without, Restrict
  <2>5. CASE PeerStep
    BY <2>5, PeerFrame
  <2>6. CASE Close \/ Quiescent \/ UNCHANGED vars
    BY <2>6 DEF Close, Quiescent, vars
  <2>7. QED
    BY <2>1, <2>2, <2>3, <2>4, <2>5, <2>6 DEF Next, CallerStep
<1>2. callSeq' \in [Calls -> Nat]
  BY TypeStep DEF IInv, TypeOK
<1>3. QED
  BY <1>1, <1>2 DEF IInv, TypeOK, Dead

\* So what may stand behind a header may still stand there after a step.
LEMMA FollowsPersist ==
    ASSUME IInv, [Next]_vars, NEW n \in Nat
    PROVE  /\ \A d : Owns(n, d) => Owns(n, d)'
           /\ \A v : RequestFollows(n, v) => RequestFollows(n, v)'
           /\ \A v : AnswerFollows(n, v) => AnswerFollows(n, v)'
           /\ BeingUndone(n) => Dead(n)' \/ BeingUndone(n)'
<1>1. \A d : Owns(n, d) => Owns(n, d)'
  BY Persistence DEF Owns
<1>2. \A v : /\ RequestFollows(n, v) => RequestFollows(n, v)'
             /\ AnswerFollows(n, v) => AnswerFollows(n, v)'
  BY <1>1, Persistence DEF RequestFollows, AnswerFollows
<1>3. ASSUME NEW c \in Calls, pc[c] = "undo", callSeq[c] = n
      PROVE  Dead(n)' \/ BeingUndone(n)'
  <2>1. CASE UndoSend(c)
    BY <1>3, <2>1 DEF UndoSend, Without, Restrict, Dead, IInv, TypeOK, NumberInv
  <2>2. CASE ~UndoSend(c)
    <3>1. pc'[c] = "undo" /\ callSeq' = callSeq
      <4> USE DEF IInv, TypeOK
      <4>1. ASSUME NEW d \in Calls, AddCall(d) PROVE FALSE
        BY <1>3, <4>1 DEF AddCall, MutexInv, Sending
      <4>2. ASSUME NEW d \in Calls, Encode(d) PROVE <3>1!:
        BY <1>3, <4>2, EncodeEffect DEF EncodeReturns
      <4>3. ASSUME NEW d \in Calls,
                   \/ StartCall(d) \/ ContextDone(d) \/ RejectCall(d)
                   \/ UndoSend(d) \/ SelectFinish(d) \/ SelectDone(d)
                   \/ CancelCall(d)
            PROVE  <3>1!:
        BY <1>3, <2>2, <4>3 DEF StartCall, ContextDone, RejectCall, UndoSend,
            SelectFinish, SelectDone, CancelCall
      <4>4. CASE ReceiverStep
        BY <1>3, <4>4 DEF ReceiverStep, RecvHeader, RecvHeaderFails, RecvLookup,
            RecvBody, RecvDiscard, RecvAnswer, RecvBodyFails, BodyRead,
            RecvFinish, TerminateLockRequest, TerminateLockEntity, TerminateOne,
            TerminateEnd
      <4>5. CASE PeerStep
        BY <1>3, <4>5, PeerFrame
      <4>6. CASE Close \/ Quiescent \/ UNCHANGED vars
        BY <1>3, <4>6 DEF Close, Quiescent, vars
      <4>7. QED
        BY <4>1, <4>2, <4>3, <4>4, <4>5, <4>6 DEF Next, CallerStep
    <3>2. QED
      BY <1>3, <3>1 DEF BeingUndone
  <2>3. QED
    BY <2>1, <2>2
<1>4. QED
  BY <1>1, <1>2, <1>3 DEF BeingUndone

\* The steps that touch a stream.
LEMMA StreamSteps ==
    ASSUME [Next]_vars
    PROVE  \/ \E c \in Calls :
                EncodeFails(c) \/ EncodeAndFlush(c) \/ EncodeIntoTheVoid(c)
           \/ RecvHeader \/ RecvDiscard \/ RecvAnswer
           \/ PeerStep
           \/ UNCHANGED <<c2s, s2c, buffer, peerBuffer, inFlight, response>>
<1>1. ASSUME NEW c \in Calls, CallerStep(c) \/ StartCall(c) \/ ContextDone(c)
      PROVE  \/ EncodeFails(c) \/ EncodeAndFlush(c) \/ EncodeIntoTheVoid(c)
             \/ UNCHANGED <<c2s, s2c, buffer, peerBuffer, inFlight, response>>
  BY <1>1 DEF CallerStep, Encode, StartCall, ContextDone, AddCall, RejectCall,
      UndoSend, SelectFinish, SelectDone, CancelCall, EncodeAfterFailure,
      EncodeReturns
<1>2. CASE ReceiverStep
  BY <1>2 DEF ReceiverStep, RecvHeaderFails, RecvLookup, RecvBody, RecvBodyFails,
      BodyRead, RecvFinish, TerminateLockRequest, TerminateLockEntity,
      TerminateOne, TerminateEnd
<1>3. CASE Close \/ Quiescent \/ UNCHANGED vars
  BY <1>3 DEF Close, Quiescent, vars
<1>4. QED
  BY <1>1, <1>2, <1>3 DEF Next

\* What the receiver works on is changed by nobody else, nor is what it reads
\* next, except by a reply.
LEMMA OthersLeaveReceiver ==
    ASSUME TypeOK, [Next]_vars, ~ReceiverStep, ~PeerStep
    PROVE  UNCHANGED <<rpc, response, rcvCall, rcvErr, toFinish, s2c>>
<1>1. ASSUME NEW c \in Calls, Encode(c)
      PROVE  UNCHANGED <<rpc, response, rcvCall, rcvErr, toFinish, s2c>>
  BY <1>1, EncodeEffect DEF EncodeReturns
<1>2. QED
  BY <1>1 DEF Next, CallerStep, StartCall, ContextDone, AddCall, RejectCall,
      UndoSend, SelectFinish, SelectDone, CancelCall, Close, Quiescent, vars

-----------------------------------------------------------------------------
(* Every step preserves each conjunct of AnswerInv. *)

\* The messages that are put on the two streams.
LEMMA Messages ==
    ASSUME IInv, StreamInv
    PROVE  /\ \A c \in Calls, m \in Methods :
                /\ RequestHeader(c, m) \in Headers
                /\ RequestHeader(c, m).seq = callSeq[c]
           /\ \A c \in Calls : Body({c}, "object") \in Bodies
           /\ \A d \in SUBSET Calls : Body(d, AnswerShape) \in Bodies
           /\ \A h \in Headers :
                /\ Header(h.seq, h.method, TRUE) \in Headers
                /\ Header(h.seq, h.method, TRUE).error
           /\ InvalidRequest \in Bodies
           /\ ZeroHeader \in Headers /\ ZeroHeader.seq = 0
           /\ \A v \in Values : DecodedHeader(v) \in Headers
           /\ \A v \in Values :
                v.type # "fragment" => DecodedBody(v) \in SUBSET Calls
<1>1. ZeroHeader \in Headers /\ ZeroHeader.seq = 0
  BY DEF ZeroHeader, Header, Headers
<1>2. \A v \in Values : DecodedHeader(v) \in Headers
  BY <1>1, HeadersOnly DEF DecodedHeader
<1>3. ASSUME NEW v \in Values, v.type # "fragment"
      PROVE  DecodedBody(v) \in SUBSET Calls
  <2>1. v \in Headers \/ v \in Bodies
    BY <1>3 DEF Values, Fragment
  <2>2. QED
    BY <2>1 DEF DecodedBody, ZeroData, Headers, Bodies
<1>4. QED
  BY <1>1, <1>2, <1>3 DEF IInv, TypeOK, StreamInv, RequestHeader, Header, Body,
      InvalidRequest, ZeroData, Headers, Bodies

\* What the server sends, in the two ways it may.
LEMMA PeerReplies ==
    ASSUME IInv, StreamInv, NEW request \in inFlight, PeerReply(request)
    PROVE  \/ \E h \in Headers, b \in Bodies :
                /\ PeerSends(<<h, b>>)
                /\ \/ h.error
                   \/ ~request.refused /\ h = request.header
                      /\ b = Body(request.data, AnswerShape)
           \/ /\ ~request.refused /\ request.data \cap Unmarshalable # {}
              /\ peerBuffer' = Append(peerBuffer, request.header)
              /\ UNCHANGED s2c
<1>1. request.header \in Headers /\ request.data \in SUBSET Calls
  BY DEF StreamInv, InFlight
<1>2. CASE PeerSends(ErrorReply(request.header))
  <2> DEFINE h == Header(request.header.seq, request.header.method, TRUE)
  <2>1. h \in Headers /\ h.error /\ InvalidRequest \in Bodies
    BY <1>1, Messages
  <2>2. PeerSends(<<h, InvalidRequest>>)
    BY <1>2 DEF ErrorReply
  <2> HIDE DEF h
  <2>3. QED
    BY <2>1, <2>2
<1>3. CASE /\ ~request.refused
           /\ PeerSends(<<request.header, Body(request.data, AnswerShape)>>)
  <2>1. Body(request.data, AnswerShape) \in Bodies
    BY <1>1, Messages
  <2>2. QED
    BY <1>1, <1>3, <2>1
<1>4. QED
  BY <1>2, <1>3 DEF PeerReply

\* The types of what is on its way.
LEMMA StreamStep ==
    ASSUME IInv, StreamInv, RequestInv, [Next]_vars PROVE StreamInv'
<1> USE DEF StreamInv
<1>1. ASSUME NEW c \in Calls, EncodeFails(c) PROVE StreamInv'
  <2>1. PICK m \in Methods : buffer' = Append(buffer, RequestHeader(c, m))
    BY <1>1 DEF EncodeFails
  <2>2. RequestHeader(c, m) \in Headers
    BY Messages
  <2>3. buffer' \in Seq(Headers)
    BY <2>1, <2>2, AppendProperties
  <2>4. QED
    BY <1>1, <2>3 DEF EncodeFails, EncodeReturns
<1>2. ASSUME NEW c \in Calls, EncodeAndFlush(c) PROVE StreamInv'
  <2>1. PICK m \in Methods : c2s' =
          c2s \o buffer \o <<RequestHeader(c, m), Body({c}, "object")>>
    BY <1>2 DEF EncodeAndFlush
  <2>2. c2s' \in Seq(Values)
    BY <2>1, Messages, Flushed
  <2>3. << >> \in Seq(Headers)
    OBVIOUS
  <2>4. QED
    BY <1>2, <2>2, <2>3 DEF EncodeAndFlush, EncodeReturns
<1>3. ASSUME NEW c \in Calls, EncodeIntoTheVoid(c) PROVE StreamInv'
  <2>1. << >> \in Seq(Headers)
    OBVIOUS
  <2>2. QED
    BY <1>3, <2>1 DEF EncodeIntoTheVoid, EncodeReturns
<1>4. CASE RecvHeader
  <2>1. s2c' \in Seq(Values) /\ Head(s2c) \in Values
    BY <1>4, Rest DEF RecvHeader
  <2>2. response' \in Headers
    BY <1>4, <2>1, Messages DEF RecvHeader
  <2>3. QED
    BY <1>4, <2>1, <2>2 DEF RecvHeader
<1>5. CASE RecvDiscard \/ RecvAnswer
  <2>1. s2c # << >> /\ s2c' = Tail(s2c)
    BY <1>5 DEF RecvDiscard, RecvAnswer
  <2>2. s2c' \in Seq(Values)
    BY <2>1, Rest
  <2>3. QED
    BY <1>5, <2>2 DEF RecvDiscard, RecvAnswer, BodyRead
<1>6. CASE PeerTake
  <2>1. /\ Len(c2s) >= 2 /\ c2s # << >>
        /\ c2s[1] \in Values /\ c2s[2] \in Values
    BY <1>6, SecondValue DEF PeerTake
  <2>2. Tail(c2s) \in Seq(Values) /\ Tail(c2s) # << >>
    BY <2>1, SecondValue
  <2>3. c2s' \in Seq(Values)
    BY <1>6, <2>2, Rest DEF PeerTake
  <2>4. c2s[1] \in Headers
    BY <1>6, <2>1 DEF PeerTake, DecodedHeader, ZeroHeader, Header, Values, Bodies,
        Fragment
  <2>5. DecodedBody(c2s[2]) \in SUBSET Calls
    <3>1. c2s[1].type = "header"
      BY <2>4 DEF Headers
    <3>2. c2s[2].type # "fragment"
      BY <2>1, <3>1, RequestBehind DEF RequestInv, RequestFollows
    <3>3. QED
      BY <2>1, <3>2, Messages
  <2> DEFINE r == [header |-> c2s[1], refused |-> FALSE,
                   data |-> DecodedBody(c2s[2])]
  <2>6. inFlight' = inFlight \cup {r} /\ r \in InFlight
    BY <1>6, <2>4, <2>5 DEF PeerTake, InFlight
  <2> HIDE DEF r
  <2>7. QED
    BY <1>6, <2>3, <2>6 DEF PeerTake
<1>7. CASE PeerRefuse
  <2>1. c2s' \in Seq(Values) /\ Head(c2s) \in Values
    BY <1>7, Rest DEF PeerRefuse
  <2>2. DecodedHeader(Head(c2s)) \in Headers
    BY <2>1, Messages
  <2> DEFINE r == [header |-> DecodedHeader(Head(c2s)), refused |-> TRUE,
                   data |-> ZeroData]
  <2>3. inFlight' = inFlight \cup {r} /\ r \in InFlight
    BY <1>7, <2>2 DEF PeerRefuse, InFlight, ZeroData
  <2> HIDE DEF r
  <2>4. QED
    BY <1>7, <2>1, <2>3 DEF PeerRefuse
<1>8. CASE PeerHangup
  <2>1. << >> \in Seq(Headers) /\ << >> \in Seq(Values)
    OBVIOUS
  <2>2. QED
    BY <1>8, <2>1 DEF PeerHangup
<1>9. CASE PeerHandshake
  <2>1. c2s' \in Seq(Values)
    BY <1>9, RequestsReadAhead DEF PeerHandshake, RequestInv
  <2>2. QED
    BY <1>9, <2>1 DEF PeerHandshake
<1>10. ASSUME NEW request \in inFlight, PeerReply(request) PROVE StreamInv'
  <2>1. UNCHANGED <<c2s, buffer, response>> /\ inFlight' \subseteq InFlight
    BY <1>10 DEF PeerReply
  <2>2. ASSUME NEW h \in Headers, NEW b \in Bodies, PeerSends(<<h, b>>)
        PROVE  s2c' \in Seq(Values) /\ peerBuffer' \in Seq(Headers)
    <3>1. s2c \o peerBuffer \o <<h, b>> \in Seq(Values)
      BY Flushed
    <3>2. << >> \in Seq(Headers)
      OBVIOUS
    <3>3. QED
      BY <2>2, <3>1, <3>2 DEF PeerSends
  <2>3. ASSUME peerBuffer' = Append(peerBuffer, request.header), UNCHANGED s2c
        PROVE  s2c' \in Seq(Values) /\ peerBuffer' \in Seq(Headers)
    <3>1. request.header \in Headers
      BY DEF InFlight
    <3>2. Append(peerBuffer, request.header) \in Seq(Headers)
      BY <3>1, AppendProperties
    <3>3. QED
      BY <2>3, <3>2
  <2>4. s2c' \in Seq(Values) /\ peerBuffer' \in Seq(Headers)
    BY <1>10, <2>2, <2>3, PeerReplies
  <2>5. QED
    BY <2>1, <2>4
<1>11. QED
  BY <1>1, <1>2, <1>3, <1>4, <1>5, <1>6, <1>7, <1>8, <1>9, <1>10, StreamSteps
  DEF PeerStep

\* The request direction: an encoder that leaves a header behind has its call
\* undone before anybody else can flush that header.
LEMMA RequestStep ==
    ASSUME IInv, StreamInv, RequestInv, [Next]_vars PROVE RequestInv'
<1>1. StreamInv' /\ IInv'
  BY StreamStep, NextIInv
<1>2. LinkedRequests(c2s')
  <2>1. ASSUME NEW c \in Calls, EncodeAndFlush(c) PROVE LinkedRequests(c2s')
    <3>1. PICK m \in Methods : c2s' =
            c2s \o buffer \o <<RequestHeader(c, m), Body({c}, "object")>>
      BY <2>1 DEF EncodeAndFlush
    <3>2. pc[c] = "encode" /\ callSeq[c] # 0
      BY <2>1 DEF EncodeAndFlush, RequestInv, Sending
    <3>3. RequestFollows(RequestHeader(c, m).seq, Body({c}, "object"))
      BY <3>2, Messages DEF RequestFollows, Owns, Body
    <3>4. \A i \in 1 .. Len(buffer) : Dead(buffer[i].seq)
      BY <3>2 DEF RequestInv, BeingUndone, IInv, MutexInv, Sending
    <3>5. QED
      BY <3>1, <3>3, <3>4, Messages, RequestsFlushed DEF RequestInv, StreamInv
  <2>2. CASE PeerTake
    <3>1. Len(c2s) >= 2 /\ c2s' = Tail(Tail(c2s))
      BY <2>2 DEF PeerTake
    <3>2. c2s # << >> /\ Tail(c2s) \in Seq(Values) /\ Tail(c2s) # << >>
      BY <3>1, SecondValue DEF StreamInv
    <3>3. LinkedRequests(Tail(c2s))
      BY <3>2, RequestsRest DEF RequestInv, StreamInv
    <3>4. QED
      BY <3>1, <3>2, <3>3, RequestsRest
  <2>3. CASE PeerRefuse
    <3>1. c2s # << >> /\ c2s' = Tail(c2s)
      BY <2>3 DEF PeerRefuse
    <3>2. QED
      BY <3>1, RequestsRest DEF RequestInv, StreamInv
  <2>4. CASE PeerHangup
    BY <2>4 DEF PeerHangup, LinkedRequests
  <2>5. CASE PeerHandshake
    BY <2>5, RequestsReadAhead DEF PeerHandshake, RequestInv, StreamInv
  <2>6. CASE c2s' = c2s
    BY <2>6 DEF RequestInv
  <2>7. QED
    BY <2>1, <2>2, <2>3, <2>4, <2>5, <2>6, StreamSteps DEF EncodeFails,
        EncodeIntoTheVoid, RecvHeader, RecvDiscard, RecvAnswer, BodyRead,
        PeerStep, PeerReply
<1>3. LinkedRequests(c2s)'
  <2> SUFFICES ASSUME NEW i \in 1 .. Len(c2s'), c2s'[i].type = "header"
               PROVE  /\ i + 1 \in 1 .. Len(c2s')
                      /\ RequestFollows(c2s[i].seq, c2s[i + 1])'
    BY DEF LinkedRequests
  <2>1. /\ i + 1 \in 1 .. Len(c2s')
        /\ RequestFollows(c2s'[i].seq, c2s'[i + 1])
    BY <1>2 DEF LinkedRequests
  <2>2. PICK n \in Nat : n = c2s'[i].seq
    <3>1. c2s'[i] \in Values
      BY <1>1, ElementOfSeq DEF StreamInv
    <3>2. c2s'[i] \in Headers
      BY <3>1, HeadersOnly
    <3>3. QED
      BY <3>2 DEF Headers
  <2>3. RequestFollows(n, c2s'[i + 1])
    BY <2>1, <2>2
  <2>4. PICK v : v = c2s'[i + 1]
    OBVIOUS
  <2>5. RequestFollows(n, v)'
    BY <2>3, <2>4, FollowsPersist
  <2>6. QED
    BY <2>1, <2>2, <2>4, <2>5 DEF RequestFollows
<1>4. \A n \in Nat : Dead(n) \/ BeingUndone(n) => Dead(n)' \/ BeingUndone(n)'
  BY Persistence, FollowsPersist
<1>5. (\A i \in 1 .. Len(buffer) :
         Dead(buffer[i].seq) \/ BeingUndone(buffer[i].seq))'
  <2>1. ASSUME NEW i \in 1 .. Len(buffer), i \in 1 .. Len(buffer'),
               buffer'[i] = buffer[i]
        PROVE  (Dead(buffer[i].seq) \/ BeingUndone(buffer[i].seq))'
    <3>1. PICK n \in Nat : n = buffer[i].seq
      <4>1. buffer[i] \in Headers
        BY ElementOfSeq DEF StreamInv
      <4>2. QED
        BY <4>1 DEF Headers
    <3>2. Dead(n)' \/ BeingUndone(n)'
      BY <1>4, <3>1 DEF RequestInv
    <3>3. QED
      BY <2>1, <3>1, <3>2
  <2>2. ASSUME NEW c \in Calls, EncodeFails(c) PROVE <1>5!:
    <3>1. PICK m \in Methods : buffer' = Append(buffer, RequestHeader(c, m))
      BY <2>2 DEF EncodeFails
    <3>2. pc'[c] = "undo" /\ callSeq'[c] = callSeq[c]
      BY <2>2 DEF EncodeFails, EncodeReturns, IInv, TypeOK
    <3>3. RequestHeader(c, m) \in Headers /\ RequestHeader(c, m).seq = callSeq[c]
      BY Messages
    <3>4. /\ Len(buffer) \in Nat /\ Len(buffer') = Len(buffer) + 1
          /\ \A i \in 1 .. Len(buffer) : buffer'[i] = buffer[i]
          /\ buffer'[Len(buffer) + 1] = RequestHeader(c, m)
      BY <3>1, <3>3, AppendProperties, LenProperties DEF StreamInv
    <3> SUFFICES ASSUME NEW i \in 1 .. Len(buffer')
                 PROVE  (Dead(buffer[i].seq) \/ BeingUndone(buffer[i].seq))'
      OBVIOUS
    <3>5. CASE i \in 1 .. Len(buffer)
      BY <2>1, <3>4, <3>5
    <3>6. CASE i = Len(buffer) + 1
      BY <3>2, <3>3, <3>4, <3>6 DEF BeingUndone
    <3>7. QED
      BY <3>4, <3>5, <3>6
  <2>3. CASE buffer' = << >>
    BY <2>3
  <2>4. CASE buffer' = buffer
    BY <2>1, <2>4
  <2>5. QED
    BY <2>2, <2>3, <2>4, StreamSteps DEF EncodeAndFlush,
        EncodeIntoTheVoid, RecvHeader, RecvDiscard, RecvAnswer, BodyRead,
        PeerStep, PeerHandshake, PeerTake, PeerRefuse, PeerHangup, PeerReply
<1>6. \A r \in inFlight' :
        r.refused \/ Dead(r.header.seq) \/ Owns(r.header.seq, r.data)
  <2>1. CASE PeerTake
    <3>1. /\ Len(c2s) >= 2 /\ c2s[1].type = "header"
          /\ inFlight' = inFlight \cup {[header |-> c2s[1], refused |-> FALSE,
                                         data |-> DecodedBody(c2s[2])]}
      BY <2>1 DEF PeerTake, DecodedHeader, ZeroHeader, Header
    <3>2. RequestFollows(c2s[1].seq, c2s[2])
      BY <3>1, RequestBehind DEF RequestInv, StreamInv
    <3>3. Dead(c2s[1].seq) \/ Owns(c2s[1].seq, DecodedBody(c2s[2]))
      BY <3>2 DEF RequestFollows, DecodedBody
    <3>4. QED
      BY <3>1, <3>3 DEF RequestInv
  <2>2. CASE PeerRefuse
    BY <2>2 DEF PeerRefuse, RequestInv
  <2>3. CASE inFlight' \subseteq inFlight
    BY <2>3 DEF RequestInv
  <2>4. QED
    BY <2>1, <2>2, <2>3, StreamSteps DEF EncodeFails, EncodeAndFlush,
        EncodeIntoTheVoid, EncodeReturns, RecvHeader, RecvDiscard, RecvAnswer,
        BodyRead, PeerStep, PeerHandshake, PeerHangup, PeerReply
<1>7. (\A r \in inFlight :
         r.refused \/ Dead(r.header.seq) \/ Owns(r.header.seq, r.data))'
  <2> SUFFICES ASSUME NEW r \in inFlight', ~r.refused
               PROVE  Dead(r.header.seq)' \/ Owns(r.header.seq, r.data)'
    OBVIOUS
  <2>1. r.header.seq \in Nat
    BY <1>1 DEF StreamInv, InFlight, Headers
  <2>2. QED
    BY <1>6, <2>1, Persistence, FollowsPersist
<1>8. (\A c \in Calls : Sending(c) => callSeq[c] # 0)'
  <2> SUFFICES ASSUME NEW c \in Calls, Sending(c)' PROVE callSeq'[c] # 0
    OBVIOUS
  <2>1. CASE AddCall(c)
    BY <2>1 DEF AddCall, NextNumber, IInv, TypeOK
  <2>2. CASE ~AddCall(c)
    <3>1. Sending(c)
      <4> USE DEF Sending, IInv, TypeOK
      <4>1. ASSUME NEW d \in Calls, Encode(d) PROVE Sending(c)
        BY <4>1, EncodeEffect DEF EncodeReturns
      <4>2. ASSUME NEW d \in Calls,
                   \/ AddCall(d) \/ StartCall(d) \/ ContextDone(d) \/ RejectCall(d)
                   \/ UndoSend(d) \/ SelectFinish(d) \/ SelectDone(d)
                   \/ CancelCall(d)
            PROVE  Sending(c)
        BY <2>2, <4>2 DEF AddCall, StartCall, ContextDone, RejectCall, UndoSend,
            SelectFinish, SelectDone, CancelCall
      <4>3. CASE ReceiverStep
        BY <4>3 DEF ReceiverStep, RecvHeader, RecvHeaderFails, RecvLookup,
            RecvBody, RecvDiscard, RecvAnswer, RecvBodyFails, BodyRead,
            RecvFinish, TerminateLockRequest, TerminateLockEntity, TerminateOne,
            TerminateEnd
      <4>4. CASE PeerStep
        BY <4>4, PeerFrame
      <4>5. CASE Close \/ Quiescent \/ UNCHANGED vars
        BY <4>5 DEF Close, Quiescent, vars
      <4>6. QED
        BY <4>1, <4>2, <4>3, <4>4, <4>5 DEF Next, CallerStep
    <3>2. QED
      BY <3>1, Persistence DEF RequestInv
  <2>3. QED
    BY <2>1, <2>2
<1>9. QED
  BY <1>3, <1>5, <1>7, <1>8 DEF RequestInv

\* The reply direction, and the answer in the receiver's hands.
LEMMA ReplyStep ==
    ASSUME Marshals, IInv, StreamInv, RequestInv, ReplyInv, [Next]_vars
    PROVE  ReplyInv'
<1>1. StreamInv' /\ IInv'
  BY StreamStep, NextIInv
<1>2. ASSUME NEW request \in inFlight, PeerReply(request),
             NEW h \in Headers, NEW b \in Bodies, PeerSends(<<h, b>>),
             \/ h.error
             \/ ~request.refused /\ h = request.header
                /\ b = Body(request.data, AnswerShape)
      PROVE  /\ LinkedAnswers(s2c') /\ peerBuffer' = << >>
             /\ s2c # << >> => s2c' # << >> /\ Head(s2c') = Head(s2c)
  <2>1. h.error \/ AnswerFollows(h.seq, b)
    BY <1>2 DEF RequestInv, AnswerFollows, Body
  <2>2. LinkedAnswers(s2c \o peerBuffer \o <<h, b>>)
    BY <2>1, AnswersFlushed DEF ReplyInv, StreamInv
  <2>3. LET w == s2c \o peerBuffer \o <<h, b>>
        IN  w # << >> /\ (s2c # << >> => Head(w) = Head(s2c))
    BY Flushed DEF StreamInv
  <2>4. QED
    BY <1>2, <2>2, <2>3 DEF PeerSends, ReplyInv
<1>3. ASSUME NEW request \in inFlight, PeerReply(request)
      PROVE  /\ LinkedAnswers(s2c')
             /\ peerBuffer' # << >> => AnswerShape = "scalar"
             /\ s2c # << >> => s2c' # << >> /\ Head(s2c') = Head(s2c)
             /\ UNCHANGED <<rpc, response, rcvCall>>
  <2>1. CASE /\ request.data \cap Unmarshalable # {}
             /\ UNCHANGED s2c
    BY <1>3, <2>1 DEF Marshals, ReplyInv, PeerReply
  <2>2. QED
    BY <1>2, <1>3, <2>1, PeerReplies DEF PeerReply
<1>4. LinkedAnswers(s2c') /\ (peerBuffer' # << >> => AnswerShape = "scalar")
  <2>1. CASE RecvHeader \/ RecvDiscard \/ RecvAnswer
    <3>1. s2c # << >> /\ s2c' = Tail(s2c) /\ peerBuffer' = peerBuffer
      BY <2>1 DEF RecvHeader, RecvDiscard, RecvAnswer, BodyRead
    <3>2. QED
      BY <3>1, AnswersRest DEF ReplyInv, StreamInv
  <2>2. CASE s2c' = s2c /\ (peerBuffer' = peerBuffer \/ peerBuffer' = << >>)
    BY <2>2 DEF ReplyInv
  <2>3. QED
    BY <1>3, <2>1, <2>2, StreamSteps DEF EncodeFails, EncodeAndFlush,
        EncodeIntoTheVoid, EncodeReturns, PeerStep, PeerHandshake, PeerTake,
        PeerRefuse, PeerHangup
<1>5. LinkedAnswers(s2c)'
  <2> SUFFICES ASSUME NEW i \in 1 .. Len(s2c'), s2c'[i].type = "header",
                      ~s2c'[i].error
               PROVE  /\ i + 1 \in 1 .. Len(s2c')
                      /\ AnswerFollows(s2c[i].seq, s2c[i + 1])'
    BY DEF LinkedAnswers
  <2>1. /\ i + 1 \in 1 .. Len(s2c')
        /\ AnswerFollows(s2c'[i].seq, s2c'[i + 1])
    BY <1>4 DEF LinkedAnswers
  <2>2. PICK n \in Nat : n = s2c'[i].seq
    <3>1. s2c'[i] \in Values
      BY <1>1, ElementOfSeq DEF StreamInv
    <3>2. s2c'[i] \in Headers
      BY <3>1, HeadersOnly
    <3>3. QED
      BY <3>2 DEF Headers
  <2>3. PICK v : v = s2c'[i + 1]
    OBVIOUS
  <2>4. AnswerFollows(n, v)'
    BY <2>1, <2>2, <2>3, FollowsPersist
  <2>5. QED
    BY <2>1, <2>2, <2>3, <2>4 DEF AnswerFollows
<1>6. ASSUME ~ReceiverStep
      PROVE  /\ UNCHANGED <<rpc, response, rcvCall>>
             /\ s2c # << >> => s2c' # << >> /\ Head(s2c') = Head(s2c)
  <2>1. CASE PeerStep
    BY <1>3, <2>1 DEF PeerStep, PeerHandshake, PeerTake, PeerRefuse, PeerHangup
  <2>2. CASE ~PeerStep
    BY <1>6, <2>2, OthersLeaveReceiver DEF IInv
  <2>3. QED
    BY <2>1, <2>2
<1>7. ASSUME rpc' = "lookup", ~response'.error
      PROVE  \/ Dead(response'.seq)
             \/ s2c' # << >> /\ AnswerFollows(response'.seq, Head(s2c'))
  <2>1. CASE RecvHeader
    <3>1. /\ s2c # << >> /\ s2c' = Tail(s2c)
          /\ response' = DecodedHeader(Head(s2c))
      BY <2>1 DEF RecvHeader
    <3>2. CASE Head(s2c).type = "header"
      <4>1. s2c \in Seq(Values) /\ Len(s2c) \in Nat \ {0} /\ Head(s2c) = s2c[1]
        BY <3>1, Rest DEF StreamInv
      <4>2. response' = s2c[1] /\ 1 \in 1 .. Len(s2c)
        BY <3>1, <3>2, <4>1 DEF DecodedHeader
      <4>3. 1 + 1 \in 1 .. Len(s2c) /\ AnswerFollows(s2c[1].seq, s2c[1 + 1])
        BY <1>7, <3>2, <4>1, <4>2 DEF ReplyInv, LinkedAnswers
      <4>4. Len(s2c) >= 2 /\ AnswerFollows(s2c[1].seq, s2c[2])
        BY <4>1, <4>3
      <4>5. Tail(s2c) # << >> /\ Head(Tail(s2c)) = s2c[2]
        BY <4>1, <4>4, SecondValue
      <4>6. QED
        BY <3>1, <4>2, <4>4, <4>5
    <3>3. CASE Head(s2c).type # "header"
      <4>1. response'.seq = 0
        BY <3>1, <3>3, Messages DEF DecodedHeader
      <4>2. QED
        BY <4>1 DEF Dead, IInv, TypeOK, NumberInv
    <3>4. QED
      BY <3>2, <3>3
  <2>2. CASE ReceiverStep /\ ~RecvHeader
    BY <1>7, <2>2 DEF ReceiverStep, RecvHeaderFails, RecvLookup, RecvBody,
        RecvDiscard, RecvAnswer, RecvBodyFails, BodyRead, RecvFinish,
        TerminateLockRequest, TerminateLockEntity, TerminateOne, TerminateEnd
  <2>3. CASE ~ReceiverStep
    BY <1>6, <1>7, <2>3 DEF ReplyInv
  <2>4. QED
    BY <2>1, <2>2, <2>3
<1>8. ASSUME rpc' = "lookup", ~response'.error
      PROVE  \/ Dead(response.seq)'
             \/ (s2c # << >> /\ AnswerFollows(response.seq, Head(s2c)))'
  <2>1. PICK n \in Nat : n = response'.seq
    BY <1>1 DEF StreamInv, Headers
  <2>2. PICK v : v = Head(s2c')
    OBVIOUS
  <2>3. \/ Dead(n)
        \/ s2c' # << >> /\ AnswerFollows(n, v)
    <3>1. \/ Dead(response'.seq)
          \/ s2c' # << >> /\ AnswerFollows(response'.seq, Head(s2c'))
      BY <1>7, <1>8
    <3>2. QED
      BY <2>1, <2>2, <3>1 DEF Dead, AnswerFollows, Owns
  <2>4. \/ Dead(n)'
        \/ s2c' # << >> /\ AnswerFollows(n, v)'
    BY <2>3, Persistence, FollowsPersist
  <2>5. QED
    BY <2>1, <2>2, <2>4 DEF Dead, AnswerFollows
<1>9. ASSUME rpc' = "body", ~response'.error, rcvCall' # None
      PROVE  /\ s2c' # << >>
             /\ \/ AnswerShape = "scalar" /\ Head(s2c').type = "header"
                \/ Head(s2c').type = "body" /\ Head(s2c').data = {rcvCall'}
  <2>1. CASE RecvLookup
    <3>1. /\ rpc = "lookup" /\ rcvCall' = Registered(response.seq)
          /\ UNCHANGED <<s2c, response>>
      BY <2>1 DEF RecvLookup
    <3>2. /\ response.seq \in DOMAIN pendingCalls
          /\ rcvCall' \in Calls /\ callSeq[rcvCall'] = response.seq
      BY <1>9, <3>1 DEF Registered, IInv, TypeOK, NumberInv
    <3>3. s2c # << >> /\ AnswerFollows(response.seq, Head(s2c))
      BY <1>9, <3>1, <3>2 DEF ReplyInv, Dead
    <3>4. \A d : Owns(response.seq, d) => d = {rcvCall'}
      BY <3>2 DEF Owns, IInv, NumberInv
    <3>5. QED
      BY <3>1, <3>2, <3>3, <3>4 DEF AnswerFollows, Dead
  <2>2. CASE ReceiverStep /\ ~RecvLookup
    BY <1>9, <2>2 DEF ReceiverStep, RecvHeader, RecvHeaderFails, RecvBody,
        RecvDiscard, RecvAnswer, RecvBodyFails, BodyRead, RecvFinish,
        TerminateLockRequest, TerminateLockEntity, TerminateOne, TerminateEnd
  <2>3. CASE ~ReceiverStep
    BY <1>6, <1>9, <2>3 DEF ReplyInv
  <2>4. QED
    BY <2>1, <2>2, <2>3
<1>10. QED
  BY <1>4, <1>5, <1>8, <1>9 DEF ReplyInv

\* A call that is finished without an error has its answer: the receiver
\* finishes a call only after the body it has checked was decoded, and nobody
\* writes into the output of a call that was finished.
LEMMA OutcomeStep ==
    ASSUME Marshals, IInv, StreamInv, ReplyInv, OutcomeInv, [Next]_vars
    PROVE  OutcomeInv'
<1> USE DEF OutcomeInv, IInv, TypeOK
<1>1. ASSUME NEW c \in Calls, StartCall(c) \/ AddCall(c) \/ ContextDone(c)
      PROVE  OutcomeInv'
  BY <1>1 DEF StartCall, AddCall, ContextDone
<1>2. ASSUME NEW c \in Calls, RejectCall(c) PROVE OutcomeInv'
  BY <1>2 DEF RejectCall
<1>3. ASSUME NEW c \in Calls, Encode(c) PROVE OutcomeInv'
  BY <1>3, EncodeEffect DEF EncodeReturns
<1>4. ASSUME NEW c \in Calls, UndoSend(c) PROVE OutcomeInv'
  <2>1. PICK m \in Calls \cup {None} : m = Registered(callSeq[c])
    BY RegisteredCall
  <2>2. CASE m = None
    BY <1>4, <2>1, <2>2 DEF UndoSend
  <2>3. CASE m \in Calls
    <3>1. /\ Error' = [Error EXCEPT ![m] = TRUE]
          /\ Finish' = [Finish EXCEPT ![m] = 1]
          /\ pc' = [pc EXCEPT ![c] = "wait"] /\ pc[c] = "undo"
          /\ UNCHANGED <<result, Output, rpc, rcvCall, ctxDone>>
      BY <1>4, <2>1, <2>3 DEF UndoSend
    <3>2. QED
      BY <2>3, <3>1
  <2>4. QED
    BY <2>2, <2>3
<1>5. ASSUME NEW c \in Calls, SelectFinish(c) PROVE OutcomeInv'
  BY <1>5 DEF SelectFinish
<1>6. ASSUME NEW c \in Calls, SelectDone(c) PROVE OutcomeInv'
  BY <1>6 DEF SelectDone
<1>7. ASSUME NEW c \in Calls, CancelCall(c) PROVE OutcomeInv'
  BY <1>7 DEF CancelCall
<1>8. CASE Close \/ RecvHeader \/ RecvHeaderFails
  BY <1>8 DEF Close, RecvHeader, RecvHeaderFails
<1>9. CASE RecvLookup
  BY <1>9 DEF RecvLookup, Registered
<1>10. CASE RecvDiscard \/ RecvBodyFails
  <2>1. /\ rpc = "body" /\ UNCHANGED <<Output, Finish, result, pc, ctxDone, rcvCall>>
        /\ Error' = IF rcvCall # None
                      THEN [Error EXCEPT ![rcvCall] = TRUE] ELSE Error
        /\ rpc' = IF rcvCall = None THEN "lockRequest" ELSE "finish"
    BY <1>10 DEF RecvDiscard, RecvBodyFails, BodyRead
  <2>2. QED
    BY <2>1
<1>11. CASE RecvAnswer
  <2> DEFINE ok == rcvCall \notin Undecodable /\ BodyDecodes(Head(s2c), AnswerShape)
  <2>1. /\ rpc = "body" /\ UNCHANGED <<Finish, result, pc, ctxDone, rcvCall>>
        /\ rcvCall \in Calls /\ ~response.error /\ rpc' = "finish"
        /\ Error' = IF ~ok THEN [Error EXCEPT ![rcvCall] = TRUE] ELSE Error
        /\ Output' = IF ok THEN [Output EXCEPT ![rcvCall] = DecodedBody(Head(s2c))]
                           ELSE Output
    BY <1>11 DEF RecvAnswer, BodyRead
  <2>2. Finish[rcvCall] = 0 /\ result[rcvCall] \in {"none", "timeout"}
    BY <2>1 DEF FinishInv, Fresh
  <2>3. ok => DecodedBody(Head(s2c)) = {rcvCall}
    <3>1. \/ AnswerShape = "scalar" /\ Head(s2c).type = "header"
          \/ Head(s2c).type = "body" /\ Head(s2c).data = {rcvCall}
      BY <2>1 DEF ReplyInv
    <3>2. QED
      BY <3>1 DEF BodyDecodes, Shape, DecodedBody
  <2> HIDE DEF ok
  <2>4. CASE ok
    <3>1. /\ Error' = Error /\ Output' = [Output EXCEPT ![rcvCall] = {rcvCall}]
      BY <2>1, <2>3, <2>4
    <3>2. QED
      BY <2>1, <2>2, <3>1
  <2>5. CASE ~ok
    BY <2>1, <2>2, <2>5
  <2>6. QED
    BY <2>4, <2>5
<1>12. CASE RecvFinish
  <2>1. rcvCall \in Calls
    BY <1>12 DEF RecvFinish, FinishInv
  <2>2. QED
    BY <1>12, <2>1 DEF RecvFinish
<1>13. CASE TerminateLockRequest \/ TerminateLockEntity \/ TerminateEnd
  BY <1>13 DEF TerminateLockRequest, TerminateLockEntity, TerminateEnd
<1>14. ASSUME NEW c \in Calls, TerminateOne(c) PROVE OutcomeInv'
  BY <1>14 DEF TerminateOne
<1>15. CASE PeerStep
  BY <1>15, PeerFrame
<1>16. CASE Quiescent \/ UNCHANGED vars
  BY <1>16 DEF Quiescent, vars
<1>17. QED
  BY <1>1, <1>2, <1>3, <1>4, <1>5, <1>6, <1>7, <1>8, <1>9, <1>10, <1>11,
      <1>12, <1>13, <1>14, <1>15, <1>16
  DEF Next, CallerStep, ReceiverStep, RecvBody

-----------------------------------------------------------------------------
(* The theorems. *)

\* AnswerInv holds when the client has been created ...
LEMMA InitAnswerInv == Init /\ Marshals => AnswerInv
<1> SUFFICES ASSUME Init, Marshals PROVE AnswerInv
  OBVIOUS
<1> USE DEF Init
<1>1. IInv
  BY InitIInv
<1>2. StreamInv
  <2>1. << >> \in Seq(Values) /\ << >> \in Seq(Headers)
    OBVIOUS
  <2>2. ZeroHeader \in Headers
    BY DEF ZeroHeader, Header, Headers
  <2>3. QED
    BY <2>1, <2>2 DEF StreamInv
<1>3. RequestInv /\ ReplyInv
  BY DEF RequestInv, ReplyInv, LinkedRequests, LinkedAnswers, Sending
<1>4. OutcomeInv
  BY DEF OutcomeInv, NoOutput
<1>5. QED
  BY <1>1, <1>2, <1>3, <1>4 DEF AnswerInv

\* ... and is preserved.
LEMMA NextAnswerInv == AnswerInv /\ [Next]_vars => AnswerInv'
  BY NextIInv, StreamStep, RequestStep, ReplyStep, OutcomeStep
  DEF AnswerInv, Marshals

\* A Call that returns nil has the answer to its own inputs: for any number of
\* callers, whatever requests fail to marshal, whatever contexts end, and
\* whatever the server answers, refuses or leaves unanswered.
THEOREM OwnAnswer == Spec /\ Marshals => []AnswerIntegrity
<1>1. AnswerInv => AnswerIntegrity
  BY DEF AnswerInv, OutcomeInv, AnswerIntegrity
<1>2. QED
  BY <1>1, InitAnswerInv, NextAnswerInv, PTL DEF Spec

-----------------------------------------------------------------------------
(* The refinement. *)

\* The initial states are initial states of RpcCalls.
LEMMA InitRefines == Init => Abstract!Init
  BY DEF Init, Abstract!Init, Phase, Outcome

\* A step of one call, in terms of RpcCalls.
LEMMA CallStep ==
    ASSUME NEW c \in Calls, UNCHANGED <<ctxDone, isShutdown>>,
           \A d \in Calls \ {c} : Phase(d)' = Phase(d) /\ Outcome(d)' = Outcome(d)
    PROVE  /\ Phase(c) = "idle" /\ Phase(c)' = "open" /\ Outcome(c)' = Outcome(c)
                => Abstract!Invoke(c)
           /\ Phase(c) = "settled" /\ Phase(c)' = "returned"
              /\ Outcome(c)' = Outcome(c) => Abstract!Return(c)
           /\ Phase(c) \in {"open", "settled"} /\ ctxDone[c]
              /\ Phase(c)' = "returned" /\ Outcome(c)' = "timeout"
                => Abstract!Abandon(c)
           /\ Phase(c)' = Phase(c) /\ Outcome(c)' = Outcome(c)
                => UNCHANGED Abstract!vars
<1> DEFINE phase == [d \in Calls |-> Phase(d)]
           outcome == [d \in Calls |-> Outcome(d)]
<1>1. /\ Phase(c)' = Phase(c) => phase' = phase
      /\ Outcome(c)' = Outcome(c) => outcome' = outcome
      /\ phase' = [phase EXCEPT ![c] = Phase(c)']
      /\ outcome' = [outcome EXCEPT ![c] = Outcome(c)']
  OBVIOUS
<1>2. phase[c] = Phase(c)
  OBVIOUS
<1>3. QED
  BY <1>1, <1>2 DEF Abstract!Invoke, Abstract!Return, Abstract!Abandon,
      Abstract!vars

\* A step that changes neither the calls nor the client's state is a stutter.
LEMMA Stutter ==
    ASSUME UNCHANGED <<ctxDone, isShutdown>>,
           \A c \in Calls : Phase(c)' = Phase(c) /\ Outcome(c)' = Outcome(c)
    PROVE  UNCHANGED Abstract!vars
  BY DEF Abstract!vars

\* Between the caller's arrival and its return its place does not matter.
LEMMA SameCall ==
    ASSUME NEW c \in Calls,
           \/ pc'[c] = pc[c]
           \/ pc[c] \notin {"idle", "returned"} /\ pc'[c] \notin {"idle", "returned"},
           Finish'[c] = Finish[c], result'[c] = result[c],
           \/ Error'[c] = Error[c] /\ Output'[c] = Output[c]
           \/ Finish[c] = 0 /\ result[c] \in {"none", "timeout"}
    PROVE  Phase(c)' = Phase(c) /\ Outcome(c)' = Outcome(c)
  BY DEF Phase, Outcome

\* A call that is finished while its caller has not left is settled.
LEMMA Settles ==
    ASSUME AnswerInv, NEW c \in Calls,
           Finish[c] = 0, Finish'[c] = 1, pc[c] # "idle",
           \/ pc'[c] = pc[c]
           \/ pc[c] # "returned" /\ pc'[c] \notin {"idle", "returned"},
           Error'[c] \/ (Output[c] = {c} /\ ~Error'[c] /\ ~isShutdown),
           \A d \in Calls \ {c} :
               pc'[d] = pc[d] /\ Finish'[d] = Finish[d] /\ Error'[d] = Error[d],
           UNCHANGED <<ctxDone, isShutdown, result, Output>>
    PROVE  [Abstract!Next]_(Abstract!vars)
<1>1. \A d \in Calls \ {c} : Phase(d)' = Phase(d) /\ Outcome(d)' = Outcome(d)
  BY SameCall
<1>2. CASE pc[c] = "returned"
  <2>1. result[c] \in {"timeout", "nil", "error"}
    BY <1>2 DEF AnswerInv, IInv, TypeOK, OutcomeInv
  <2>2. Phase(c)' = Phase(c) /\ Outcome(c)' = Outcome(c)
    BY <1>2, <2>1 DEF Phase, Outcome
  <2>3. QED
    BY <1>1, <2>2, CallStep
<1>3. CASE pc[c] # "returned"
  <2> DEFINE o == IF Error'[c] THEN "error" ELSE "answer"
  <2>1. /\ result[c] = "none" /\ result'[c] = "none"
        /\ pc[c] \notin {"idle", "returned"} /\ pc'[c] \notin {"idle", "returned"}
    BY <1>3 DEF AnswerInv, OutcomeInv
  <2>2. Phase(c) = "open" /\ Phase(c)' = "settled"
    BY <2>1 DEF Phase
  <2>3. Outcome(c)' = o
    BY <2>1 DEF Outcome
  <2>4. Abstract!Settle(c, o)
    BY <1>1, <2>2, <2>3 DEF Abstract!Settle
  <2>5. QED
    BY <2>4 DEF Abstract!Next
<1>4. QED
  BY <1>2, <1>3

\* Every step of the client, of its callers and of the server is a step of
\* RpcCalls or a stutter.
LEMMA NextRefines ==
    ASSUME AnswerInv, [Next]_vars
    PROVE  [Abstract!Next]_(Abstract!vars)
<1> DEFINE Refined == [Abstract!Next]_(Abstract!vars)
<1>1. /\ TypeOK
      /\ pc \in [Calls -> {"idle", "lock", "encode", "undo", "wait", "cancel",
                           "returned"}]
      /\ Finish \in [Calls -> 0 .. 1] /\ Error \in [Calls -> BOOLEAN]
      /\ result \in [Calls -> {"none", "nil", "error", "timeout"}]
      /\ ctxDone \in [Calls -> BOOLEAN]
      /\ Output \in [Calls -> SUBSET (Calls \cup {None})]
  BY DEF AnswerInv, IInv, TypeOK, OutcomeInv
<1>2. ASSUME NEW c \in Calls, StartCall(c) PROVE Abstract!Invoke(c)
  <2>1. /\ pc[c] = "idle" /\ pc' = [pc EXCEPT ![c] = "lock"]
        /\ UNCHANGED <<Finish, result, Error, Output, ctxDone, isShutdown>>
    BY <1>2 DEF StartCall
  <2>2. pc'[c] = "lock" /\ \A d \in Calls \ {c} : pc'[d] = pc[d]
    BY <1>1, <2>1
  <2>3. Finish[c] = 0
    BY <2>1 DEF AnswerInv, IInv, FinishInv, Fresh
  <2>4. \A d \in Calls \ {c} : Phase(d)' = Phase(d) /\ Outcome(d)' = Outcome(d)
    BY <2>1, <2>2, SameCall
  <2>5. Phase(c) = "idle" /\ Phase(c)' = "open"
    BY <2>1, <2>2, <2>3 DEF Phase
  <2>6. Outcome(c)' = Outcome(c)
    BY <2>1 DEF Outcome
  <2>7. QED
    BY <2>1, <2>4, <2>5, <2>6, CallStep
<1>3. ASSUME NEW c \in Calls, ContextDone(c) PROVE Abstract!Expire(c)
  <2>1. /\ pc[c] \notin {"idle", "returned"} /\ ~ctxDone[c]
        /\ ctxDone' = [ctxDone EXCEPT ![c] = TRUE]
        /\ UNCHANGED <<pc, Finish, result, Error, Output, isShutdown>>
    BY <1>3 DEF ContextDone
  <2>2. \A d \in Calls : Phase(d)' = Phase(d) /\ Outcome(d)' = Outcome(d)
    BY <2>1, SameCall
  <2>3. Phase(c) \in {"open", "settled"}
    BY <2>1 DEF Phase
  <2>4. {d \in Calls : ctxDone'[d]} = {d \in Calls : ctxDone[d]} \cup {c}
    BY <1>1, <2>1
  <2>5. QED
    BY <2>1, <2>2, <2>3, <2>4 DEF Abstract!Expire
<1>4. ASSUME NEW c \in Calls, AddCall(c) \/ SelectDone(c) \/ Encode(c)
      PROVE  UNCHANGED Abstract!vars
  <2>1. /\ pc[c] \notin {"idle", "returned"} /\ pc'[c] \notin {"idle", "returned"}
        /\ \A d \in Calls \ {c} : pc'[d] = pc[d]
        /\ UNCHANGED <<Finish, result, Error, Output, ctxDone, isShutdown>>
    <3>1. CASE AddCall(c) \/ SelectDone(c)
      BY <1>1, <3>1 DEF AddCall, SelectDone
    <3>2. CASE Encode(c)
      BY <1>1, <3>2, EncodeEffect DEF EncodeReturns
    <3>3. QED
      BY <1>4, <3>1, <3>2
  <2>2. \A d \in Calls : Phase(d)' = Phase(d) /\ Outcome(d)' = Outcome(d)
    BY <2>1, SameCall
  <2>3. QED
    BY <2>1, <2>2, Stutter
<1>5. ASSUME NEW c \in Calls, RejectCall(c) PROVE Refined
  <2>1. /\ pc[c] = "lock" /\ Finish[c] = 0
        /\ pc' = [pc EXCEPT ![c] = "wait"]
        /\ Error' = [Error EXCEPT ![c] = TRUE]
        /\ Finish' = [Finish EXCEPT ![c] = 1]
        /\ UNCHANGED <<ctxDone, isShutdown, result, Output>>
    BY <1>5 DEF RejectCall
  <2>2. /\ pc'[c] = "wait" /\ Error'[c] /\ Finish'[c] = 1
        /\ \A d \in Calls \ {c} :
             pc'[d] = pc[d] /\ Finish'[d] = Finish[d] /\ Error'[d] = Error[d]
    BY <1>1, <2>1
  <2>3. QED
    BY <2>1, <2>2, Settles
<1>6. ASSUME NEW c \in Calls, UndoSend(c) PROVE Refined
  <2>1. /\ pc[c] = "undo" /\ pc' = [pc EXCEPT ![c] = "wait"]
        /\ UNCHANGED <<ctxDone, isShutdown, result, Output>>
    BY <1>6 DEF UndoSend
  <2>2. pc'[c] = "wait" /\ \A d \in Calls \ {c} : pc'[d] = pc[d]
    BY <1>1, <2>1
  <2>3. Registered(callSeq[c]) \in {c, None}
    BY RegisteredCall DEF AnswerInv, IInv, NumberInv
  <2>4. CASE Registered(callSeq[c]) = None
    <3>1. UNCHANGED <<Error, Finish>>
      BY <1>6, <2>4 DEF UndoSend
    <3>2. \A d \in Calls : Phase(d)' = Phase(d) /\ Outcome(d)' = Outcome(d)
      BY <2>1, <2>2, <3>1, SameCall
    <3>3. QED
      BY <2>1, <3>2, Stutter
  <2>5. CASE Registered(callSeq[c]) = c
    <3>1. /\ Error' = [Error EXCEPT ![c] = TRUE]
          /\ Finish[c] = 0 /\ Finish' = [Finish EXCEPT ![c] = 1]
      BY <1>6, <2>5 DEF UndoSend
    <3>2. /\ Error'[c] /\ Finish'[c] = 1
          /\ \A d \in Calls \ {c} : Finish'[d] = Finish[d] /\ Error'[d] = Error[d]
      BY <1>1, <3>1
    <3>3. QED
      BY <2>1, <2>2, <3>1, <3>2, Settles
  <2>6. QED
    BY <2>3, <2>4, <2>5
<1>7. ASSUME NEW c \in Calls, SelectFinish(c) PROVE Abstract!Return(c)
  <2>1. /\ pc[c] = "wait" /\ pc' = [pc EXCEPT ![c] = "returned"]
        /\ Finish[c] = 1 /\ Finish' = [Finish EXCEPT ![c] = 0]
        /\ result' = [result EXCEPT ![c] = IF Error[c] THEN "error" ELSE "nil"]
        /\ UNCHANGED <<ctxDone, isShutdown, Error, Output>>
    BY <1>7 DEF SelectFinish
  <2>2. result[c] = "none"
    BY <2>1 DEF AnswerInv, OutcomeInv
  <2>3. /\ pc'[c] = "returned" /\ Finish'[c] = 0
        /\ result'[c] = IF Error[c] THEN "error" ELSE "nil"
        /\ \A d \in Calls \ {c} :
             pc'[d] = pc[d] /\ Finish'[d] = Finish[d] /\ result'[d] = result[d]
    BY <1>1, <2>1
  <2>4. \A d \in Calls \ {c} : Phase(d)' = Phase(d) /\ Outcome(d)' = Outcome(d)
    BY <2>1, <2>3, SameCall
  <2>5. Phase(c) = "settled" /\ Phase(c)' = "returned"
    BY <2>1, <2>3 DEF Phase
  <2>6. Outcome(c)' = Outcome(c)
    BY <2>1, <2>2, <2>3 DEF Outcome
  <2>7. QED
    BY <2>1, <2>4, <2>5, <2>6, CallStep
<1>8. ASSUME NEW c \in Calls, CancelCall(c) PROVE Abstract!Abandon(c)
  <2>1. /\ pc[c] = "cancel" /\ pc' = [pc EXCEPT ![c] = "returned"]
        /\ result' = [result EXCEPT ![c] = "timeout"]
        /\ UNCHANGED <<ctxDone, isShutdown, Error, Output, Finish>>
    BY <1>8 DEF CancelCall
  <2>2. ctxDone[c]
    BY <2>1 DEF AnswerInv, OutcomeInv
  <2>3. /\ pc'[c] = "returned" /\ result'[c] = "timeout"
        /\ \A d \in Calls \ {c} : pc'[d] = pc[d] /\ result'[d] = result[d]
    BY <1>1, <2>1
  <2>4. \A d \in Calls \ {c} : Phase(d)' = Phase(d) /\ Outcome(d)' = Outcome(d)
    BY <2>1, <2>3, SameCall
  <2>5. Phase(c) \in {"open", "settled"} /\ Phase(c)' = "returned"
    BY <2>1, <2>3 DEF Phase
  <2>6. Outcome(c)' = "timeout"
    BY <2>3 DEF Outcome
  <2>7. QED
    BY <2>1, <2>2, <2>4, <2>5, <2>6, CallStep
<1>9. ASSUME NEW call \in Calls \cup {None},
             call # None => Finish[call] = 0 /\ result[call] \in {"none", "timeout"},
             \A d \in Calls \ {call} : Error'[d] = Error[d] /\ Output'[d] = Output[d],
             UNCHANGED <<pc, Finish, result, ctxDone, isShutdown>>
      PROVE  UNCHANGED Abstract!vars
  <2>1. \A d \in Calls : Phase(d)' = Phase(d) /\ Outcome(d)' = Outcome(d)
    BY <1>9, SameCall
  <2>2. QED
    BY <1>9, <2>1, Stutter
<1>10. CASE RecvLookup
  <2>1. PICK call \in Calls \cup {None} : call = Registered(response.seq)
    BY RegisteredCall DEF AnswerInv, IInv
  <2>2. /\ rpc = "lookup" /\ UNCHANGED <<Output, pc, Finish, result, ctxDone, isShutdown>>
        /\ Error' = IF call # None /\ response.error
                      THEN [Error EXCEPT ![call] = TRUE] ELSE Error
    BY <1>10, <2>1 DEF RecvLookup
  <2>3. \A d \in Calls \ {call} : Error'[d] = Error[d]
    BY <1>1, <2>2
  <2>4. call # None => Fresh(call)
    BY <2>1, <2>2, RegisteredCall DEF AnswerInv, IInv, FinishInv, Terminated
  <2>5. QED
    BY <1>9, <2>2, <2>3, <2>4 DEF Fresh
<1>11. CASE RecvBody
  <2>1. /\ rpc = "body" /\ rcvCall \in Calls \cup {None}
        /\ UNCHANGED <<pc, Finish, result, ctxDone, isShutdown>>
        /\ \/ Error' = Error
           \/ rcvCall # None /\ Error' = [Error EXCEPT ![rcvCall] = TRUE]
        /\ \/ Output' = Output
           \/ Output' = [Output EXCEPT ![rcvCall] = DecodedBody(Head(s2c))]
    BY <1>1, <1>11 DEF RecvBody, RecvDiscard, RecvAnswer, RecvBodyFails, BodyRead,
        TypeOK
  <2>2. \A d \in Calls \ {rcvCall} : Error'[d] = Error[d] /\ Output'[d] = Output[d]
    BY <1>1, <2>1
  <2>3. rcvCall # None => Fresh(rcvCall)
    BY <2>1 DEF AnswerInv, IInv, FinishInv
  <2>4. QED
    BY <1>9, <2>1, <2>2, <2>3 DEF Fresh
<1>12. CASE RecvFinish
  <2>1. /\ rpc = "finish" /\ rcvCall # None
        /\ Finish[rcvCall] = 0 /\ Finish' = [Finish EXCEPT ![rcvCall] = 1]
        /\ UNCHANGED <<pc, Error, ctxDone, isShutdown, result, Output>>
    BY <1>12 DEF RecvFinish, AnswerInv, IInv, FinishInv
  <2>2. rcvCall \in Calls
    BY <1>1, <2>1 DEF TypeOK
  <2>3. pc[rcvCall] # "idle"
    BY <2>1, <2>2 DEF AnswerInv, IInv, FinishInv, NumberInv
  <2>4. ~isShutdown
    BY <2>1 DEF AnswerInv, IInv, ShutdownInv, Terminated
  <2>5. Error[rcvCall] \/ Output[rcvCall] = {rcvCall}
    BY <2>1 DEF AnswerInv, OutcomeInv
  <2>6. /\ Finish'[rcvCall] = 1
        /\ \A d \in Calls \ {rcvCall} : Finish'[d] = Finish[d]
    BY <1>1, <2>1, <2>2
  <2>7. QED
    BY <2>1, <2>2, <2>3, <2>4, <2>5, <2>6, Settles
<1>13. CASE TerminateLockEntity
  <2>1. /\ rpc = "lockEntity" /\ isShutdown'
        /\ UNCHANGED <<pc, Error, ctxDone, result, Output, Finish>>
    BY <1>13 DEF TerminateLockEntity
  <2>2. ~isShutdown
    BY <2>1 DEF AnswerInv, IInv, ShutdownInv, Terminated
  <2>3. \A d \in Calls : Phase(d)' = Phase(d) /\ Outcome(d)' = Outcome(d)
    BY <2>1, SameCall
  <2>4. isShutdown' = TRUE
    BY <1>13 DEF TerminateLockEntity
  <2>5. Abstract!GoDown
    BY <2>1, <2>2, <2>3, <2>4 DEF Abstract!GoDown
  <2>6. QED
    BY <2>5 DEF Abstract!Next
<1>14. ASSUME NEW c \in Calls, TerminateOne(c) PROVE Refined
  <2>1. /\ rpc = "finishAll" /\ c \in toFinish
        /\ Error' = [Error EXCEPT ![c] = TRUE]
        /\ Finish[c] = 0 /\ Finish' = [Finish EXCEPT ![c] = 1]
        /\ UNCHANGED <<pc, ctxDone, isShutdown, result, Output>>
    BY <1>14 DEF TerminateOne
  <2>2. pc[c] # "idle"
    BY <2>1 DEF AnswerInv, IInv, FinishInv, NumberInv
  <2>3. /\ Error'[c] /\ Finish'[c] = 1
        /\ \A d \in Calls \ {c} : Finish'[d] = Finish[d] /\ Error'[d] = Error[d]
    BY <1>1, <2>1
  <2>4. QED
    BY <2>1, <2>2, <2>3, Settles
<1>15. ASSUME UNCHANGED <<pc, Error, ctxDone, isShutdown, result, Output, Finish>>
       PROVE  UNCHANGED Abstract!vars
  <2>1. \A d \in Calls : Phase(d)' = Phase(d) /\ Outcome(d)' = Outcome(d)
    BY <1>15, SameCall
  <2>2. QED
    BY <1>15, <2>1, Stutter
<1>16. CASE PeerStep
  BY <1>1, <1>15, <1>16, PeerFrame
<1>17. CASE \/ Close \/ RecvHeader \/ RecvHeaderFails \/ TerminateLockRequest
            \/ TerminateEnd \/ Quiescent \/ UNCHANGED vars
  BY <1>15, <1>17 DEF Close, RecvHeader, RecvHeaderFails, TerminateLockRequest,
      TerminateEnd, Quiescent, vars
<1>18. QED
  BY <1>2, <1>3, <1>4, <1>5, <1>6, <1>7, <1>8, <1>10, <1>11, <1>12, <1>13,
      <1>14, <1>16, <1>17
  DEF Next, CallerStep, ReceiverStep, Abstract!Next

\* The client keeps its contract, one settling per call, answers only to the
\* call they belong to and none after the client went down, for any number of
\* callers and any behaviour of the server.
THEOREM ClientRefinesCalls == Spec /\ Marshals => ImplementsRpcCalls
<1>1. AnswerInv /\ [Next]_vars => [Abstract!Next]_(Abstract!vars)
  BY NextRefines
<1>2. QED
  BY <1>1, InitRefines, InitAnswerInv, NextAnswerInv, PTL
  DEF Spec, ImplementsRpcCalls, Abstract!Spec
=============================================================================
