----------------------------- MODULE RpcServer ------------------------------
(***************************************************************************)
(* One connection of a server.Server: ServeConnection and its read loop    *)
(* serveCoder (the reader), and two goroutines per accepted request, both  *)
(* of request_handle: the worker that calls the service's method and       *)
(* answers, and the waiter that bounds it with ProcessingTimeout.  They    *)
(* share the connection's encoder under sendMutex, and waitGroup.  The     *)
(* client is an environment that sends each of its requests at most once   *)
(* and may hang up at any time.                                            *)
(***************************************************************************)
EXTENDS JsonStream, FiniteSets

CONSTANTS
    Requests,       \* the requests, named by their sequence numbers
    Kinds,          \* the kinds of requests tried, among AllKinds
    Limits,         \* the values of ProcessingTimeout tried: 0 is no limit
    Transports,     \* "tcp" and "http"
    Overread        \* how many values the handshake's decoder can swallow

\* An ordinary request, one whose method returns an error or an output that
\* json cannot marshal, one whose body does not decode into the method's
\* input, one for an unregistered service, or for a method its service does
\* not have, one for a method whose output is not a pointer, which createMethod
\* registers all the same, and one whose inputs the client could not marshal.
AllKinds == {"ok", "failing", "unmarshalable", "badInput", "noService",
             "noMethod", "valueOutput", "unsent"}

ASSUME RequestsAssumption ==
    /\ Requests \subseteq Nat \ {0}
    /\ IsFiniteSet(Requests)
    /\ Kinds \subseteq AllKinds
    /\ Limits \subseteq {0, 1}
    /\ Transports \subseteq {"tcp", "http"}
    /\ Overread \in Nat

VARIABLES
    \* the connection: what ConnectionInfo said, and the transport it came by
    info, limit, transport,
    \* the client: what it asks for, requests sent, headers left in its buffer, still connected
    kind, submitted, held, clientOpen,
    \* the two directions; c2s is consumed, s2c keeps everything ever sent
    c2s, s2c,
    \* the reader: where it is, and the header it works on
    reader, header,
    \* the goroutines of request_handle, the data of each decoded input, and
    \* request.header.Error # ""
    worker, waiter, input, failed,
    \* what they share: who is sending, the encoder's buffer, and the counter
    sendMutex, buffer, waitGroup,
    \* the connection has been closed; the whole process has crashed
    closed, crashed

clientVars  == <<kind, submitted, held, clientOpen>>
connVars    == <<info, limit, transport>>
handlerVars == <<worker, waiter, input, failed>>
sendVars    == <<sendMutex, buffer, s2c>>

vars == <<connVars, clientVars, c2s, reader, header, handlerVars, sendVars,
          waitGroup, closed, crashed>>

\* The ServiceDotMethod of a request, as search_service will resolve it.
Method(r) ==
    IF kind[r] \in {"noService", "noMethod", "valueOutput"} THEN kind[r]
                                                           ELSE "found"

\* Methods for which read_request panics: search_service returns a nil method
\* and a nil error, which CreateInput dereferences; or CreateOutput takes the
\* element type of an output that is not a pointer.
Panicking == {"noMethod", "valueOutput"}

\* Holders of sendMutex.
Nobody    == <<"nobody", 0>>
Reader    == <<"reader", 0>>
Worker(r) == <<"worker", r>>
Waiter(r) == <<"waiter", r>>

WorkerStates == {"none", "calling", "called", "send", "sending", "sent",
                 "finished"}
WaiterStates == {"none", "select", "response", "send", "sending", "returned",
                 "left"}

TypeOK ==
    /\ info \in {"valid", "invalid"} /\ limit \in Limits
    /\ transport \in Transports
    /\ kind \in [Requests -> Kinds]
    /\ submitted \subseteq Requests /\ clientOpen \in BOOLEAN
    /\ reader \in {"handshake", "header", "body", "refuse", "refusing",
                   "drain", "closed"}
    /\ worker \in [Requests -> WorkerStates]
    /\ waiter \in [Requests -> WaiterStates]
    /\ input \in [Requests -> SUBSET Requests]
    /\ failed \in [Requests -> BOOLEAN]
    /\ sendMutex \in {Nobody, Reader} \cup {Worker(r) : r \in Requests}
                       \cup {Waiter(r) : r \in Requests}
    /\ waitGroup \in Nat
    /\ closed \in BOOLEAN /\ crashed \in BOOLEAN

Init ==
    /\ info \in {"valid", "invalid"} /\ limit \in Limits
    /\ transport \in Transports
    /\ kind \in [Requests -> Kinds]
    /\ submitted = {} /\ held = << >> /\ clientOpen = TRUE
    /\ c2s = << >> /\ s2c = << >>
    /\ reader = "handshake" /\ header = ZeroHeader
    /\ worker = [r \in Requests |-> "none"]
    /\ waiter = [r \in Requests |-> "none"]
    /\ input = [r \in Requests |-> ZeroData]
    /\ failed = [r \in Requests |-> FALSE]
    /\ sendMutex = Nobody /\ buffer = << >> /\ waitGroup = 0
    /\ closed = FALSE /\ crashed = FALSE

-----------------------------------------------------------------------------
(* The client, as far as the server can tell. *)

RequestHeader(r) == Header(r, Method(r), FALSE)
RequestBody(r)   == Body({r}, IF kind[r] = "badInput" THEN "scalar" ELSE "object")

\* A request is written in one flush, behind the headers of failed ones.
ClientSend(r) ==
    /\ clientOpen /\ r \notin submitted /\ kind[r] # "unsent"
    /\ submitted' = submitted \cup {r}
    /\ c2s' = c2s \o held \o <<RequestHeader(r), RequestBody(r)>>
    /\ held' = << >>
    /\ UNCHANGED <<kind, clientOpen, connVars, reader, header, handlerVars, sendVars,
                   waitGroup, closed, crashed>>

\* A request whose body cannot be marshalled leaves its header behind.
ClientHolds(r) ==
    /\ clientOpen /\ r \notin submitted /\ kind[r] = "unsent"
    /\ submitted' = submitted \cup {r}
    /\ held' = Append(held, RequestHeader(r))
    /\ UNCHANGED <<kind, clientOpen, connVars, c2s, reader, header, handlerVars,
                   sendVars, waitGroup, closed, crashed>>

ClientHangup ==
    /\ clientOpen
    /\ clientOpen' = FALSE
    /\ UNCHANGED <<kind, submitted, held, connVars, c2s, reader, header, handlerVars,
                   sendVars, waitGroup, closed, crashed>>

-----------------------------------------------------------------------------
(* The reader. *)

ReaderFrame == <<connVars, clientVars, handlerVars, sendVars, crashed>>

\* ServeConnection: the decoder that reads ConnectionInfo also reads ahead.
\* What it took is lost: serveCoder's coder has a decoder of its own.
Handshake ==
    /\ reader = "handshake" /\ info = "valid"
    /\ c2s' \in ReadAhead(c2s, Overread)
    /\ reader' = "header"
    /\ UNCHANGED <<header, waitGroup, closed, ReaderFrame>>

\* ServeConnection on a bad magic number or coder type: its deferred Close.
HandshakeRejects ==
    /\ reader = "handshake" /\ (info = "invalid" \/ ~clientOpen)
    /\ reader' = "closed" /\ closed' = TRUE
    /\ UNCHANGED <<c2s, header, waitGroup, ReaderFrame>>

\* read_header, then search_service.  An unregistered service, or a name with
\* no service at all, is refused with the body still on the connection.
ReadHeader ==
    /\ reader = "header" /\ c2s # << >>
    /\ HeaderDecodes(Head(c2s))
    /\ header' = DecodedHeader(Head(c2s))
    /\ header'.method \notin Panicking
    /\ reader' = IF header'.method = "found" THEN "body" ELSE "refuse"
    /\ c2s' = Tail(c2s)
    /\ UNCHANGED <<waitGroup, closed, ReaderFrame>>

\* The panic ends the process, or is caught by net/http once ServeConnection's
\* deferred Close has run.
ReadPanics ==
    /\ reader = "header" /\ c2s # << >>
    /\ HeaderDecodes(Head(c2s))
    /\ DecodedHeader(Head(c2s)).method \in Panicking
    /\ header' = DecodedHeader(Head(c2s))
    /\ c2s' = Tail(c2s)
    /\ reader' = "closed" /\ closed' = TRUE
    /\ crashed' = (transport = "tcp")
    /\ UNCHANGED <<connVars, clientVars, handlerVars, sendVars, waitGroup>>

\* read_header fails: end of the connection, or a value that is no header.
ReadHeaderFails ==
    /\ reader = "header"
    /\ \/ ~clientOpen
       \/ c2s # << >> /\ ~HeaderDecodes(Head(c2s))
    /\ reader' = "drain"
    /\ UNCHANGED <<c2s, header, waitGroup, closed, ReaderFrame>>

\* Mutant: the loop uses one Request for all, so that a new one's input is seen
\* by the handlers that are still at work.
ReadBodyShared ==
    LET r == header.seq
    IN  /\ reader = "body" /\ c2s # << >>
        /\ BodyDecodes(Head(c2s), "object")
        /\ input' = [q \in Requests |-> DecodedBody(Head(c2s))]
        /\ c2s' = Tail(c2s)
        /\ waitGroup' = waitGroup + 1
        /\ worker' = [worker EXCEPT ![r] = "calling"]
        /\ waiter' = [waiter EXCEPT ![r] = "select"]
        /\ reader' = "header"
        /\ UNCHANGED <<connVars, clientVars, header, failed, sendVars, closed,
                       crashed>>

\* DecodeMessageBody, and the start of request_handle with its goroutine.
ReadBody ==
    LET r == header.seq
    IN  /\ reader = "body" /\ c2s # << >>
        /\ BodyDecodes(Head(c2s), "object")
        /\ input' = [input EXCEPT ![r] = DecodedBody(Head(c2s))]
        /\ c2s' = Tail(c2s)
        /\ waitGroup' = waitGroup + 1
        /\ worker' = [worker EXCEPT ![r] = "calling"]
        /\ waiter' = [waiter EXCEPT ![r] = "select"]
        /\ reader' = "header"
        /\ UNCHANGED <<connVars, clientVars, header, failed, sendVars, closed,
                       crashed>>

\* DecodeMessageBody fails: the request is refused.
ReadBodyFails ==
    /\ reader = "body"
    /\ \/ ~clientOpen /\ UNCHANGED c2s
       \/ /\ c2s # << >> /\ ~BodyDecodes(Head(c2s), "object")
          /\ c2s' = Tail(c2s)
    /\ reader' = "refuse"
    /\ UNCHANGED <<header, waitGroup, closed, ReaderFrame>>

\* Mutant: Close without waitGroup.Wait.
DrainAtOnce ==
    /\ reader = "drain"
    /\ reader' = "closed" /\ closed' = TRUE
    /\ UNCHANGED <<c2s, header, waitGroup, ReaderFrame>>

\* waitGroup.Wait, then Close.
Drain ==
    /\ reader = "drain" /\ waitGroup = 0
    /\ reader' = "closed" /\ closed' = TRUE
    /\ UNCHANGED <<c2s, header, waitGroup, ReaderFrame>>

-----------------------------------------------------------------------------
(* send_response: Encode(header), then Encode(body) and Flush, under sendMutex. *)

\* A lost connection swallows what is flushed; the error is dropped.
Flush(message) ==
    /\ s2c' = IF clientOpen /\ ~closed THEN s2c \o message ELSE s2c
    /\ buffer' = << >>

\* Mutant: send_response without sending.Lock.
EncodeHeaderUnlocked(p, h) ==
    /\ sendMutex' = p
    /\ buffer' = Append(buffer, h)
    /\ UNCHANGED s2c

EncodeHeader(p, h) ==
    /\ sendMutex = Nobody
    /\ sendMutex' = p
    /\ buffer' = Append(buffer, h)
    /\ UNCHANGED s2c

EncodeBody(body) ==
    /\ sendMutex' = Nobody
    /\ Flush(Append(buffer, body))

\* The body cannot be marshalled: logged, and the header stays in the buffer.
EncodeBodyFails ==
    /\ sendMutex' = Nobody
    /\ UNCHANGED <<buffer, s2c>>

\* serveCoder answers a refused request itself, before it reads on.
RefuseHeader ==
    /\ reader = "refuse"
    /\ EncodeHeader(Reader, Header(header.seq, header.method, TRUE))
    /\ reader' = "refusing"
    /\ UNCHANGED <<connVars, clientVars, c2s, header, handlerVars, waitGroup,
                   closed, crashed>>

RefuseBody ==
    /\ reader = "refusing"
    /\ EncodeBody(InvalidRequest)
    /\ reader' = "header"
    /\ UNCHANGED <<connVars, clientVars, c2s, header, handlerVars, waitGroup,
                   closed, crashed>>

-----------------------------------------------------------------------------
(* request_handle. *)

HandlerFrame == <<connVars, clientVars, c2s, reader, header, input, closed,
                  crashed>>

\* service.Call returns.
MethodReturns(r) ==
    /\ worker[r] = "calling"
    /\ worker' = [worker EXCEPT ![r] = "called"]
    /\ UNCHANGED <<waiter, failed, sendVars, waitGroup, HandlerFrame>>

\* Mutant: the channel is buffered, so that the worker need not meet the waiter.
CallReported(r) ==
    /\ worker[r] = "called"
    /\ worker' = [worker EXCEPT ![r] = "send"]
    /\ waiter' = [waiter EXCEPT ![r] = IF @ = "select" THEN "response" ELSE @]
    /\ failed' = [failed EXCEPT ![r] = (kind[r] = "failing")]
    /\ UNCHANGED <<sendVars, waitGroup, HandlerFrame>>

\* serviceCallTimeoutChannel, which is unbuffered: worker and waiter meet.
CallInTime(r) ==
    /\ worker[r] = "called" /\ waiter[r] = "select"
    /\ worker' = [worker EXCEPT ![r] = "send"]
    /\ waiter' = [waiter EXCEPT ![r] = "response"]
    /\ failed' = [failed EXCEPT ![r] = (kind[r] = "failing")]
    /\ UNCHANGED <<sendVars, waitGroup, HandlerFrame>>

\* Mutant: the timeout only releases the handler and sends no response.
CallTimesOutSilently(r) ==
    /\ waiter[r] = "select" /\ limit # 0
    /\ waiter' = [waiter EXCEPT ![r] = "returned"]
    /\ failed' = [failed EXCEPT ![r] = TRUE]
    /\ waitGroup' = waitGroup - 1
    /\ UNCHANGED <<worker, sendVars, HandlerFrame>>

\* time.After(timeoutLimit) wins the select; the worker is never met again.
CallTimesOut(r) ==
    /\ waiter[r] = "select" /\ limit # 0
    /\ waiter' = [waiter EXCEPT ![r] = "send"]
    /\ failed' = [failed EXCEPT ![r] = TRUE]
    /\ UNCHANGED <<worker, sendVars, waitGroup, HandlerFrame>>

\* Mutant: the handler answers with the header the reader now works on.
ReplyHeaderShared(r) == Header(header.seq, Method(r), failed[r])

ReplyHeader(r) == Header(r, Method(r), failed[r])
ReplyBody(r)   == IF failed[r] THEN InvalidRequest ELSE Body(input[r], "scalar")

CannotMarshal(r) == ~failed[r] /\ kind[r] = "unmarshalable"

WorkerSendsHeader(r) ==
    /\ worker[r] = "send"
    /\ EncodeHeader(Worker(r), ReplyHeader(r))
    /\ worker' = [worker EXCEPT ![r] = "sending"]
    /\ UNCHANGED <<waiter, failed, waitGroup, HandlerFrame>>

WorkerSendsBody(r) ==
    /\ worker[r] = "sending"
    /\ \/ ~CannotMarshal(r) /\ EncodeBody(ReplyBody(r))
       \/ CannotMarshal(r) /\ EncodeBodyFails
    /\ worker' = [worker EXCEPT ![r] = "sent"]
    /\ UNCHANGED <<waiter, failed, waitGroup, HandlerFrame>>

\* Mutant: waitGroup.Done deferred at the top and called at the end as well.
ResponseSentDoneTwice(r) ==
    /\ worker[r] = "sent" /\ waiter[r] = "response"
    /\ worker' = [worker EXCEPT ![r] = "finished"]
    /\ waiter' = [waiter EXCEPT ![r] = "returned"]
    /\ waitGroup' = waitGroup - 2
    /\ UNCHANGED <<failed, sendVars, HandlerFrame>>

\* responseSendTimeoutChannel; the branch for no limit returns before the
\* deferred waitGroup.Done is reached.
ResponseSent(r) ==
    /\ worker[r] = "sent" /\ waiter[r] = "response"
    /\ worker' = [worker EXCEPT ![r] = "finished"]
    /\ waiter' = [waiter EXCEPT ![r] = IF limit = 0 THEN "left" ELSE "returned"]
    /\ waitGroup' = IF limit = 0 THEN waitGroup ELSE waitGroup - 1
    /\ UNCHANGED <<failed, sendVars, HandlerFrame>>

WaiterSendsHeader(r) ==
    /\ waiter[r] = "send"
    /\ EncodeHeader(Waiter(r), ReplyHeader(r))
    /\ waiter' = [waiter EXCEPT ![r] = "sending"]
    /\ UNCHANGED <<worker, failed, waitGroup, HandlerFrame>>

\* Mutant: the timeout branch returns before waitGroup.Done, too.
WaiterSendsBodyOnly(r) ==
    /\ waiter[r] = "sending"
    /\ EncodeBody(InvalidRequest)
    /\ waiter' = [waiter EXCEPT ![r] = "left"]
    /\ UNCHANGED <<worker, failed, waitGroup, HandlerFrame>>

\* The timeout's reply, then waitGroup.Done.
WaiterSendsBody(r) ==
    /\ waiter[r] = "sending"
    /\ EncodeBody(InvalidRequest)
    /\ waiter' = [waiter EXCEPT ![r] = "returned"]
    /\ waitGroup' = waitGroup - 1
    /\ UNCHANGED <<worker, failed, HandlerFrame>>

-----------------------------------------------------------------------------
ClientStep ==
    \/ \E r \in Requests : ClientSend(r) \/ ClientHolds(r)
    \/ ClientHangup

ReaderStep ==
    /\ ~crashed
    /\ \/ Handshake \/ HandshakeRejects
       \/ ReadHeader \/ ReadPanics \/ ReadHeaderFails
       \/ ReadBody \/ ReadBodyFails
       \/ RefuseHeader \/ RefuseBody
       \/ Drain

\* What a handler's goroutines do on their own; a method need never return.
HandlerStep(r) ==
    /\ ~crashed
    /\ \/ CallInTime(r) \/ ResponseSent(r)
       \/ WorkerSendsHeader(r) \/ WorkerSendsBody(r)
       \/ WaiterSendsHeader(r) \/ WaiterSendsBody(r)

\* The client is gone and the server has nothing left to do: it closed, it
\* crashed, or, without a limit, it waits for ever in waitGroup.Wait.  Any other
\* state without a successor is a deadlock.
Quiescent ==
    /\ ~clientOpen
    /\ closed \/ crashed \/ (limit = 0 /\ reader = "drain")
    /\ UNCHANGED vars

Next ==
    \/ ClientStep
    \/ ReaderStep
    \/ \E r \in Requests :
         \/ HandlerStep(r)
         \/ ~crashed /\ (MethodReturns(r) \/ CallTimesOut(r))
    \/ Quiescent

Spec == Init /\ [][Next]_vars

\* Runnable goroutines run and timers fire; methods and clients are free.
FairSpec ==
    /\ Spec
    /\ WF_vars(ReaderStep)
    /\ \A r \in Requests :
         /\ WF_vars(HandlerStep(r))
         /\ WF_vars(~crashed /\ CallTimesOut(r))

-----------------------------------------------------------------------------
(* Correctness. *)

\* The connection was closed by ReadPanics.
Panicked == closed /\ header.method \in Panicking

EverythingMarshals == \A r \in Requests : kind[r] # "unmarshalable"

\* Every header on the wire is followed by its own body, whichever goroutines
\* answer at the same time: an error by invalidRequest, an answer by the output
\* for the request's own input.  The one exception is a request the client
\* could not send: its orphaned header takes the next value for its body.
\* Answers that json cannot marshal are left out; what their orphaned headers do
\* to a client is RpcClient's subject (json_coder.go:47).
RepliesFramed ==
    EverythingMarshals =>
        /\ Len(s2c) % 2 = 0
        /\ \A i \in 1 .. Len(s2c) : i % 2 = 1 =>
             LET h == s2c[i]
                 b == s2c[i + 1]
             IN  /\ h.type = "header" /\ b.type = "body"
                 /\ h.error => b = InvalidRequest
                 /\ ~h.error =>
                      \/ b.data = {h.seq}
                      \/ kind[h.seq] = "unsent" /\ b.data = ZeroData

ReplyTo(r) == {i \in 1 .. Len(s2c) : s2c[i].type = "header" /\ s2c[i].seq = r}

\* A request gets one reply at most: when the time limit expires just as the
\* method returns, the timeout and the answer are never both sent.
OneReply == \A r \in Requests : Cardinality(ReplyTo(r)) <= 1

\* The connection is closed after its read loop only when no handler is going
\* to use it any more: every accepted request has been answered.
RepliesBeforeClose ==
    reader = "closed" /\ ~Panicked =>
        \A r \in Requests :
            /\ waiter[r] \in {"none", "returned"}
            /\ worker[r] \notin {"send", "sending"}

\* With a time limit, a connection whose client left is closed, even if a
\* method never returns.  (Without a limit it is not: see RepliesBeforeClose.)
ConnectionReclaimed ==
    (~clientOpen /\ limit # 0) ~> (closed \/ crashed)

\* With a time limit, every accepted request whose answer can be marshalled is
\* answered, even if its method never returns, unless the connection ends.  It
\* takes a client that goes on reading: no flush blocks here (in RpcSystem one
\* does).
TimelyReply ==
    \A r \in Requests :
        (waiter[r] = "select" /\ limit # 0 /\ kind[r] # "unmarshalable")
            ~> (ReplyTo(r) # {} \/ ~clientOpen \/ closed)

-----------------------------------------------------------------------------
(* What a comment or a test says and the code does not do. *)

\* server_unit_test.go:38-51 sends ConnectionInfo and requests back to back and
\* reads a response to each: a request that was sent is answered, or the client
\* sees the connection end.
RequestAnswered ==
    \A r \in Requests :
        (r \in submitted /\ info = "valid")
            ~> (ReplyTo(r) # {} \/ ~clientOpen \/ closed)

\* coder.go:11, the header's Error "is the error message from server's response
\* if the rpc call failed": a call of a method that does not exist fails with
\* an error response, and the server survives it.
UnknownMethodReported ==
    \A r \in Requests :
        (r \in submitted /\ kind[r] = "noMethod" /\ info = "valid")
            ~> (ReplyTo(r) # {} \/ ~clientOpen)
=============================================================================
