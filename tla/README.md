# SpartanRPC in TLA+

Specifications of the RPC framework in `src/`: one client, one server
connection, the two of them on one connection, the contract a client keeps, the
load-balanced client that is built on that contract, and the registry with its
heartbeats and load balancers, model-checked with TLC. Every safety property of
every module, and both refinements, are also proved with TLAPS, for all values of
the constants; progress is model-checked only.

| file | what it is |
|---|---|
| `JsonStream.tla` | the values on a connection and what `JsonCoder` decodes them to |
| `RpcCalls.tla` | abstract specification: what a client promises its callers |
| `RpcClient.tla` | `client.Client`: callers, receiver, mutexes, map, encoder; the server as an environment |
| `JsonStreamProofs.tla` | lemmas about streams: where a number occurs when values are written and read |
| `RpcClientProofs.tla` | theorems about `RpcClient`: who finishes a call, and when |
| `RpcCallsProofs.tla` | that `RpcClient` implements `RpcCalls`, and `AnswerIntegrity` |
| `RpcServer.tla` | one connection of `server.Server`; the client as an environment |
| `RpcServerProofs.tla` | theorems about `RpcServer` |
| `RpcSystem.tla` | a client and the server of its connection, on two bounded streams |
| `RpcSystemProofs.tla` | that the server is the peer `RpcClient` assumes, and what follows from end to end |
| `LoadBalancedClient.tla` | `client.LoadBalancedClient` and the dialling it does, on `RpcCalls`' contract |
| `LoadBalancedClientProofs.tla` | theorems about `LoadBalancedClient` |
| `Registry.tla` | `registry.Registry` and the heartbeats of `server.Server`, against a clock |
| `Discovery.tla` | extends it with a load balancer that caches the registry's list |
| `MCDiscovery.tla` | the symmetry of its callers, for TLC |
| `DiscoveryProofs.tla` | theorems about `Registry` and `Discovery` |
| `RoundRobinProofs.tla` | that round robin is fair, on top of it |
| `*.cfg` | the instances TLC checks |

## 1. Inventory

### The system

A **client** dials a server, sends a `ConnectionInfo` as one JSON value, then
pairs of JSON values (`MessageHeader`, body). The **server** reads
`ConnectionInfo`, then a header and a body per request, calls a method of a
registered **service** by reflection in a goroutine of its own, and sends a
header and a body back, in the order in which the methods finish. A
**registry** keeps the servers that POSTed a heartbeat recently; **load
balancers** pick a server from a fixed list or from the registry; a
**load-balanced client** keeps one client per server address and can broadcast.

| component | source | state | operations | talks to |
|---|---|---|---|---|
| Wire format, `JsonCoder` | `coder/` | `bufio.Writer`, its sticky error, `json.Decoder` | encode header and body, decode header, decode body, close | the connection; used by client and server |
| Client | `client/client.go` | `sequenceNumber`, `pendingCalls`, `isClosed`, `isShutdown`, `requestMutex`, `entityMutex`; a `Call` record and its `Finish` channel per call | `Call`, `sendCall`, `receiveCall`, `terminateCalls`, `addCall`, `deleteCall`, `finishCall`, `Close`, `IsAvailable` | coder, contexts |
| Dialling | `client/client.go` | one unbuffered channel | `XMakeDial`, `MakeDialWithTimeout`, `CreateClient(HTTP)` | server handshake |
| Server connection | `server/server.go` | reader, `sendMutex`, `waitGroup`, two goroutines and two channels per request | `ServeConnection`, `serveCoder`, `read_request`, `send_response`, `request_handle` | coder, service, client |
| Service | `service/service.go` | method table, call counts | `CreateService`, `createMethod`, `CreateInput/Output`, `Call` | server |
| Registry | `registry/registry.go` | address -> last update | register (POST), alive list (GET, deletes the expired) | heartbeat, load balancer |
| Heartbeat | `server/server.go` | ticker, last error | `Heartbeat`, `sendHeartbeat` | registry |
| Load balancers | `loadBalancer/` | server list, round-robin index, last update | `GetServer`, `GetServerList`, refresh, update | registry |
| Load-balanced client | `client/load_balanced_client.go` | address -> client | `dial`, `Call`, `BroadcastCall`, `Close` | load balancer, clients |
| Listeners, info page | `server/server.go`, `server/server_info.go` | - | accept loop, HTTP multiplexer | - |

### What is hard, and what makes each component correct

* **Client.** Callers, the receiver and `Close` meet in two mutexes and a map,
  while replies come in any order, late, twice removed from their call, or not
  at all. It is correct if a call is finished exactly once (a second
  `finishCall` would block with both mutexes held), if nobody waits for a result
  that cannot come any more, if a nil error means the caller's own answer, if
  contexts are honoured, and if the loss of the connection releases everybody.
* **Encoder and stream.** Nothing but position tells a header from a body. It is
  correct if each header is followed by its own body, whatever fails on the way.
* **Server connection.** Many handlers and the reader share an encoder; a time
  limit races the method. It is correct if replies are framed and sent at most
  once, if the connection is not closed under a handler, if a limit is enforced
  whatever the method does, and if a connection whose client left is given up.
* **Registry, heartbeat, load balancers.** Correct if a server that beats stays
  listed, a dead one disappears within a bound, and round robin visits everybody
  although the list changes under its index.
* **Client and server together.** Each is checked against an environment that
  stands for the other; together they are correct if those environments are right,
  and if two ends that write to each other and tear each other down do not wait
  for each other.
* **Load-balanced client.** Goroutines share a map whose mutex is held while a
  server is dialled. It is correct if a broadcast that returns nil was answered by
  everybody, if a client that went down is replaced and its connection closed, and
  if one server that hangs does not stop the others for good.

`PROJECT.json` lists the hazards line by line, with the property that covers
each.

## 2. The modules and the code

### JsonStream

A value is a header (number, method, error or not), a body (whose data, object
or scalar) or a fragment left behind by another decoder. `DecodedHeader` and
`DecodedBody` say what `encoding/json` makes of a value that is *not* the one
the reader expects: an object without the header's fields is the zero header, a
header is an empty struct, a scalar is an error. This is what makes a stream
that is one value out of step observable.

### RpcCalls, the contract

Every call is settled at most once, by its own answer or an error; a caller
returns with that, or with a timeout if its context is over; after `down`
nothing is answered any more. With fairness, settled calls return and a client
that is down settles every open call.

### RpcClient

An action is what a goroutine does between two points at which another one can
see or block it. Critical sections of `entityMutex` are single steps, except the
one of `terminateCalls`, which finishes calls one by one in the map's order.
`requestMutex` is held across steps by `sendCall`.

| code | actions |
|---|---|
| `Call`, `startCall` | `StartCall`, `SelectFinish`, `SelectDone`, `CancelCall`, `ContextDone` (environment) |
| `sendCall`, `addCall`, `EncodeMessageHeaderAndBody` | `AddCall`, `RejectCall`, `EncodeAndFlush`, `EncodeFails`, `EncodeAfterFailure`, `EncodeIntoTheVoid`, `UndoSend` |
| `receiveCall` | `RecvHeader`, `RecvHeaderFails`, `RecvLookup`, `RecvDiscard`, `RecvAnswer`, `RecvBodyFails`, `RecvFinish` |
| `terminateCalls` | `TerminateLockRequest`, `TerminateLockEntity`, `TerminateOne`, `TerminateEnd` |
| `Close`, `IsAvailable` | `Close`, `IsAvailable` |
| a server, seen from the client | `PeerHandshake`, `PeerTake`, `PeerRefuse`, `PeerReply`, `PeerHangup` |

`finishCall` is a guard `Finish[c] = 0` and an assignment: a goroutine that
would send on a full channel is blocked, as in Go, so a double finish shows as a
violated `FinishedAtMostOnce` and as a deadlock.

Details kept because something depends on them: a refused call has number 0 and
`Call` deletes under that number; the error of `Flush` is dropped and the call
stays registered; the `bufio.Writer` returns an earlier flush's error from then
on; a body that cannot be marshalled leaves its header in the buffer, to be sent
with the next message; `DecodeMessageBody(nil)` reads a value and then always
fails; a write into a dead connection may still be accepted by the kernel.

The environment answers each request it has read once: with the answer, with an
error (the method's, or a time limit's), or with an orphaned header if the answer
cannot be marshalled. What it cannot resolve it refuses, before it reads on and
with the body left on the stream; `Methods` says which kinds of methods callers
ask for. Before it reads any request it ends its handshake (`PeerHandshake`,
`greeted`), in which a decoder that is then dropped may have swallowed up to
`Overread` of the values that had arrived, the last of them in part; the client does
not wait for that, because it hears nothing of it. It may stop reading, or hang up, at any time, and what it sends to a
client that has closed is lost. `RpcSystem` shows that `RpcServer` is such a peer.

### RpcServer

| code | actions |
|---|---|
| `ServeConnection` | `Handshake`, `HandshakeRejects` |
| `serveCoder`, `read_request`, `read_header`, `search_service` | `ReadHeader`, `ReadHeaderFails`, `ReadPanics`, `ReadBody`, `ReadBodyFails`, `RefuseHeader`, `RefuseBody`, `Drain` |
| `request_handle`, the inner goroutine | `MethodReturns`, `CallInTime`, `WorkerSendsHeader`, `WorkerSendsBody`, `ResponseSent` |
| `request_handle`, its select | `CallTimesOut`, `WaiterSendsHeader`, `WaiterSendsBody` |
| `send_response` | `EncodeHeader`, `EncodeBody`, `EncodeBodyFails`, `Flush` |
| a client, seen from the server | `ClientSend`, `ClientHolds`, `ClientHangup` |

`send_response` is two steps, the header and the body with the flush, so that
`sendMutex` is what keeps a reply together. `Handshake` lets the decoder that
reads `ConnectionInfo` swallow up to `Overread` values that have already
arrived, whole or in part. A panic (`ReadPanics`) ends the process over TCP; over
HTTP net/http catches it after `ServeConnection`'s deferred close. Two kinds of
requests cause it: `"noMethod"`, which `search_service` lets through, and
`"valueOutput"`, a method with the right number of parameters whose output is a
value: `createMethod` registers it, and `CreateOutput` cannot take its element
type.

### RpcSystem, client and server composed

`C == INSTANCE RpcClient` and `S == INSTANCE RpcServer` act on the same `c2s` and
`s2c`; their environments (`PeerStep`, `ClientStep`) are not used. A step is one
of a caller, of the receiver, of the users of the client, of the server's reader
or of a handler, and leaves the other end's variables alone. The client's
`peerOpen` is "the server has neither closed nor crashed", the server's
`clientOpen` is `~isClosed`. The server's `Limits`, `Transports` and `Overread` stay
parameters: the default `ProcessingTimeout` of none is an instance like any other, and
what the client sends before `Handshake` may be swallowed or cut. `S` fixes only what
this client and its users do: a valid `ConnectionInfo`, inputs that can be marshalled
and decoded, and methods that, if they return, return something that can be
marshalled. Both directions are bounded: `WireCapacity` stops the
client's flush, `ReplyCapacity` (`FitsReply`) the server's.

`P` is `RpcClient` again, with its abstract peer computed from the server's state:
a request is in flight from the moment its body has been read until the flush that
answers it, a refusal from the header to its flush, and a header whose body has not
arrived yet is still on its way (`AtServer`, `OnTheWay`); the server's handshake is
`PeerHandshake` (`Greeted`). `ServerIsPeer == P!Spec`
therefore discharges what `RpcClient` assumes about servers, and with it makes the
theorems about `RpcClient` theorems about a client of this server;
`CallsKeepContract` says so of the contract, `RpcCalls`. What `P` leaves out of the server is
visible in its mapping: `sendMutex`, `waitGroup` and the two goroutines of a
handler.

### LoadBalancedClient

| code | actions |
|---|---|
| `dial` | `DialReuses`, `DialAnew`, `DialError` (with `ConnectFails`, `DialFails`), `DialSucceeds` |
| `XMakeDial`, `MakeDial(HTTP)`, `MakeDialWithTimeout` | `ConnectFails`, `Connect`, `DialFails`, `DialSucceeds` |
| its goroutine, `CreateClient(HTTP)` | `CreateClient` |
| `client.Call` | `CallSent`, `CallAnswered`, `CallFails`, `CallTimesOut`, `GoDown` |
| `Call`, `Close` | `Call`, `Close`, `ContextDone` (environment) |
| `BroadcastCall` | `BroadcastCall`, `BroadcastReturns`, `BroadcastExpires` (environment) |
| a broadcast's goroutine | the above, then `SettleError`, `SettleAnswer`, `SettleCrashes` |

A task is a goroutine in `call()`: a caller, or the broadcast's goroutine for one
server, which bears the server's name. A task dials at most once, so a client is
named by the task that dialled it. `down` is the set of clients that are shut down,
`connection` says which are closed, and `Unavailable` is both, as in `IsAvailable`. A
client that was closed may still deliver an answer it had read before. The mutex is held from `DialAnew` to `DialSucceeds` or
`DialError`, across the network; `DialReuses` and `Close` are whole critical
sections. `CallSent` to `CallTimesOut` are what `RpcCalls` promises of a client: it
is answered only while the client is not shut down, may fail at any time and must
once the client is unavailable, and the context ends the wait. `CallSent` is the
sending: `sendCall` waits for the client's mutex and for the server to read, and looks
at no context. Only on an unavailable client is it sure to end.

`creator` is the goroutine that runs `createClient`. Its channel is unbuffered:
after a timeout it stays in `"created"` or `"failed"` for ever, and its connection
has been closed by the deferred function. `SettleCrashes` is the read of the map
that the mutex does not protect: an entry that is gone is dereferenced (`"nil"`),
and if `dial` or `Close` can write at that moment the Go runtime may end the
process (`"race"`).

Left out: a second broadcast at the same time, a server list that names a server
twice, and the load balancer, whose answers (`Call`, `BroadcastCall`) are any
server, any list or an error: `Discovery` is about which.

### Registry and Discovery

`Discovery` extends `Registry`: a step is one of a server or the registry, of a
goroutine that uses the load balancer, or of the clock.

| code | actions |
|---|---|
| `registerServer` (POST) | `Register` in `Heartbeat`, `Beat` and `PostLost` |
| `getAliveServerList` (GET) | `ServeGet`, with `AliveServers`, `DeleteExpired`, `Sorted` |
| `Heartbeat`, `sendHeartbeat` | `Heartbeat`, `StartTicker`, `Beat`, `BeatFails` |
| `RefreshServerList` | `KeepList`, `SendGet`, `GetFails`, `InstallList` |
| `GetServer`, `GetServerList` | the above, then `PickInTurn` or `PickOrRead` |
| `UpdateServerList` | `UpdateServerList` |
| processes, time (environment) | `RegistryCrash`, `RegistryStart`, `ServerCrash`, `ServerStart`, `Tick` |

Instants are kept as ages: `serverMap[s]` is the time since `lastUpdateTime`,
`listAge` the time since `lastUpdate`, `sinceTick[s]` the time since the ticker was
started or last ticked. The ticker starts when the first POST has returned
(`StartTicker`, `server.go:322-324`), which may be `Latency` after it was handled
(`"posting"`): the first two beats can be two latencies further apart than the heart
rate, `FirstGap`. An age stops counting where no comparison can tell it apart any more
(`Timeout`, `UpdateTimeout + Latency`, `Horizon`), so time goes on for ever
although the state space is finite. The clock may not pass the moment at which a
beat, the answer to the first one, or a call of the load balancer, has taken `Latency`; this is the only
assumption about speed, and as a safety assumption it needs no fairness. `POST`
and `GET` have no time limit in the code: an exchange that hangs for longer is
outside the model. Other deliberate simplifications:

* a POST that is handled after its server crashed counts as handled before;
* a server calls `Heartbeat` once for each time it is up;
* `readWriteMutex` is one mutex: readers change nothing;
* what `UpdateServerList` is given are servers that are up, without repetition:
  a list that was wrong when it was set is nobody's promise;
* the random source of `RandomSelectMode` has no state worth keeping.

`BeatFails` ends the heartbeat with the POST lost, or handled and only its answer
lost. `GetFails` has the same two forms: the registry may have deleted its
expired entries. `serverIndex` starts at a random number and is kept across
lists of other lengths, as in the code. `recent` is a history variable: the last
servers given out in turn, no more than the list is long.

## 3. The runs

Deadlock is checked in every run. `Quiescent` is the only stuttering step: it is
enabled when everything is over, so a state in which goroutines are left
blocked has no successor and is reported. In `RpcServer` it also allows for the
default configuration's wait in `waitGroup.Wait` that nothing ends (below).

| run | instance | shows |
|---|---|---|
| `client_safety` | 3 calls, to a service that exists or does not: one whose context may end, one whose inputs cannot be marshalled, one whose answer the server cannot marshal; 2 messages fit in the request direction; the handshake may swallow or cut one value | `TypeOK`, `FinishedAtMostOnce`, `NoCallerLeftBehind`, `AnswerIntegrity` (for answers that are scalars), `OutputSettled`, and that the client implements `RpcCalls!Spec` |
| `client_progress` | 2 calls, one cancellable with an undecodable answer; one message fits, which the handshake may swallow or cut | `TimeoutHonoured`, `ConnectionLossDrains`, and `RpcCalls!FairSpec` |
| `client_foreign_answer` | 2 calls, struct answers, one unmarshalable | **violated**: `AnswerIntegrity` |
| `client_shutdown` | 2 ordinary calls | **violated**: `ShutdownOnlyByRuntimeError` |
| `server` | 2 requests of every pair of the eight kinds, limit or none, TCP or HTTP | `TypeOK`, `RepliesFramed`, `OneReply`, `RepliesBeforeClose`, `ConnectionReclaimed`, `TimelyReply` |
| `server_handshake` | 2 ordinary requests | **violated**: `RequestAnswered` |
| `server_unknown_method` | 2 requests, ordinary or of a missing method | **violated**: `UnknownMethodReported` |
| `system` | client and server, 2 calls of registered, unregistered or missing methods; one message fits in the request direction, and the handshake may swallow or cut it; a time limit or none | `ServerIsPeer`, `CallsKeepContract`, `EveryCallReturns`, `BothEndsTerminate` |
| `system_circular_wait` | 3 calls to an unregistered service, one cancellable; one message fits in each direction | **violated**: `TimeoutCoversSending` |
| `load_balanced` | a broadcast to up to 2 servers, with an output or with nil, one `Call`, `Close` at any time; a `ConnectionTimeout` or none | `TypeOK`, `BroadcastComplete`, `NoConnectionLeaked`, `BroadcastFindsItsClients`, `FailureEndsBroadcast`, `ContextEndsCall` |
| `discovery` | 2 servers, 2 callers; a minute is 2 units, `Timeout` 5 units, the default heart rate, `UpdateTimeout` and `Latency` one unit | `TypeOK`, `BeatingServerListed`, `DeadServerDropped`, `RoundRobinFair` |
| `heartbeat_stops` | the same | **violated**: `HeartbeatGoesOn` |

Bounds. Each call or request is made once; sequence numbers are as many as
calls. Three calls are enough for one to be in the receiver's hands, one in
`sendCall` and one queueing or timing out, and for `terminateCalls` to find
several; with two requests every pair of kinds meets on the encoder, and the
request a client could not send meets its successor. `WireCapacity` counts
values, two per message; at 2 a second sender blocks in its flush. In `RpcClient`
the reply direction is not bounded (a server that is blocked in a write behaves
like one that has stopped reading, which the environment may do at any time); in
`RpcSystem` it is. Symmetry is
not used for calls, which differ by kind. The counter is a natural number; 2^64 calls
are out of reach of a connection. `RepliesFramed` and `TimelyReply` leave out
unmarshalable answers, which `client_foreign_answer` is about, and no flush waits in
`RpcServer`: its client goes on reading. `client_foreign_answer`, `client_shutdown`,
`server_unknown_method` and `system_circular_wait` set `Overread` to 0, so that their
counterexamples owe nothing to the handshake.

In `system` no context ends, because contexts never reach the server and
`client_progress` has them: that every call returns is up to the server. It is
therefore said of servers with a time limit, and of calls made after the handshake:
one made before may be swallowed, and one whose method hangs is never answered
without a limit. The instance contains both, and neither the calls that follow nor
`ServerIsPeer` suffer. For the same reason `BothEndsTerminate` expects the server to
close after `Close` only if it has a limit. Two calls
owe the client at most 8 values (an unread body is refused a second time), so that
with a `ReplyCapacity` of 8 the server never waits, which `EveryCallReturns` says it
needs (`RepliesFit`); the run uses TCP, as over HTTP only a panic differs, which `server` checks
and the theorems cover; with the reply direction at 2 and three calls
`system_circular_wait` is the smallest instance in which the three parties can
wait for each other: one reply ends the receiver, one fills the stream, and one
caller is left in its flush. In `load_balanced` two servers and one caller are
enough for a server to be dialled by one task while another waits for the mutex,
has its client replaced, or sees its answer arrive first; each client is dialled
once, so a server's entry is replaced up to twice.

In `discovery` the heart rate is 2 units, the second beat, whose ticker started as
late as it could, comes at most 4 units after the first (`FirstGap`), and an entry lives
for 5, so that the configured times just suffice (`HeartRateSuffices`), and an expired
entry, a refresh and a beat may coincide. `Staleness` is 5 + 1 + 2 = 8 units and
`Horizon` is 8, so that a server that has been down for too long can be told apart. Two servers make a list whose order and length
change under the index, which starts beyond its end (3); a second caller
refreshes, fails or sets the list between the two critical sections of the first.
The callers are symmetric, the servers, which are sorted, are not. All of these
are safety properties without a bound on time.

Fairness. The Go scheduler runs every goroutine that can go on, and its mutexes
do not starve a waiter, hence weak fairness of each caller's own steps, of the
receiver, of the server's reader and of each handler. A timer that is running
fires, hence weak fairness of the server's `CallTimesOut`; `net.DialTimeout` ends,
by its own limit or the operating system's, and a call that waits in `Call`'s select
leaves it when its context is done (`TimeoutHonoured`), or its client is unavailable
(`ConnectionLossDrains`), hence weak fairness of a task's steps in
`LoadBalancedClient`, with `DialFails` only if there is a `ConnectionTimeout`. Sending
is not among them: a server that does not read keeps a call in `sendCall` for ever,
whatever its context says (finding 3). `FailureEndsBroadcast` and `ContextEndsCall`
therefore say that sends end (`SendsEnd`), the first of every server of the
broadcast, the second of the call's own server only. Nothing makes a context end, a
client close or hang up, a method return, or a server read or answer: these have
no fairness, so `TimelyReply` and `ConnectionReclaimed` hold with methods that
never return.

### Disagreements between the code and what is said of it

1. *A nil error with somebody else's output* (`client_foreign_answer`). A body
   that json cannot marshal leaves its header in the `bufio.Writer`
   (`json_coder.go:47`). It goes out before the next reply, and the client
   decodes that reply's header into a struct output and returns nil.
2. *One reply can shut the client down* (`client_shutdown`). Error replies and
   replies that come after their caller's timeout are read with
   `DecodeMessageBody(nil)` (`client.go:349`, `:353`), which never succeeds: the
   receiver leaves its loop and fails all pending calls, although
   `client.go:43` calls this state "close by runtime error".
3. *Client and server can wait for each other for ever* (`system_circular_wait`).
   An error reply makes the receiver leave its loop and wait for `requestMutex`
   (`client.go:115`). A caller holds it in a flush that waits for the server to
   read; the server's reader waits in `send_response` (`server.go:137`) for room in
   the reply direction, which nobody reads any more. `Call` looks at its context
   only after `startCall` returned (`client.go:274`), so that no timeout helps,
   although `client_unit_test.go:64-65` lets it range "from client sending the
   request to server". It takes requests and replies that fill what the kernel
   buffers.
4. *Requests behind the handshake can be lost* (`server_handshake`). The
   handshake's decoder reads ahead and is thrown away (`server.go:108`).
5. *An unknown method takes the server down* (`server_unknown_method`).
   `search_service` sets its error and returns nil (`server.go:207-211`).
6. *A heartbeat stops for ever* (`heartbeat_stops`). The first POST that returns an
   error ends the loop (`server.go:322-328`); after one lost POST, or a restart of
   the registry at the wrong moment, a server that is up is never listed again,
   although `server.go:312` says that a heartbeat is sent "every once in a while".
   `BeatingServerListed` is therefore about the servers whose loop still runs.

Also seen, and part of the model: without a `ProcessingTimeout`, the default,
`request_handle` returns before `defer waitGroup.Done()` is reached
(`server.go:243-258`), so that a connection that served one request is never
closed by the server. `ConnectionReclaimed` is therefore stated with a limit,
and `RepliesBeforeClose` says more with one. The comment at `registry.go:31`
says that the default timeout is five minutes and the constant is two; the heart
rate follows the constant, so nothing else depends on it. `Heartbeat`'s default is
one minute whatever timeout the registry was created with: with a timeout of a
minute or less a server that beats is dropped between beats, which is what
`HeartRateSuffices` excludes; it also asks for room for two latencies, as the ticker
starts only once the first POST has returned. `createMethod` checks the number of parameters but
not that the output is a pointer, which `CreateOutput` says it must be
(`service.go:43`): such a method is registered, and the first request for it
panics. It is an outcome of the model (`ReadPanics`) that no property excludes. In the load-balanced client:

* a broadcast with a nil output, for which there is "no need to set value"
  (`load_balanced_client.go:95`), always fails if it has a server to call: the
  nil is what the client decodes the answer into, which fails and takes the client
  down;
* `BroadcastCall` reads the map without the mutex that is there to "protect" it
  (`load_balanced_client.go:17`, `:114`), for a log line: the runtime may detect
  the race and end the process, and if a `Close` or another task's `dial` has
  removed the entry a nil client is dereferenced. `BroadcastFindsItsClients`
  says that the second needs somebody else;
* with a `ConnectionTimeout` of 0 a server that accepts a connection and does not
  answer its CONNECT keeps the mutex, and everybody, for ever. Hence the condition
  in `FailureEndsBroadcast` and `ContextEndsCall`;
* a client that was shut down keeps its connection until the next `dial` of its
  address, or `Close`.

## 4. What is proved

Every theorem is about all behaviours of a specification and all values of its
constants that satisfy the assumptions named in the module (`CallsAssumption`,
`RequestsAssumption`, `SystemAssumption`, `TasksAssumption`, `RegistryAssumption`,
`DiscoveryAssumption`). They say that sets of calls are sets of calls, that the
receiver and `None` are not among them, that sets are finite where the code counts
and that capacities, times and indexes are natural numbers; the load balancer's
timeout is not 0, as its constructor sees to. None of the properties is inductive.
Each proof has an invariant that is, one lemma per conjunct of it (`...Step`) with
one step per action, and ends in the theorems; each inductive invariant was checked
with TLC before it was proved. Lemmas that several actions need sum up what the
actions do to one piece of state (`WithoutCall`, `EncodeEffect`, `QuietStep`,
`AnswersFlushed`).

### The client

`RpcClientProofs`, for every server: `TypeCorrect`, `FinishedOnce`
(`FinishedAtMostOnce`), `NobodyLeftBehind` (`NoCallerLeftBehind`) and `OutputOwned`
(`OutputSettled`, an action property), from

* `MutexInv` - who holds each mutex, by program counter. It makes `UndoSend` and
  `TerminateOne` exclusive, which only `requestMutex` does: `terminateCalls`
  leaves the calls it finishes in the map, and `sendCall`'s undo looks them up.
* `NumberInv` - a number is given to one call, the map files a call under its
  number, and 0 is nobody's. Without it a reply, or the deletion of a refused
  call that timed out, could take another call out of the map.
* `ShutdownInv` - `isShutdown` holds exactly once the receiver has terminated,
  and then no call is being sent. It is why no call is added after the last
  pass over the map.
* `FinishInv` - a call in the map, in the receiver's hands or on
  `terminateCalls`' list has not been finished, and is in one place only.
* `CoveredInv` - `NoCallerLeftBehind`, strengthened to calls being encoded.

`RpcCallsProofs` adds what the streams contain, and proves `OwnAnswer`
(`AnswerIntegrity`) and `ClientRefinesCalls` (`ImplementsRpcCalls`) under one
hypothesis, `Marshals`: every answer can be marshalled, or answers are scalars.
It cannot be dropped: `client_foreign_answer` is the counterexample without it.

* `RequestInv` - behind a header on its way to the server is its own call's body,
  unless the header is *dead*: its number was given and is no longer in the map.
  The orphaned headers in the encoder's buffer are dead, or belong to the call
  that is just being undone under `requestMutex`. The handshake's decoder cuts values
  off the front only, so that what is left is linked as before
  (`RequestsReadAhead`), and the rest of a cut value stands behind no header.
* `ReplyInv` - the same of the replies; where answers are scalars a header may also
  stand behind an orphaned header, because it cannot be decoded as an answer. It
  continues in the receiver, which has a header in hand and its body still on the
  stream.
* `OutcomeInv` - whatever was, or is about to be, delivered without an error is the
  call's own answer.

The refinement maps every action to one of `RpcCalls`, or to a stutter:
`RejectCall`, `UndoSend`, `RecvFinish` and `TerminateOne` settle a call,
`TerminateLockEntity` is `GoDown`, `SelectFinish` and `CancelCall` return.

### The server

`RpcServerProofs`, for any number of requests of any kinds: `TypeCorrect`, `Framing`
(`RepliesFramed`), `AnsweredOnce` (`OneReply`) and `ClosedWhenAnswered`
(`RepliesBeforeClose`), from

* `MutexInv` - `sendMutex` is held exactly by the goroutine inside `send_response`;
* `HandlerInv` - how the two goroutines of a request meet: the worker answers only
  if the waiter took its signal, the waiter only if its timer won;
* `WaitInv` - `waitGroup` is the number of handlers that have not called `Done`.
  This is why the reader cannot close under one of them;
* `RequestInv` - the reader is in step with the client, whatever the handshake's
  decoder swallowed, and a handler's input is its own request's, or nothing;
* `PlaceInv` - a request is in one place at a time: unsent, on its way, with the
  reader, with its handler, or answered. `OneReply` is the last of these;
* `FrameInv` - the buffer is empty between two replies and holds one header, the
  sender's own, during one.

### Client and server together

`RpcSystemProofs`, for any calls, any capacity of either direction, any `Overread`,
with and without a `ProcessingTimeout`, over TCP and HTTP:

* `ServerRefinesPeer`: `Spec => ServerIsPeer`. Every step of the two ends is a step
  of `RpcClient` with its abstract peer, or leaves all of it unchanged: `Handshake` is
  `PeerHandshake`, `ReadBody` is `PeerTake`, a header that cannot be served or a body that cannot be decoded is
  `PeerRefuse`, the flush of an answer or of a refusal is `PeerReply`, and closing or
  crashing is `PeerHangup`; handing a reply from goroutine to goroutine and writing
  its header to the buffer are stutters.
* `ContractKept`: `Spec => CallsKeepContract`, by instantiating `RpcCallsProofs` with
  the same mapping and composing the two refinements. `Marshals` holds there, since
  the methods of `RpcSystem` return what can be marshalled.
* `CallersServed`: `FinishedAtMostOnce`, `NoCallerLeftBehind` and `AnswerIntegrity` of
  the client of this server, in the same way. A call that the handshake swallowed, or
  whose method hangs, is not one left behind by the receiver: it is in the map until
  its context or the connection ends. That it does not wait for ever is not claimed.

`SystemInv` is what the two ends know of each other. `CutInv`: what the handshake cut is
the first value the server reads, and the last, because it is not a header. `CountInv`: the counter is one
more than the number of calls that got a number, so that no number exceeds the
number of calls and the server has a handler for it. `FreshInv`: a number that was
sent was given, is not that of a call still to be sent, and is in one place (once on
the connection, with the reader, or with a handler), so that no handler is started
twice. `ReaderInv`, `HandlerInv` and `SendInv`: the reply in the buffer is the one
its sender means to send, and an error for whoever lost the race.

### The load-balanced client

`LoadBalancedClientProofs`, for any servers and callers: `TypeCorrect`,
`ConnectionsKept` (`NoConnectionLeaked`), `BroadcastCorrect` (`BroadcastComplete`) and
`ClientsFound` (`BroadcastFindsItsClients`), from

* `MutexInv` and `AddressInv` - the mutex is held exactly across `XMakeDial`, and a
  goroutine of a broadcast works on its own server;
* `MapInv` - a client is filed under the address it was dialled for, and the entry
  of an address is empty while it is dialled: the new client replaces nobody whose
  connection is open. `NoConnectionLeaked` itself is the other half;
* `CastInv` - what the broadcast's variables say of the goroutines that ended: an
  error of any is `cast.error`, an answer of any is `cast.replyDone`;
* `FoundInv` - if nobody else uses the load-balanced client, a goroutine that got a
  client leaves it in the map.

### Registry, heartbeats and load balancers

`DiscoveryProofs`, for any finite set of servers, any callers and any timeouts,
heart rate, latency and starting index: `TypeCorrect`, `BeatingListed`
(`BeatingServerListed`) and `DeadDropped` (`DeadServerDropped`). The invariant follows
an address from one copy to the next. `BeatInv`: the entry of a server that beats is
not older than its last tick and the `Latency` its ticker may have started late, and if
there is none the registry is younger than that. `EntryInv`: a server has not been down for longer than its valid entry is old.
`AnswerInv`: a server in an answer has not been down for longer than `Timeout` and the
time the call has taken. `ListInv`: one in the list, not for longer than that and the
list's age. `RecentInv`: a caller about to choose saw a list that was recent when its
call began. `UpInv` and `LengthInv` are what these rest on. The sum of the four is
`Staleness`; the proof shows that it does not depend on what fails or restarts, nor
on how many goroutines refresh.

`RoundRobinProofs` proves `TurnsTaken` (`RoundRobinFair`). `TurnInv`: the servers given
out last stand behind one another in the list, up to the index and across the list's
end. A pick moves the index by one (`PickTurn`), and a list with other servers
starts the turns anew. The case that matters is a refresh that brings the same
servers (`InstallTurn`): the answer is sorted (`ReplyInv`), and there is one sorted
list of a set, since a server's place in it is the number of servers not above it
(`SortedRank`). This needs no induction over the list.

### Only model-checked

Liveness and ENABLED are out of the prover's reach. So `TimeoutHonoured`,
`ConnectionLossDrains`, `FairlyImplementsRpcCalls`, `ConnectionReclaimed`,
`TimelyReply`, `EveryCallReturns`, `BothEndsTerminate`, `FailureEndsBroadcast` and
`ContextEndsCall` are checked on the instances of section 3 and not proved, nor is
the absence of deadlock. The runs that expect a violation need no proof: their
counterexample is one.

## 5. Not modelled, and what is left

Not modelled: construction of servers and services, the accept loop, which ends at
the first error of `Accept` (`server.go:96`), the HTTP multiplexer, the refusal of
other methods than CONNECT and the info page (set-up and I/O); `callCounts`, which
only the info page reads; logging; the contents of error messages; the bodies of
HTTP responses, which the load balancer and the heartbeat never close; the 4 KiB
limit at which a `bufio.Writer` flushes early; panics of the services' own methods;
what `reflect` makes of types, beyond an output that is no pointer.

Left:

1. The same composition for the load-balanced client: `CallSent` to `CallTimesOut`
   restate `RpcCalls` for clients that are dialled, which no theorem says yet.
2. Methods that return an error, or what cannot be marshalled, in `RpcSystem`: they are
   in `RpcServer` and `RpcClient`, and what an orphaned header does is shown against
   the abstract peer only (`client_foreign_answer`).
3. The invariants that progress rests on (in which states is a goroutine enabled) as
   safety properties, which would be within the prover's reach.
