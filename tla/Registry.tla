------------------------------ MODULE Registry ------------------------------
(***************************************************************************)
(* registry.Registry and the heartbeats that servers send it, against a    *)
(* clock.  Instants are kept as ages (the time since) that stop counting   *)
(* once nothing compares them any more, so that time may pass for ever.    *)
(* Servers and the registry crash and restart; a restarted registry has    *)
(* forgotten everybody.  A heartbeat that is due is sent and handled, or   *)
(* has failed, within Latency; so is the answer to the first one, which    *)
(* the ticker waits for.                                                   *)
(***************************************************************************)
EXTENDS Naturals, FiniteSets, Sequences, Functions

CONSTANTS
    Servers,    \* numbers, in the order of the servers' addresses
    Minute,     \* a minute, in units of the clock
    Timeout,    \* Registry.Timeout, 0 for never
    heartRate,  \* the argument of Heartbeat, 0 for the default
    Latency,    \* what a due heartbeat, or a call of the load balancer that
                \* has begun, takes at most, its HTTP exchange included
    Horizon     \* where deadFor stops counting

DefaultTimeout == 2 * Minute

\* Heartbeat's default does not look at the registry's own Timeout.
HeartRate == IF heartRate = 0 THEN DefaultTimeout - Minute ELSE heartRate

ASSUME RegistryAssumption ==
    /\ Servers \subseteq Nat /\ IsFiniteSet(Servers)
    /\ Minute \in Nat \ {0}
    /\ Timeout \in Nat /\ heartRate \in Nat
    /\ Latency \in Nat /\ Horizon \in Nat

VARIABLES
    registryUp,
    upFor,      \* how long the registry has been up
    serverMap,  \* the registered servers: the age of lastUpdateTime
    serverUp,
    deadFor,    \* how long a server that is down has been down
    heartbeat,  \* off, posting (the first POST was handled, its answer is on
                \* its way), ticking (err = nil) or stopped (err # nil)
    sinceTick   \* the time since the first POST was handled, then since the
                \* ticker was started or its last tick was handled

registryVars == <<registryUp, upFor, serverMap>>
serverVars   == <<serverUp, deadFor, heartbeat, sinceTick>>

\* How late a heartbeat can be, counted from the ticker's last tick.
Patience == HeartRate + Latency

\* The longest that two heartbeats can be apart: the first and the second, as
\* the ticker is created only when the first one has been answered.
FirstGap == Latency + Patience

Aged(n, cap) == IF n < cap THEN n + 1 ELSE n

RegistryTypeOK ==
    /\ registryUp \in BOOLEAN /\ upFor \in 0 .. FirstGap + 1
    /\ DOMAIN serverMap \subseteq Servers
    /\ \A s \in DOMAIN serverMap : serverMap[s] \in 0 .. Timeout
    /\ serverUp \in [Servers -> BOOLEAN]
    /\ deadFor \in [Servers -> 0 .. Horizon]
    /\ heartbeat \in [Servers -> {"off", "posting", "ticking", "stopped"}]
    /\ sinceTick \in [Servers -> 0 .. Patience]

RegistryInit ==
    /\ registryUp = TRUE /\ upFor = 0 /\ serverMap = << >>
    /\ serverUp = [s \in Servers |-> TRUE]
    /\ deadFor = [s \in Servers |-> 0]
    /\ heartbeat = [s \in Servers |-> "off"]
    /\ sinceTick = [s \in Servers |-> 0]

-----------------------------------------------------------------------------
(* The registry. *)

\* Mutant: only a new address is entered, a known one is not updated.
RegisterNew(s) ==
    serverMap' = [t \in DOMAIN serverMap \cup {s} |->
                    IF t \in DOMAIN serverMap THEN serverMap[t] ELSE 0]

\* registerServer: lastUpdateTime is now, for a new and a known address.
Register(s) ==
    serverMap' = [t \in DOMAIN serverMap \cup {s} |->
                    IF t = s THEN 0 ELSE serverMap[t]]

\* getAliveServerList: the servers it returns; it deletes the others.
AliveServers ==
    {s \in DOMAIN serverMap : Timeout = 0 \/ serverMap[s] < Timeout}

DeleteExpired == serverMap' = Restrict(serverMap, AliveServers)

\* Mutant: the list is left in the map's order.
InMapOrder(S) == {list \in [1 .. Cardinality(S) -> S] : IsInjective(list)}

\* sort.Strings: the one list of the servers S in ascending order.
Sorted(S) ==
    {list \in [1 .. Cardinality(S) -> S] :
        \A i, j \in 1 .. Cardinality(S) : i < j => list[i] < list[j]}

RegistryCrash ==
    /\ registryUp
    /\ registryUp' = FALSE /\ upFor' = 0
    /\ serverMap' = << >>
    /\ UNCHANGED serverVars

RegistryStart ==
    /\ ~registryUp
    /\ registryUp' = TRUE
    /\ UNCHANGED <<upFor, serverMap, serverVars>>

-----------------------------------------------------------------------------
(* The servers. *)

\* httpClient.Do returns an error: the POST was lost, or only its answer.
PostLost(s) ==
    \/ UNCHANGED serverMap
    \/ registryUp /\ Register(s)

\* Heartbeat: one POST at once, which is handled or fails.
Heartbeat(s) ==
    /\ serverUp[s] /\ heartbeat[s] = "off"
    /\ \/ /\ registryUp
          /\ Register(s)
          /\ heartbeat' = [heartbeat EXCEPT ![s] = "posting"]
       \/ /\ UNCHANGED serverMap
          /\ heartbeat' = [heartbeat EXCEPT ![s] = "stopped"]
    /\ sinceTick' = [sinceTick EXCEPT ![s] = 0]
    /\ UNCHANGED <<registryUp, upFor, serverUp, deadFor>>

\* The first sendHeartbeat returns: the goroutine creates its ticker, or, if
\* the answer was lost, leaves its loop at once.
StartTicker(s) ==
    /\ heartbeat[s] = "posting"
    /\ \E outcome \in {"ticking", "stopped"} :
         heartbeat' = [heartbeat EXCEPT ![s] = outcome]
    /\ sinceTick' = [sinceTick EXCEPT ![s] = 0]
    /\ UNCHANGED <<registryVars, serverUp, deadFor>>

Due(s) == heartbeat[s] = "ticking" /\ sinceTick[s] >= HeartRate

\* sendHeartbeat; the ticker keeps its own pace however late the POST was.
Beat(s) ==
    /\ Due(s) /\ registryUp
    /\ Register(s)
    /\ sinceTick' = [sinceTick EXCEPT ![s] = @ - HeartRate]
    /\ UNCHANGED <<registryUp, upFor, serverUp, deadFor, heartbeat>>

\* The POST fails, because the registry is down or on its way: the loop is
\* left for good.
BeatFails(s) ==
    /\ Due(s)
    /\ PostLost(s)
    /\ heartbeat' = [heartbeat EXCEPT ![s] = "stopped"]
    /\ sinceTick' = [sinceTick EXCEPT ![s] = 0]
    /\ UNCHANGED <<registryUp, upFor, serverUp, deadFor>>

\* A server goes down: its last POST has been handled or is lost.
ServerCrash(s) ==
    /\ serverUp[s]
    /\ serverUp' = [serverUp EXCEPT ![s] = FALSE]
    /\ heartbeat' = [heartbeat EXCEPT ![s] = "off"]
    /\ sinceTick' = [sinceTick EXCEPT ![s] = 0]
    /\ UNCHANGED <<registryVars, deadFor>>

ServerStart(s) ==
    /\ ~serverUp[s]
    /\ serverUp' = [serverUp EXCEPT ![s] = TRUE]
    /\ deadFor' = [deadFor EXCEPT ![s] = 0]
    /\ UNCHANGED <<registryVars, heartbeat, sinceTick>>

RegistryNext ==
    \/ RegistryCrash \/ RegistryStart
    \/ \E s \in Servers :
         \/ Heartbeat(s) \/ StartTicker(s) \/ Beat(s) \/ BeatFails(s)
         \/ ServerCrash(s) \/ ServerStart(s)

\* sendHeartbeat is under way or the ticker runs.
Beating(s) == heartbeat[s] \in {"posting", "ticking"}

\* A unit of time passes, unless an answer or a heartbeat is as late as it can be.
RegistryTick ==
    /\ \A s \in Servers :
         /\ heartbeat[s] = "posting" => sinceTick[s] < Latency
         /\ heartbeat[s] = "ticking" => sinceTick[s] < Patience
    /\ upFor' = IF registryUp THEN Aged(upFor, FirstGap + 1) ELSE 0
    /\ serverMap' = [s \in DOMAIN serverMap |-> Aged(serverMap[s], Timeout)]
    /\ deadFor' = [s \in Servers |->
                     IF serverUp[s] THEN 0 ELSE Aged(deadFor[s], Horizon)]
    /\ sinceTick' = [s \in Servers |->
                       IF Beating(s) THEN sinceTick[s] + 1 ELSE 0]
    /\ UNCHANGED <<registryUp, serverUp, heartbeat>>

-----------------------------------------------------------------------------
\* The configured times leave a heartbeat room to be late, the second one twice:
\* its ticker starts late, and it is late itself.
HeartRateSuffices == Timeout = 0 \/ FirstGap < Timeout

\* A server whose heartbeat runs is in the list that GET returns, as soon as
\* the registry has been up for as long as two beats can be apart: it is
\* neither expired between two beats, the first two included, nor forgotten by
\* a registry that restarted.
BeatingServerListed ==
    HeartRateSuffices =>
        \A s \in Servers :
            (Beating(s) /\ upFor > FirstGap) => s \in AliveServers

\* server.go:312, "Heartbeat send a heartbeat message every once in a while":
\* the same for every server that is up and called Heartbeat.
HeartbeatGoesOn ==
    HeartRateSuffices =>
        \A s \in Servers :
            (serverUp[s] /\ heartbeat[s] # "off" /\ upFor > FirstGap)
                => s \in AliveServers
=============================================================================
