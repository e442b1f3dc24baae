----------------------------- MODULE Discovery ------------------------------
(***************************************************************************)
(* A load balancer in front of the registry: the goroutines that call      *)
(* GetServer and GetServerList of one LoadBalancerRegistrySide, with the   *)
(* server list and round-robin index it shares with the                    *)
(* LoadBalancerClientSide it embeds.  RefreshServerList and the choice of  *)
(* a server are two critical sections of readWriteMutex; the first one     *)
(* keeps it for the whole HTTP exchange.                                   *)
(***************************************************************************)
EXTENDS Registry

CONSTANTS
    Callers,        \* the goroutines that use the load balancer
    UpdateTimeout,  \* LoadBalancerRegistrySide.timeout
    StartIndexes    \* the random serverIndex a load balancer starts with

ASSUME DiscoveryAssumption ==
    /\ UpdateTimeout \in Nat \ {0}
    /\ StartIndexes \subseteq Nat

VARIABLES
    serverList, serverIndex,
    listAge,    \* the age of lastUpdate
    pc,         \* of each caller: idle, get, answer, pick
    elapsed,    \* how long its call has taken
    reply,      \* the list in the answer to its GET
    recent      \* the last servers given out in turn since the list changed

balancerVars == <<serverList, serverIndex, listAge, recent>>
callerVars   == <<pc, elapsed, reply>>

vars == <<registryVars, serverVars, balancerVars, callerVars>>

Members(list) == {list[i] : i \in DOMAIN list}

\* The age of a list that is too old for every caller that is on its way.
Obsolete == UpdateTimeout + Latency

\* Type invariant.  The round-robin index stays below the number of servers
\* once it has been used.
TypeOK ==
    /\ RegistryTypeOK
    /\ serverList \in Seq(Servers) /\ reply \in [Callers -> Seq(Servers)]
    /\ serverIndex \in StartIndexes \cup (0 .. Cardinality(Servers))
    /\ listAge \in 0 .. Obsolete
    /\ pc \in [Callers -> {"idle", "get", "answer", "pick"}]
    /\ elapsed \in [Callers -> 0 .. Latency]
    /\ recent \in Seq(Servers)

\* lastUpdate is the zero time: the first call refreshes.
Init ==
    /\ RegistryInit
    /\ serverList = << >> /\ listAge = Obsolete
    /\ serverIndex \in StartIndexes
    /\ pc = [g \in Callers |-> "idle"]
    /\ elapsed = [g \in Callers |-> 0]
    /\ reply = [g \in Callers |-> << >>]
    /\ recent = << >>

Goto(g, label) == pc' = [pc EXCEPT ![g] = label]

\* readWriteMutex is held across steps only by a caller that refreshes.
Unlocked == \A g \in Callers : pc[g] \notin {"get", "answer"}

-----------------------------------------------------------------------------
(* RefreshServerList *)

\* The list is recent enough.
KeepList(g) ==
    /\ pc[g] = "idle" /\ Unlocked
    /\ listAge < UpdateTimeout
    /\ Goto(g, "pick")
    /\ UNCHANGED <<elapsed, reply, balancerVars, registryVars, serverVars>>

SendGet(g) ==
    /\ pc[g] = "idle" /\ Unlocked
    /\ listAge >= UpdateTimeout
    /\ Goto(g, "get")
    /\ UNCHANGED <<elapsed, reply, balancerVars, registryVars, serverVars>>

\* Registry.ServeHTTP, case GET.
ServeGet(g) ==
    /\ pc[g] = "get" /\ registryUp
    /\ \E list \in Sorted(AliveServers) : reply' = [reply EXCEPT ![g] = list]
    /\ DeleteExpired
    /\ Goto(g, "answer")
    /\ UNCHANGED <<elapsed, balancerVars, registryUp, upFor, serverVars>>

\* The call is over, whatever it returns.
Return(g) ==
    /\ Goto(g, "idle")
    /\ elapsed' = [elapsed EXCEPT ![g] = 0]
    /\ reply' = [reply EXCEPT ![g] = << >>]

\* Mutant: lastUpdate is set before the GET.
GetFailsUpdated(g) ==
    /\ pc[g] \in {"get", "answer"}
    /\ Return(g)
    /\ listAge' = 0
    /\ UNCHANGED <<serverList, serverIndex, recent, registryVars, serverVars>>

\* http.Get fails: the caller gets the error and the old list stays as it is.
GetFails(g) ==
    /\ pc[g] \in {"get", "answer"}
    /\ Return(g)
    /\ UNCHANGED <<balancerVars, registryVars, serverVars>>

\* serverList and lastUpdate; serverIndex is left where it was.  The turns start
\* anew with other servers, and after a list that was set by hand out of order.
InstallList(g) ==
    /\ pc[g] = "answer"
    /\ serverList' = reply[g] /\ listAge' = 0
    /\ recent' = IF /\ Members(reply[g]) = Members(serverList)
                    /\ serverList \in Sorted(Members(serverList))
                   THEN recent ELSE << >>
    /\ reply' = [reply EXCEPT ![g] = << >>]
    /\ Goto(g, "pick")
    /\ UNCHANGED <<elapsed, serverIndex, registryVars, serverVars>>

-----------------------------------------------------------------------------
(* LoadBalancerClientSide *)

\* What is left of the last picks once the list is as long as it is.
LastOf(picks) ==
    SubSeq(picks, IF Len(picks) > Len(serverList) THEN 2 ELSE 1, Len(picks))

\* Mutant: the index is only reduced when it is used.
NextIndexUnreduced == serverIndex + 1

NextIndex == (serverIndex + 1) % Len(serverList)

\* GetServer, RoundRobinSelectMode.
PickInTurn(g) ==
    /\ pc[g] = "pick" /\ Unlocked /\ serverList # << >>
    /\ recent' = LastOf(Append(recent,
                     serverList[(serverIndex % Len(serverList)) + 1]))
    /\ serverIndex' = NextIndex
    /\ Return(g)
    /\ UNCHANGED <<serverList, listAge, registryVars, serverVars>>

\* GetServer in RandomSelectMode, in an unknown mode or on an empty list, and
\* GetServerList: nothing changes.
PickOrRead(g) ==
    /\ pc[g] = "pick" /\ Unlocked
    /\ Return(g)
    /\ UNCHANGED <<balancerVars, registryVars, serverVars>>

\* UpdateServerList, by somebody who knows which servers are up.
UpdateServerList ==
    /\ Unlocked
    /\ \E S \in SUBSET {s \in Servers : serverUp[s]} :
         \E list \in [1 .. Cardinality(S) -> S] :
            IsInjective(list) /\ serverList' = list
    /\ listAge' = 0
    /\ recent' = << >>
    /\ UNCHANGED <<serverIndex, callerVars, registryVars, serverVars>>

CallerStep(g) ==
    \/ KeepList(g) \/ SendGet(g) \/ ServeGet(g) \/ GetFails(g) \/ InstallList(g)
    \/ PickInTurn(g) \/ PickOrRead(g)

\* Time passes for everybody, unless a call has taken as long as it can.
Tick ==
    /\ \A g \in Callers : pc[g] # "idle" => elapsed[g] < Latency
    /\ elapsed' = [g \in Callers |->
                     IF pc[g] = "idle" THEN 0 ELSE elapsed[g] + 1]
    /\ listAge' = Aged(listAge, Obsolete)
    /\ RegistryTick
    /\ UNCHANGED <<serverList, serverIndex, recent, pc, reply>>

Next ==
    \/ RegistryNext /\ UNCHANGED <<balancerVars, callerVars>>
    \/ \E g \in Callers : CallerStep(g)
    \/ UpdateServerList
    \/ Tick

Spec == Init /\ [][Next]_vars

-----------------------------------------------------------------------------
\* How long a server can have been down when it is handed out: what the
\* registry and the load balancer each remember, and the two calls on the way.
Staleness == Timeout + UpdateTimeout + 2 * Latency

\* A caller that is about to choose from the list never finds a server in it
\* that has been down for longer than the two caches may hide.
DeadServerDropped ==
    Timeout # 0 =>
        \A g \in Callers : pc[g] = "pick" =>
            \A s \in Members(serverList) :
                serverUp[s] \/ deadFor[s] < Staleness

\* Round robin gives out no server twice before the others had their turn, for
\* as long as the set of servers does not change, although the list itself is
\* replaced at every refresh and the index is kept across changes of its length.
RoundRobinFair == IsInjective(recent)
=============================================================================
