-------------------------- MODULE DiscoveryProofs ---------------------------
(***************************************************************************)
(* Proofs about Registry and Discovery, for any servers, callers and       *)
(* times: the type invariant, BeatingServerListed and DeadServerDropped.   *)
(* All follow from the inductive invariant IInv, which bounds the age of   *)
(* each copy of a server's address (in the registry, in an answer on its   *)
(* way, in the load balancer's list) by the ages the code compares.        *)
(***************************************************************************)
EXTENDS Discovery, FiniteSetTheorems, TLAPS

\* No list is longer than the number of servers.
LengthInv ==
    /\ Len(serverList) <= Cardinality(Servers)
    /\ \A g \in Callers : Len(reply[g]) <= Cardinality(Servers)

\* Only a server that is up beats, and it is not dead at all.
UpInv ==
    \A s \in Servers :
        /\ Beating(s) => serverUp[s]
        /\ serverUp[s] => deadFor[s] = 0

\* An answer to the first POST takes no longer than Latency.
PostInv ==
    \A s \in Servers : heartbeat[s] = "posting" => sinceTick[s] <= Latency

\* The time since the last beat was handled, at most: the ticker may have been
\* started that much later than the first beat.
SinceBeat(s) ==
    IF heartbeat[s] = "posting" THEN sinceTick[s] ELSE sinceTick[s] + Latency

\* A server that beats was registered at its last beat, or the registry has
\* been restarted since.
BeatInv ==
    HeartRateSuffices =>
        \A s \in Servers : Beating(s) =>
            IF s \in DOMAIN serverMap THEN serverMap[s] <= SinceBeat(s)
                                      ELSE upFor <= SinceBeat(s)

\* An entry that counts is at least as old as its server is dead.
EntryInv ==
    \A s \in DOMAIN serverMap :
        serverMap[s] < Timeout => deadFor[s] <= serverMap[s]

\* What an answer hides is the registry's timeout and its own delay.
AnswerInv ==
    Timeout # 0 =>
        \A g \in Callers : pc[g] = "answer" =>
            \A s \in Members(reply[g]) : deadFor[s] < Timeout + elapsed[g]

\* What the list hides is that, and its own age.
ListInv ==
    Timeout # 0 /\ listAge < Obsolete =>
        \A s \in Members(serverList) : deadFor[s] < Timeout + Latency + listAge

\* A caller about to choose saw a recent list.
RecentInv ==
    \A g \in Callers : pc[g] = "pick" => listAge < UpdateTimeout + elapsed[g]

IInv ==
    /\ TypeOK
    /\ LengthInv
    /\ UpInv
    /\ PostInv
    /\ BeatInv
    /\ EntryInv
    /\ AnswerInv
    /\ ListInv
    /\ RecentInv

-----------------------------------------------------------------------------
USE RegistryAssumption, DiscoveryAssumption
    DEF registryVars, serverVars, balancerVars, callerVars

\* The times are natural numbers.
LEMMA Times ==
    /\ HeartRate \in Nat /\ Patience \in Nat /\ FirstGap \in Nat
    /\ Obsolete \in Nat
    /\ HeartRate <= Patience /\ Latency <= Patience
    /\ FirstGap = Latency + Patience
  BY DEF HeartRate, DefaultTimeout, Patience, FirstGap, Obsolete

\* An age grows by one until it reaches its cap.
LEMMA AgedType ==
    ASSUME NEW cap \in Nat, NEW n \in 0 .. cap
    PROVE  /\ Aged(n, cap) \in 0 .. cap
           /\ Aged(n, cap) <= n + 1
           /\ n < cap => Aged(n, cap) = n + 1
  BY DEF Aged

\* A list of distinct servers, one for each member of S.
LEMMA ListType ==
    ASSUME NEW S \in SUBSET Servers, NEW list \in [1 .. Cardinality(S) -> S]
    PROVE  /\ list \in Seq(Servers)
           /\ Len(list) <= Cardinality(Servers)
           /\ Members(list) \subseteq S
<1>1. IsFiniteSet(S) /\ Cardinality(S) <= Cardinality(Servers)
  BY FS_Subset
<1>2. Cardinality(S) \in Nat /\ Cardinality(Servers) \in Nat
  BY <1>1, FS_CardinalityType
<1> DEFINE n == Cardinality(S)
<1>3. list \in Seq(Servers) /\ Len(list) = n
  <2>1. n \in Nat /\ list \in [1 .. n -> Servers]
    BY <1>2
  <2> HIDE DEF n
  <2>2. QED
    BY <2>1
<1>4. DOMAIN list = 1 .. Cardinality(S) /\ \A i \in DOMAIN list : list[i] \in S
  OBVIOUS
<1>5. Members(list) \subseteq S
  BY <1>4 DEF Members
<1>6. QED
  BY <1>1, <1>2, <1>3, <1>5

\* A heartbeat that is handled: the server is known, with age 0.
LEMMA RegisterEffect ==
    ASSUME TypeOK, NEW s \in Servers, Register(s)
    PROVE  /\ DOMAIN serverMap' = DOMAIN serverMap \cup {s}
           /\ serverMap'[s] = 0
           /\ \A t \in DOMAIN serverMap : t # s => serverMap'[t] = serverMap[t]
           /\ DOMAIN serverMap' \subseteq Servers
           /\ \A t \in DOMAIN serverMap' : serverMap'[t] \in 0 .. Timeout
  BY DEF Register, TypeOK, RegistryTypeOK

\* What a GET does to the registry.
LEMMA ExpiryEffect ==
    ASSUME TypeOK, DeleteExpired
    PROVE  /\ DOMAIN serverMap' = AliveServers
           /\ AliveServers \subseteq DOMAIN serverMap
           /\ \A t \in AliveServers : serverMap'[t] = serverMap[t]
           /\ AliveServers \subseteq Servers
           /\ \A t \in DOMAIN serverMap' : serverMap'[t] \in 0 .. Timeout
  BY DEF DeleteExpired, Restrict, AliveServers, TypeOK, RegistryTypeOK

-----------------------------------------------------------------------------
(* Type correctness, with the lengths. *)

\* The part of TypeOK and LengthInv that is about the load balancer.
BalancerTypeOK ==
    /\ serverList \in Seq(Servers) /\ reply \in [Callers -> Seq(Servers)]
    /\ serverIndex \in StartIndexes \cup (0 .. Cardinality(Servers))
    /\ listAge \in 0 .. Obsolete
    /\ pc \in [Callers -> {"idle", "get", "answer", "pick"}]
    /\ elapsed \in [Callers -> 0 .. Latency]
    /\ recent \in Seq(Servers)
    /\ LengthInv

\* TypeOK is about the registry's side and the load balancer's.
LEMMA TypeParts == TypeOK /\ LengthInv <=> RegistryTypeOK /\ BalancerTypeOK
  BY DEF TypeOK, BalancerTypeOK

\* serverMap keeps its type in every action of a server.
LEMMA MapType ==
    ASSUME TypeOK, NEW s \in Servers, UNCHANGED serverMap \/ Register(s)
    PROVE  /\ DOMAIN serverMap' \subseteq Servers
           /\ \A t \in DOMAIN serverMap' : serverMap'[t] \in 0 .. Timeout
<1>1. CASE UNCHANGED serverMap
  BY <1>1 DEF TypeOK, RegistryTypeOK
<1>2. CASE Register(s)
  BY <1>2, RegisterEffect
<1>3. QED
  BY <1>1, <1>2

\* The registry's and the heartbeats' variables keep their types.
LEMMA RegistryTypeStep ==
    ASSUME TypeOK, LengthInv, [Next]_vars
    PROVE  RegistryTypeOK'
<1>1. RegistryTypeOK
  BY DEF TypeOK
<1>2. ASSUME NEW s \in Servers,
             Heartbeat(s) \/ StartTicker(s) \/ Beat(s) \/ BeatFails(s)
      PROVE  RegistryTypeOK'
  <2>1. /\ DOMAIN serverMap' \subseteq Servers
        /\ \A t \in DOMAIN serverMap' : serverMap'[t] \in 0 .. Timeout
    BY <1>2, MapType DEF Heartbeat, StartTicker, Beat, BeatFails, PostLost
  <2>2. sinceTick' \in [Servers -> 0 .. Patience]
    BY <1>1, <1>2, Times
    DEF Heartbeat, StartTicker, Beat, BeatFails, Due, RegistryTypeOK
  <2>3. heartbeat' \in [Servers -> {"off", "posting", "ticking", "stopped"}]
    BY <1>1, <1>2 DEF Heartbeat, StartTicker, Beat, BeatFails, RegistryTypeOK
  <2>4. UNCHANGED <<registryUp, upFor, serverUp, deadFor>>
    BY <1>2 DEF Heartbeat, StartTicker, Beat, BeatFails
  <2>5. QED
    BY <1>1, <2>1, <2>2, <2>3, <2>4 DEF RegistryTypeOK
<1>3. ASSUME NEW g \in Callers, ServeGet(g)
      PROVE  RegistryTypeOK'
  BY <1>1, <1>3, ExpiryEffect DEF ServeGet, RegistryTypeOK
<1>4. CASE RegistryTick
  <2>1. /\ DOMAIN serverMap' = DOMAIN serverMap
        /\ \A s \in DOMAIN serverMap : serverMap'[s] = Aged(serverMap[s], Timeout)
    BY <1>4 DEF RegistryTick
  <2>2. \A s \in DOMAIN serverMap' : serverMap'[s] \in 0 .. Timeout
    BY <1>1, <2>1, AgedType DEF RegistryTypeOK
  <2>3. deadFor' \in [Servers -> 0 .. Horizon]
    BY <1>1, <1>4, AgedType DEF RegistryTick, RegistryTypeOK
  <2>4. upFor' \in 0 .. FirstGap + 1
    BY <1>1, <1>4, AgedType, Times DEF RegistryTick, RegistryTypeOK
  <2>5. sinceTick' \in [Servers -> 0 .. Patience]
    BY <1>1, <1>4, Times DEF RegistryTick, RegistryTypeOK, Beating
  <2>6. QED
    BY <1>1, <1>4, <2>1, <2>2, <2>3, <2>4, <2>5 DEF RegistryTick, RegistryTypeOK
<1> USE <1>1, Times DEF RegistryTypeOK
<1>5. CASE RegistryCrash
  <2>1. DOMAIN serverMap' = {}
    BY <1>5 DEF RegistryCrash
  <2>2. registryUp' = FALSE /\ upFor' = 0 /\ UNCHANGED serverVars
    BY <1>5 DEF RegistryCrash
  <2>3. upFor' \in 0 .. FirstGap + 1
    BY <2>2
  <2>4. QED
    BY <2>1, <2>2, <2>3
<1>6. CASE RegistryStart
  BY <1>6 DEF RegistryStart
<1>7. ASSUME NEW s \in Servers, ServerCrash(s)
      PROVE  RegistryTypeOK'
  BY <1>7 DEF ServerCrash
<1>8. ASSUME NEW s \in Servers, ServerStart(s)
      PROVE  RegistryTypeOK'
  BY <1>8 DEF ServerStart
<1>9. CASE UNCHANGED <<registryVars, serverVars>>
  BY <1>9
<1>10. QED
  BY <1>2, <1>3, <1>4, <1>5, <1>6, <1>7, <1>8, <1>9
  DEF Next, RegistryNext, CallerStep, KeepList, SendGet, GetFails, InstallList,
      PickInTurn, PickOrRead, UpdateServerList, Tick, vars

\* The index after a pick, and the picks that are remembered.
LEMMA PickType ==
    ASSUME TypeOK, LengthInv, NEW g \in Callers, PickInTurn(g)
    PROVE  /\ serverIndex' \in 0 .. Cardinality(Servers)
           /\ recent' \in Seq(Servers)
<1> DEFINE n == Len(serverList)
           picks == Append(recent, serverList[(serverIndex % n) + 1])
<1>1. Cardinality(Servers) \in Nat
  BY FS_CardinalityType
<1>2. n \in Nat \ {0} /\ n <= Cardinality(Servers) /\ serverIndex \in Nat
  BY <1>1 DEF PickInTurn, TypeOK, LengthInv
<1>3. serverIndex % n \in 0 .. (n - 1) /\ (serverIndex + 1) % n \in 0 .. (n - 1)
  BY <1>2
<1>4. serverIndex' \in 0 .. Cardinality(Servers)
  BY <1>1, <1>2, <1>3 DEF PickInTurn, NextIndex
<1>5. serverList[(serverIndex % n) + 1] \in Servers
  BY <1>2, <1>3 DEF TypeOK
<1>6. picks \in Seq(Servers)
  BY <1>5 DEF TypeOK
<1>7. LastOf(picks) \in Seq(Servers)
  BY <1>6 DEF LastOf
<1>8. QED
  BY <1>4, <1>7 DEF PickInTurn

\* A call that returns resets the variables of its caller.
LEMMA ReturnType ==
    ASSUME BalancerTypeOK, NEW g \in Callers, Return(g)
    PROVE  /\ pc' \in [Callers -> {"idle", "get", "answer", "pick"}]
           /\ elapsed' \in [Callers -> 0 .. Latency]
           /\ reply' \in [Callers -> Seq(Servers)]
           /\ \A h \in Callers : Len(reply'[h]) <= Cardinality(Servers)
<1>1. Cardinality(Servers) \in Nat
  BY FS_CardinalityType
<1>2. QED
  BY <1>1 DEF Return, Goto, BalancerTypeOK, LengthInv

\* The load balancer's variables keep their types.
LEMMA BalancerTypeStep ==
    ASSUME TypeOK, LengthInv, [Next]_vars
    PROVE  BalancerTypeOK'
<1>1. BalancerTypeOK
  BY TypeParts
<1>2. Cardinality(Servers) \in Nat /\ Obsolete \in Nat
  BY FS_CardinalityType, Times
<1> USE <1>1, <1>2 DEF BalancerTypeOK, LengthInv, Goto
<1>3. ASSUME NEW g \in Callers, KeepList(g) \/ SendGet(g)
      PROVE  BalancerTypeOK'
  BY <1>3 DEF KeepList, SendGet
<1>4. ASSUME NEW g \in Callers, ServeGet(g)
      PROVE  BalancerTypeOK'
  <2>1. PICK list \in Sorted(AliveServers) : reply' = [reply EXCEPT ![g] = list]
    BY <1>4 DEF ServeGet
  <2>2. AliveServers \subseteq Servers
    BY <1>4, ExpiryEffect DEF ServeGet
  <2>3. list \in Seq(Servers) /\ Len(list) <= Cardinality(Servers)
    BY <2>2, ListType DEF Sorted
  <2>4. QED
    BY <1>4, <2>1, <2>3 DEF ServeGet
<1>5. ASSUME NEW g \in Callers, GetFails(g) \/ PickOrRead(g)
      PROVE  BalancerTypeOK'
  BY <1>5, ReturnType DEF GetFails, PickOrRead
<1>6. ASSUME NEW g \in Callers, InstallList(g)
      PROVE  BalancerTypeOK'
  BY <1>6 DEF InstallList
<1>7. ASSUME NEW g \in Callers, PickInTurn(g)
      PROVE  BalancerTypeOK'
  BY <1>7, PickType, ReturnType DEF PickInTurn
<1>8. CASE UpdateServerList
  <2>1. PICK S \in SUBSET {s \in Servers : serverUp[s]} :
          \E list \in [1 .. Cardinality(S) -> S] :
             IsInjective(list) /\ serverList' = list
    BY <1>8 DEF UpdateServerList
  <2>2. serverList' \in Seq(Servers) /\ Len(serverList') <= Cardinality(Servers)
    BY <2>1, ListType
  <2>3. QED
    BY <1>8, <2>2 DEF UpdateServerList
<1>9. CASE Tick
  <2>1. \A g \in Callers : elapsed'[g] \in 0 .. Latency
    BY <1>9 DEF Tick
  <2>2. QED
    BY <1>9, <2>1, AgedType DEF Tick
<1>10. CASE UNCHANGED <<balancerVars, callerVars>>
  BY <1>10
<1>11. QED
  BY <1>3, <1>4, <1>5, <1>6, <1>7, <1>8, <1>9, <1>10
  DEF Next, CallerStep, vars
-----------------------------------------------------------------------------
(* The ages. *)

\* A unit of time makes everything at most one unit older.
LEMMA TickEffect ==
    ASSUME TypeOK, RegistryTick
    PROVE  /\ DOMAIN serverMap' = DOMAIN serverMap
           /\ \A s \in DOMAIN serverMap :
                /\ serverMap[s] \in Nat /\ serverMap'[s] \in Nat
                /\ serverMap'[s] <= serverMap[s] + 1
                /\ serverMap'[s] < Timeout =>
                     serverMap[s] < Timeout /\ serverMap'[s] = serverMap[s] + 1
           /\ \A s \in Servers :
                /\ deadFor[s] \in Nat /\ deadFor'[s] \in Nat
                /\ deadFor'[s] <= deadFor[s] + 1
           /\ upFor \in Nat /\ upFor' \in Nat /\ upFor' <= upFor + 1
<1>1. RegistryTypeOK
  BY DEF TypeOK
<1>2. /\ DOMAIN serverMap' = DOMAIN serverMap
      /\ \A s \in DOMAIN serverMap : serverMap'[s] = Aged(serverMap[s], Timeout)
  BY DEF RegistryTick
<1>3. ASSUME NEW s \in DOMAIN serverMap
      PROVE  /\ serverMap[s] \in Nat /\ serverMap'[s] \in Nat
             /\ serverMap'[s] <= serverMap[s] + 1
             /\ serverMap'[s] < Timeout =>
                  serverMap[s] < Timeout /\ serverMap'[s] = serverMap[s] + 1
  <2>1. serverMap[s] \in 0 .. Timeout
    BY <1>1 DEF RegistryTypeOK
  <2>2. QED
    BY <1>2, <2>1 DEF Aged
<1>4. ASSUME NEW s \in Servers
      PROVE  /\ deadFor[s] \in Nat /\ deadFor'[s] \in Nat
             /\ deadFor'[s] <= deadFor[s] + 1
  <2>1. deadFor[s] \in 0 .. Horizon
    BY <1>1 DEF RegistryTypeOK
  <2>2. deadFor'[s] = 0 \/ deadFor'[s] = Aged(deadFor[s], Horizon)
    BY DEF RegistryTick
  <2>3. QED
    BY <2>1, <2>2 DEF Aged
<1>5. upFor \in Nat /\ upFor' \in Nat /\ upFor' <= upFor + 1
  <2>1. upFor \in 0 .. FirstGap + 1
    BY <1>1 DEF RegistryTypeOK
  <2>2. upFor' = 0 \/ upFor' = Aged(upFor, FirstGap + 1)
    BY DEF RegistryTick
  <2>3. QED
    BY <2>1, <2>2, Times DEF Aged
<1>6. QED
  BY <1>2, <1>3, <1>4, <1>5

\* Only a server that is up beats, in every step.
LEMMA UpStep ==
    ASSUME TypeOK, UpInv, [Next]_vars
    PROVE  UpInv'
<1>1. RegistryTypeOK
  BY DEF TypeOK
<1> USE <1>1 DEF RegistryTypeOK, UpInv, Beating
<1>2. ASSUME NEW s \in Servers,
             \/ Heartbeat(s) \/ StartTicker(s) \/ Beat(s) \/ BeatFails(s)
             \/ ServerCrash(s) \/ ServerStart(s)
      PROVE  UpInv'
  BY <1>2 DEF Heartbeat, StartTicker, Beat, BeatFails, ServerCrash, ServerStart
<1>3. CASE RegistryTick
  BY <1>3 DEF RegistryTick
<1>4. CASE UNCHANGED serverVars
  BY <1>4
<1>5. QED
  BY <1>2, <1>3, <1>4
  DEF Next, RegistryNext, RegistryCrash, RegistryStart, CallerStep, KeepList,
      SendGet, ServeGet, GetFails, InstallList, PickInTurn, PickOrRead,
      UpdateServerList, Tick, vars

\* No time passes beyond what the answer to a first POST may take.
LEMMA PostStep ==
    ASSUME TypeOK, PostInv, [Next]_vars
    PROVE  PostInv'
<1>1. RegistryTypeOK
  BY DEF TypeOK
<1> USE <1>1 DEF RegistryTypeOK, PostInv
<1>2. ASSUME NEW s \in Servers,
             \/ Heartbeat(s) \/ StartTicker(s) \/ Beat(s) \/ BeatFails(s)
             \/ ServerCrash(s) \/ ServerStart(s)
      PROVE  PostInv'
  BY <1>2 DEF Heartbeat, StartTicker, Beat, BeatFails, Due, ServerCrash, ServerStart
<1>3. CASE RegistryTick
  BY <1>3, Times DEF RegistryTick, Beating
<1>4. CASE UNCHANGED serverVars
  BY <1>4
<1>5. QED
  BY <1>2, <1>3, <1>4
  DEF Next, RegistryNext, RegistryCrash, RegistryStart, CallerStep, KeepList,
      SendGet, ServeGet, GetFails, InstallList, PickInTurn, PickOrRead,
      UpdateServerList, Tick, vars

\* The last beat is no longer ago than the longest gap.
LEMMA SinceBeatBound ==
    ASSUME TypeOK, PostInv, NEW s \in Servers
    PROVE  SinceBeat(s) \in 0 .. FirstGap
<1>1. sinceTick[s] \in 0 .. Patience
  BY DEF TypeOK, RegistryTypeOK
<1>2. QED
  BY <1>1, Times DEF PostInv, SinceBeat

\* A server that beats in time is alive for the registry.
LEMMA BeatingIsAlive ==
    ASSUME TypeOK, PostInv, BeatInv, HeartRateSuffices,
           NEW s \in DOMAIN serverMap, Beating(s)
    PROVE  s \in AliveServers
<1>1. s \in Servers /\ serverMap[s] <= SinceBeat(s)
  BY DEF TypeOK, RegistryTypeOK, BeatInv
<1>2. SinceBeat(s) \in 0 .. FirstGap /\ serverMap[s] \in 0 .. Timeout
  BY <1>1, SinceBeatBound DEF TypeOK, RegistryTypeOK
<1>3. QED
  BY <1>1, <1>2, Times DEF HeartRateSuffices, AliveServers

\* The entry of a server that beats stays as young as its last beat.
LEMMA BeatStep ==
    ASSUME TypeOK, PostInv, BeatInv, [Next]_vars
    PROVE  BeatInv'
<1>1. RegistryTypeOK
  BY DEF TypeOK
<1> DEFINE Young(t) == IF t \in DOMAIN serverMap
                         THEN serverMap[t] <= SinceBeat(t) ELSE upFor <= SinceBeat(t)
<1> SUFFICES ASSUME HeartRateSuffices, NEW t \in Servers, Beating(t)'
             PROVE  Young(t)'
  BY DEF BeatInv, HeartRateSuffices
<1>2. Beating(t) => Young(t)
  BY DEF BeatInv
<1>3. /\ SinceBeat(t) \in Nat /\ sinceTick[t] \in Nat /\ upFor \in Nat
      /\ t \in DOMAIN serverMap => serverMap[t] \in Nat
  BY <1>1, SinceBeatBound, Times DEF RegistryTypeOK
<1>4. ASSUME NEW s \in Servers,
             Heartbeat(s) \/ StartTicker(s) \/ Beat(s) \/ BeatFails(s)
               \/ ServerCrash(s) \/ ServerStart(s),
             t # s
      PROVE  Young(t)'
  <2>1. /\ heartbeat'[t] = heartbeat[t] /\ sinceTick'[t] = sinceTick[t]
        /\ upFor' = upFor
        /\ UNCHANGED serverMap \/ Register(s)
    BY <1>4, <1>1
    DEF Heartbeat, StartTicker, Beat, BeatFails, PostLost, ServerCrash, ServerStart,
        RegistryTypeOK
  <2>2. Beating(t) /\ SinceBeat(t)' = SinceBeat(t)
    BY <2>1 DEF Beating, SinceBeat
  <2>3. QED
    BY <1>2, <1>4, <2>1, <2>2, RegisterEffect
<1>5. ASSUME Heartbeat(t) \/ Beat(t)
      PROVE  Young(t)'
  <2>1. Register(t)
    BY <1>5, <1>1 DEF Heartbeat, Beat, RegistryTypeOK, Beating
  <2>2. SinceBeat(t)' >= 0
    BY <1>5, <1>1, Times DEF Heartbeat, Beat, Due, RegistryTypeOK, SinceBeat
  <2>3. QED
    BY <2>1, <2>2, RegisterEffect
<1>6. CASE StartTicker(t)
  <2>1. Beating(t) /\ SinceBeat(t) <= Latency
    BY <1>6 DEF StartTicker, Beating, SinceBeat, PostInv
  <2>2. SinceBeat(t)' = Latency
    BY <1>6, <1>1 DEF StartTicker, SinceBeat, Beating, RegistryTypeOK
  <2>3. UNCHANGED <<upFor, serverMap>>
    BY <1>6 DEF StartTicker
  <2>4. QED
    BY <1>2, <1>3, <2>1, <2>2, <2>3
<1>7. CASE BeatFails(t) \/ ServerCrash(t)
  BY <1>7, <1>1 DEF BeatFails, ServerCrash, Beating, RegistryTypeOK
<1>8. CASE ServerStart(t)
  <2>1. UNCHANGED <<heartbeat, sinceTick, upFor, serverMap>>
    BY <1>8 DEF ServerStart
  <2>2. QED
    BY <1>2, <2>1 DEF Beating, SinceBeat
<1>9. ASSUME NEW g \in Callers, ServeGet(g)
      PROVE  Young(t)'
  <2>1. UNCHANGED <<upFor, serverVars>> /\ DeleteExpired
    BY <1>9 DEF ServeGet
  <2>2. Beating(t) /\ SinceBeat(t)' = SinceBeat(t)
    BY <2>1 DEF Beating, SinceBeat
  <2>3. t \in DOMAIN serverMap => t \in AliveServers
    BY <2>2, BeatingIsAlive
  <2>4. QED
    BY <1>2, <2>1, <2>2, <2>3, ExpiryEffect
<1>10. CASE RegistryTick
  <2>1. Beating(t) /\ SinceBeat(t)' = SinceBeat(t) + 1
    BY <1>10, <1>1, <1>3 DEF RegistryTick, Beating, SinceBeat
  <2>2. QED
    BY <1>2, <1>3, <1>10, <2>1, TickEffect
<1>11. CASE RegistryCrash
  <2>1. DOMAIN serverMap' = {} /\ upFor' = 0 /\ UNCHANGED serverVars
    BY <1>11 DEF RegistryCrash
  <2>2. SinceBeat(t)' = SinceBeat(t)
    BY <2>1 DEF SinceBeat
  <2>3. QED
    BY <1>3, <2>1, <2>2
<1>12. CASE UNCHANGED <<upFor, serverMap, serverVars>>
  BY <1>2, <1>12 DEF Beating, SinceBeat
<1>13. ASSUME NEW s \in Servers,
              Heartbeat(s) \/ StartTicker(s) \/ Beat(s) \/ BeatFails(s)
                \/ ServerCrash(s) \/ ServerStart(s)
       PROVE  Young(t)'
  BY <1>4, <1>5, <1>6, <1>7, <1>8, <1>13
<1>14. QED
  BY <1>9, <1>10, <1>11, <1>12, <1>13
  DEF Next, RegistryNext, RegistryStart, CallerStep, KeepList, SendGet, GetFails,
      InstallList, PickInTurn, PickOrRead, UpdateServerList, Tick, vars

\* A valid entry stays at least as old as its server is dead.
LEMMA EntryStep ==
    ASSUME TypeOK, UpInv, EntryInv, [Next]_vars
    PROVE  EntryInv'
<1>1. RegistryTypeOK
  BY DEF TypeOK
<1>2. ASSUME NEW s \in Servers,
             Heartbeat(s) \/ StartTicker(s) \/ Beat(s) \/ BeatFails(s)
      PROVE  EntryInv'
  <2>1. deadFor[s] = 0 /\ UNCHANGED deadFor
    BY <1>2 DEF Heartbeat, StartTicker, Beat, BeatFails, Due, UpInv, Beating
  <2>2. UNCHANGED serverMap \/ Register(s)
    BY <1>2 DEF Heartbeat, StartTicker, Beat, BeatFails, PostLost
  <2>3. CASE UNCHANGED serverMap
    BY <2>1, <2>3 DEF EntryInv
  <2>4. CASE Register(s)
    <3> SUFFICES ASSUME NEW t \in DOMAIN serverMap', serverMap'[t] < Timeout
                 PROVE  deadFor[t] <= serverMap'[t]
      BY <2>1 DEF EntryInv
    <3>1. CASE t = s
      <4>1. serverMap'[s] = 0
        BY <2>4, RegisterEffect
      <4>2. QED
        BY <2>1, <3>1, <4>1
    <3>2. CASE t # s
      BY <2>4, <3>2, RegisterEffect DEF EntryInv
    <3>3. QED
      BY <3>1, <3>2
  <2>5. QED
    BY <2>2, <2>3, <2>4
<1>3. ASSUME NEW s \in Servers, ServerCrash(s) \/ ServerStart(s)
      PROVE  EntryInv'
  <2> SUFFICES ASSUME NEW t \in DOMAIN serverMap', serverMap'[t] < Timeout
               PROVE  deadFor'[t] <= serverMap'[t]
    BY DEF EntryInv
  <2>1. UNCHANGED serverMap /\ t \in Servers
    BY <1>1, <1>3 DEF ServerCrash, ServerStart, RegistryTypeOK
  <2>2. deadFor'[t] = 0 \/ deadFor'[t] = deadFor[t]
    BY <1>1, <1>3, <2>1 DEF ServerCrash, ServerStart, RegistryTypeOK
  <2>3. serverMap[t] \in Nat /\ deadFor[t] <= serverMap[t]
    BY <1>1, <2>1 DEF RegistryTypeOK, EntryInv
  <2>4. QED
    BY <2>1, <2>2, <2>3
<1>4. ASSUME NEW g \in Callers, ServeGet(g)
      PROVE  EntryInv'
  BY <1>4, ExpiryEffect DEF ServeGet, EntryInv
<1>5. CASE RegistryTick
  <2> SUFFICES ASSUME NEW s \in DOMAIN serverMap, serverMap'[s] < Timeout
               PROVE  deadFor'[s] <= serverMap'[s]
    BY <1>5 DEF RegistryTick, EntryInv
  <2>1. s \in Servers
    BY <1>1 DEF RegistryTypeOK
  <2>2. serverMap[s] < Timeout /\ serverMap'[s] = serverMap[s] + 1
    BY <1>5, TickEffect
  <2>3. deadFor[s] <= serverMap[s]
    BY <2>2 DEF EntryInv
  <2>4. deadFor[s] \in Nat /\ deadFor'[s] \in Nat /\ deadFor'[s] <= deadFor[s] + 1
    BY <1>5, <2>1, TickEffect
  <2>5. serverMap[s] \in Nat
    BY <1>5, TickEffect
  <2>6. QED
    BY <2>2, <2>3, <2>4, <2>5
<1>6. CASE RegistryCrash
  <2>1. DOMAIN serverMap' = {}
    BY <1>6 DEF RegistryCrash
  <2>2. QED
    BY <2>1 DEF EntryInv
<1>7. CASE UNCHANGED <<serverMap, deadFor>>
  BY <1>7 DEF EntryInv
<1>8. QED
  BY <1>2, <1>3, <1>4, <1>5, <1>6, <1>7
  DEF Next, RegistryNext, RegistryStart, CallerStep, KeepList, SendGet, GetFails,
      InstallList, PickInTurn, PickOrRead, UpdateServerList, Tick, vars

\* AnswerInv, ListInv and RecentInv once time has passed.
LEMMA CacheTick ==
    ASSUME TypeOK, LengthInv, AnswerInv, ListInv, RecentInv, Tick
    PROVE  AnswerInv' /\ ListInv' /\ RecentInv'
<1>1. /\ RegistryTick
      /\ UNCHANGED <<serverList, pc, reply>>
      /\ \A g \in Callers : pc[g] # "idle" => elapsed'[g] = elapsed[g] + 1
      /\ \A g \in Callers : elapsed[g] \in Nat /\ reply[g] \in Seq(Servers)
      /\ serverList \in Seq(Servers)
  BY DEF Tick, TypeOK
<1>2. /\ listAge \in Nat /\ listAge' \in Nat /\ listAge' <= listAge + 1
      /\ listAge' < Obsolete => listAge < Obsolete /\ listAge' = listAge + 1
  <2>1. listAge \in 0 .. Obsolete /\ listAge' = Aged(listAge, Obsolete)
    BY DEF Tick, TypeOK
  <2>2. QED
    BY <2>1, Times DEF Aged
<1>3. AnswerInv'
  <2> SUFFICES ASSUME Timeout # 0, NEW g \in Callers, pc[g] = "answer",
                      NEW s \in Members(reply[g])
               PROVE  deadFor'[s] < Timeout + elapsed'[g]
    BY <1>1 DEF AnswerInv, Members
  <2>1. s \in Servers /\ deadFor[s] < Timeout + elapsed[g]
    BY <1>1 DEF AnswerInv, Members
  <2>2. deadFor[s] \in Nat /\ deadFor'[s] \in Nat /\ deadFor'[s] <= deadFor[s] + 1
    BY <1>1, <2>1, TickEffect
  <2>3. QED
    BY <1>1, <2>1, <2>2
<1>4. ListInv'
  <2> SUFFICES ASSUME Timeout # 0, listAge' < Obsolete, NEW s \in Members(serverList)
               PROVE  deadFor'[s] < Timeout + Latency + listAge'
    BY <1>1 DEF ListInv, Members, Obsolete
  <2>1. s \in Servers /\ deadFor[s] < Timeout + Latency + listAge
    BY <1>1, <1>2 DEF ListInv, Members
  <2>2. QED
    BY <1>1, <1>2, <2>1, TickEffect
<1>5. RecentInv'
  BY <1>1, <1>2 DEF RecentInv
<1>6. QED
  BY <1>3, <1>4, <1>5

\* A server's step leaves deadFor as it is or makes it 0.
LEMMA CacheServer ==
    ASSUME TypeOK, LengthInv, AnswerInv, ListInv, RecentInv,
           RegistryNext, UNCHANGED <<balancerVars, callerVars>>
    PROVE  AnswerInv' /\ ListInv' /\ RecentInv'
<1>1. /\ \A g \in Callers : elapsed[g] \in Nat /\ reply[g] \in Seq(Servers)
      /\ serverList \in Seq(Servers) /\ listAge \in Nat
  BY Times DEF TypeOK
<1>2. \A s \in Servers : deadFor[s] \in Nat /\ deadFor'[s] \in {0, deadFor[s]}
  BY DEF TypeOK, RegistryTypeOK, RegistryNext, RegistryCrash, RegistryStart, Heartbeat, StartTicker,
     Beat, BeatFails, ServerCrash, ServerStart
<1>3. AnswerInv'
  <2> SUFFICES ASSUME Timeout # 0, NEW g \in Callers, pc[g] = "answer",
                      NEW s \in Members(reply[g])
               PROVE  deadFor'[s] < Timeout + elapsed[g]
    BY DEF AnswerInv, Members
  <2>1. s \in Servers /\ deadFor[s] < Timeout + elapsed[g]
    BY <1>1 DEF AnswerInv, Members
  <2>2. QED
    BY <1>1, <1>2, <2>1
<1>4. ListInv'
  <2> SUFFICES ASSUME Timeout # 0, listAge < Obsolete, NEW s \in Members(serverList)
               PROVE  deadFor'[s] < Timeout + Latency + listAge
    BY DEF ListInv, Members, Obsolete
  <2>1. s \in Servers /\ deadFor[s] < Timeout + Latency + listAge
    BY <1>1 DEF ListInv, Members
  <2>2. QED
    BY <1>1, <1>2, <2>1
<1>5. RecentInv'
  BY DEF RecentInv
<1>6. QED
  BY <1>3, <1>4, <1>5

\* A caller's step, or a list set by hand.
LEMMA CacheCaller ==
    ASSUME IInv, (\E g \in Callers : CallerStep(g)) \/ UpdateServerList
    PROVE  AnswerInv' /\ ListInv' /\ RecentInv'
<1>1. /\ TypeOK /\ UpInv /\ EntryInv /\ AnswerInv /\ ListInv /\ RecentInv
      /\ pc \in [Callers -> {"idle", "get", "answer", "pick"}]
      /\ elapsed \in [Callers -> 0 .. Latency]
      /\ reply \in [Callers -> Seq(Servers)] /\ serverList \in Seq(Servers)
  BY DEF IInv, TypeOK
<1>2. UNCHANGED deadFor
  BY DEF CallerStep, KeepList, SendGet, ServeGet, GetFails, InstallList, PickInTurn,
     PickOrRead, UpdateServerList
<1>3. ASSUME NEW g \in Callers, KeepList(g) \/ SendGet(g)
      PROVE  AnswerInv' /\ ListInv' /\ RecentInv'
  <2>1. UNCHANGED <<elapsed, reply, serverList, listAge>>
    BY <1>3 DEF KeepList, SendGet
  <2>2. /\ pc'[g] = "get" \/ (pc'[g] = "pick" /\ listAge < UpdateTimeout)
        /\ \A h \in Callers : h # g => pc'[h] = pc[h]
    BY <1>1, <1>3 DEF KeepList, SendGet, Goto
  <2>3. AnswerInv' /\ ListInv'
    BY <1>1, <1>2, <2>1, <2>2 DEF AnswerInv, ListInv, Members
  <2>4. listAge \in Nat
    BY <1>1, Times DEF TypeOK
  <2>5. RecentInv'
    BY <1>1, <2>1, <2>2, <2>4 DEF RecentInv
  <2>6. QED
    BY <2>3, <2>5
<1>4. ASSUME NEW g \in Callers, ServeGet(g)
      PROVE  AnswerInv' /\ ListInv' /\ RecentInv'
  <2>1. PICK list \in Sorted(AliveServers) : reply' = [reply EXCEPT ![g] = list]
    BY <1>4 DEF ServeGet
  <2>2. /\ UNCHANGED <<elapsed, serverList, listAge>>
        /\ pc'[g] = "answer" /\ \A h \in Callers : h # g => pc'[h] = pc[h]
    BY <1>1, <1>4 DEF ServeGet, Goto
  <2>3. Members(list) \subseteq AliveServers /\ AliveServers \subseteq DOMAIN serverMap
    BY <1>1, <1>4, ExpiryEffect, ListType DEF ServeGet, Sorted
  <2>4. ASSUME Timeout # 0, NEW s \in Members(list)
        PROVE  deadFor[s] < Timeout + elapsed[g]
    <3>1. s \in DOMAIN serverMap /\ s \in Servers /\ serverMap[s] < Timeout
      BY <1>1, <2>3, <2>4 DEF AliveServers, TypeOK, RegistryTypeOK
    <3>2. deadFor[s] <= serverMap[s]
      BY <1>1, <3>1 DEF EntryInv
    <3>3. elapsed[g] \in Nat
      BY <1>1
    <3>4. serverMap[s] \in 0 .. Timeout /\ deadFor[s] \in 0 .. Horizon
      BY <1>1, <3>1 DEF TypeOK, RegistryTypeOK
    <3>5. QED
      BY <3>1, <3>2, <3>3, <3>4
  <2>5. AnswerInv'
    <3> SUFFICES ASSUME Timeout # 0, NEW h \in Callers, pc'[h] = "answer",
                        NEW s \in Members(reply'[h])
                 PROVE  deadFor[s] < Timeout + elapsed[h]
      BY <1>2, <2>2 DEF AnswerInv, Members
    <3>1. CASE h = g
      BY <1>1, <2>1, <2>4, <3>1 DEF Members
    <3>2. CASE h # g
      BY <1>1, <2>1, <2>2, <3>2 DEF AnswerInv, Members
    <3>3. QED
      BY <3>1, <3>2
  <2>6. ListInv' /\ RecentInv'
    BY <1>1, <1>2, <2>2 DEF ListInv, RecentInv, Members
  <2>7. QED
    BY <2>5, <2>6
<1>5. ASSUME NEW g \in Callers, GetFails(g) \/ PickOrRead(g) \/ PickInTurn(g)
      PROVE  AnswerInv' /\ ListInv' /\ RecentInv'
  <2>1. /\ UNCHANGED <<serverList, listAge>>
        /\ pc'[g] = "idle"
        /\ \A h \in Callers : h # g =>
             pc'[h] = pc[h] /\ elapsed'[h] = elapsed[h] /\ reply'[h] = reply[h]
    BY <1>1, <1>5 DEF GetFails, PickOrRead, PickInTurn, Return, Goto
  <2>2. AnswerInv'
    BY <1>1, <1>2, <2>1 DEF AnswerInv, Members
  <2>3. ListInv'
    BY <1>1, <1>2, <2>1 DEF ListInv, Members
  <2>4. RecentInv'
    BY <1>1, <2>1 DEF RecentInv
  <2>5. QED
    BY <2>2, <2>3, <2>4
<1>6. ASSUME NEW g \in Callers, InstallList(g)
      PROVE  AnswerInv' /\ ListInv' /\ RecentInv'
  <2>1. /\ pc[g] = "answer" /\ serverList' = reply[g] /\ listAge' = 0
        /\ UNCHANGED elapsed /\ pc'[g] = "pick"
        /\ \A h \in Callers : h # g => pc'[h] = pc[h] /\ reply'[h] = reply[h]
    BY <1>1, <1>6 DEF InstallList, Goto
  <2>2. AnswerInv'
    BY <1>1, <1>2, <2>1 DEF AnswerInv, Members
  <2>3. ListInv'
    <3> SUFFICES ASSUME Timeout # 0, NEW s \in Members(reply[g])
                 PROVE  deadFor[s] < Timeout + Latency
      BY <1>2, <2>1 DEF ListInv, Members
    <3>1. s \in Servers
      <4>1. reply[g] \in Seq(Servers)
        BY <1>1
      <4>2. QED
        BY <4>1 DEF Members
    <3>2. deadFor[s] < Timeout + elapsed[g]
      BY <1>1, <2>1 DEF AnswerInv
    <3>3. deadFor[s] \in Nat /\ elapsed[g] \in 0 .. Latency
      BY <1>1, <3>1 DEF TypeOK, RegistryTypeOK
    <3>4. QED
      BY <3>2, <3>3
  <2>4. RecentInv'
    BY <1>1, <2>1 DEF RecentInv
  <2>5. QED
    BY <2>2, <2>3, <2>4
<1>7. CASE UpdateServerList
  <2>1. PICK S \in SUBSET {s \in Servers : serverUp[s]} :
          \E list \in [1 .. Cardinality(S) -> S] :
             IsInjective(list) /\ serverList' = list
    BY <1>7 DEF UpdateServerList
  <2>2. Members(serverList') \subseteq S
    BY <2>1, ListType
  <2>3. listAge' = 0 /\ UNCHANGED <<pc, elapsed, reply>>
    BY <1>7 DEF UpdateServerList
  <2>4. ListInv'
    <3> SUFFICES ASSUME Timeout # 0, NEW s \in Members(serverList')
                 PROVE  deadFor[s] < Timeout + Latency
      BY <1>2, <2>3 DEF ListInv, Members
    <3>1. deadFor[s] = 0
      BY <1>1, <2>2 DEF UpInv
    <3>2. QED
      BY <3>1
  <2>5. AnswerInv' /\ RecentInv'
    BY <1>1, <1>2, <2>3 DEF AnswerInv, RecentInv, Members
  <2>6. QED
    BY <2>4, <2>5
<1>8. QED
  BY <1>3, <1>4, <1>5, <1>6, <1>7 DEF CallerStep

-----------------------------------------------------------------------------
(* The inductive invariant. *)

\* The invariant holds before anything has been registered.
LEMMA InitIInv == Init => IInv
<1> SUFFICES ASSUME Init
             PROVE  IInv
  OBVIOUS
<1> USE Times, FS_CardinalityType DEF Init, RegistryInit
<1>1. TypeOK /\ LengthInv
  <2>1. RegistryTypeOK
    BY DEF RegistryTypeOK
  <2>2. QED
    BY <2>1 DEF TypeOK, LengthInv
<1>2. UpInv /\ PostInv /\ BeatInv /\ EntryInv
  BY DEF UpInv, PostInv, BeatInv, EntryInv, Beating
<1>3. AnswerInv /\ ListInv /\ RecentInv
  BY DEF AnswerInv, ListInv, RecentInv
<1>4. QED
  BY <1>1, <1>2, <1>3 DEF IInv

\* Every step preserves the invariant.
LEMMA NextIInv == IInv /\ [Next]_vars => IInv'
<1> SUFFICES ASSUME IInv, [Next]_vars
             PROVE  IInv'
  OBVIOUS
<1>1. /\ TypeOK /\ LengthInv /\ UpInv /\ PostInv /\ BeatInv /\ EntryInv
      /\ AnswerInv /\ ListInv /\ RecentInv
  BY DEF IInv
<1>2. TypeOK' /\ LengthInv'
  BY <1>1, RegistryTypeStep, BalancerTypeStep, TypeParts DEF TypeOK, BalancerTypeOK
<1>3. UpInv' /\ PostInv' /\ BeatInv' /\ EntryInv'
  BY <1>1, UpStep, PostStep, BeatStep, EntryStep
<1>4. AnswerInv' /\ ListInv' /\ RecentInv'
  <2>1. CASE Tick
    BY <1>1, <2>1, CacheTick
  <2>2. CASE RegistryNext /\ UNCHANGED <<balancerVars, callerVars>>
    BY <1>1, <2>2, CacheServer
  <2>3. CASE (\E g \in Callers : CallerStep(g)) \/ UpdateServerList
    BY <2>3, CacheCaller
  <2>4. CASE UNCHANGED vars
    BY <1>1, <2>4 DEF vars, AnswerInv, ListInv, RecentInv, Members
  <2>5. QED
    BY <2>1, <2>2, <2>3, <2>4 DEF Next
<1>5. QED
  BY <1>2, <1>3, <1>4 DEF IInv

\* IInv holds in every reachable state.
THEOREM Invariance == Spec => []IInv
  BY InitIInv, NextIInv, PTL DEF Spec

\* Type correctness: in particular the index that round robin keeps across
\* lists of different lengths stays in range once it has been used.
THEOREM TypeCorrect == Spec => []TypeOK
<1>1. IInv => TypeOK
  BY DEF IInv
<1>2. QED
  BY <1>1, Invariance, PTL

\* A heartbeat keeps its server listed, for every timeout, heart rate and
\* latency with room for a late beat after a late first answer, and across
\* restarts of the registry.
THEOREM BeatingListed == Spec => []BeatingServerListed
<1>1. IInv => BeatingServerListed
  <2> SUFFICES ASSUME IInv, HeartRateSuffices, NEW s \in Servers,
                      Beating(s), upFor > FirstGap
               PROVE  s \in AliveServers
    BY DEF BeatingServerListed
  <2>1. TypeOK /\ PostInv /\ BeatInv
    BY DEF IInv
  <2>2. SinceBeat(s) \in 0 .. FirstGap /\ upFor \in Nat
    BY <2>1, SinceBeatBound, Times DEF TypeOK, RegistryTypeOK
  <2>3. s \in DOMAIN serverMap
    BY <2>1, <2>2, Times DEF BeatInv
  <2>4. QED
    BY <2>1, <2>3, BeatingIsAlive
<1>2. QED
  BY <1>1, Invariance, PTL

\* The two caches, each with its own timeout, hide a dead server for no longer
\* than Staleness, whatever fails and restarts meanwhile.
THEOREM DeadDropped == Spec => []DeadServerDropped
<1>1. IInv => DeadServerDropped
  <2> SUFFICES ASSUME IInv, Timeout # 0, NEW g \in Callers, pc[g] = "pick",
                      NEW s \in Members(serverList)
               PROVE  deadFor[s] < Staleness
    BY DEF DeadServerDropped
  <2>1. TypeOK /\ ListInv /\ RecentInv
    BY DEF IInv
  <2>2. elapsed[g] \in 0 .. Latency /\ listAge \in Nat /\ s \in Servers
    BY <2>1, Times DEF TypeOK, Members
  <2>3. listAge < UpdateTimeout + Latency
    BY <2>1, <2>2 DEF RecentInv
  <2>4. deadFor[s] < Timeout + Latency + listAge
    BY <2>1, <2>3 DEF ListInv, Obsolete
  <2>5. deadFor[s] \in Nat
    BY <2>1, <2>2 DEF TypeOK, RegistryTypeOK
  <2>6. QED
    BY <2>2, <2>3, <2>4, <2>5 DEF Staleness
<1>2. QED
  BY <1>1, Invariance, PTL
=============================================================================
