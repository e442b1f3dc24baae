-------------------------- MODULE RoundRobinProofs --------------------------
(***************************************************************************)
(* RoundRobinFair for any servers, callers, times and starting index: the  *)
(* last servers given out in turn stand behind one another in the list,    *)
(* up to the index, across the list's end.  A refresh that brings the same *)
(* servers brings the same list, because there is one sorted list of a set *)
(* of servers; a server's place in it is the number of those not above it. *)
(***************************************************************************)
EXTENDS DiscoveryProofs

\* Where in a list of n servers the one stood that was given out k turns ago,
\* when the index is x now.
Place(x, k, n) == IF k <= x THEN x - k + 1 ELSE x - k + 1 + n

\* The last picks are the servers before the index.
TurnInv ==
    /\ IsInjective(serverList)
    /\ Len(recent) <= Len(serverList)
    /\ recent # << >> => serverIndex < Len(serverList)
    /\ \A i \in 1 .. Len(recent) :
         recent[i] =
           serverList[Place(serverIndex, Len(recent) + 1 - i, Len(serverList))]

\* An answer of the registry is sorted.
ReplyInv ==
    \A g \in Callers : pc[g] = "answer" => reply[g] \in Sorted(Members(reply[g]))

-----------------------------------------------------------------------------
(* The sorted list of a set of servers. *)

USE RegistryAssumption, DiscoveryAssumption
    DEF registryVars, serverVars, balancerVars, callerVars

\* A sorted list of S names each member of S once.
LEMMA SortedFacts ==
    ASSUME NEW S \in SUBSET Servers, NEW list \in Sorted(S)
    PROVE  /\ Cardinality(S) \in Nat
           /\ list \in [1 .. Cardinality(S) -> S]
           /\ IsInjective(list)
           /\ \A s \in S : \E i \in 1 .. Cardinality(S) : list[i] = s
           /\ Members(list) = S
<1> DEFINE n == Cardinality(S)
<1>1. IsFiniteSet(S) /\ n \in Nat
  BY FS_Subset, FS_CardinalityType
<1>2. list \in [1 .. n -> S]
  BY DEF Sorted
<1>3. IsInjective(list)
  <2> SUFFICES ASSUME NEW i \in 1 .. n, NEW j \in 1 .. n, list[i] = list[j]
               PROVE  i = j
    BY <1>2 DEF IsInjective
  <2>1. list[i] \in Nat /\ list[j] \in Nat
    BY <1>2
  <2>2. ~ (i < j) /\ ~ (j < i)
    BY <2>1 DEF Sorted
  <2>3. QED
    BY <1>1, <2>2
<1>4. IsFiniteSet(1 .. n) /\ Cardinality(1 .. n) = n
  BY <1>1, FS_Interval
<1>5. list \in Injection(1 .. n, S)
  BY <1>2, <1>3 DEF Injection
<1>6. list \in Surjection(1 .. n, S)
  BY <1>1, <1>4, <1>5, FS_Injection
<1>7. \A s \in S : \E i \in 1 .. n : list[i] = s
  BY <1>6 DEF Surjection
<1>8. Members(list) = S
  BY <1>2, <1>7 DEF Members
<1>9. QED
  BY <1>1, <1>2, <1>3, <1>7, <1>8

\* A server's place in a sorted list is the number of those not above it.
LEMMA SortedRank ==
    ASSUME NEW S \in SUBSET Servers, NEW list \in Sorted(S),
           NEW i \in 1 .. Cardinality(S)
    PROVE  Cardinality({t \in S : t <= list[i]}) = i
<1> DEFINE n == Cardinality(S)
           T == {t \in S : t <= list[i]}
           f == [j \in 1 .. i |-> list[j]]
<1>1. /\ n \in Nat /\ list \in [1 .. n -> S]
      /\ IsInjective(list)
      /\ \A s \in S : \E j \in 1 .. n : list[j] = s
  BY SortedFacts
<1>2. i \in 1 .. n /\ 1 .. i \subseteq 1 .. n
  BY <1>1
<1>3. \A j \in 1 .. n : list[j] \in S /\ list[j] \in Nat
  BY <1>1
<1>4. \A j \in 1 .. n : j <= i <=> list[j] <= list[i]
  <2> TAKE j \in 1 .. n
  <2>1. list[j] \in Nat /\ list[i] \in Nat
    BY <1>2, <1>3
  <2>2. (j < i => list[j] < list[i]) /\ (i < j => list[i] < list[j])
    BY DEF Sorted
  <2>3. QED
    BY <1>1, <2>1, <2>2
<1>5. f \in [1 .. i -> T]
  BY <1>2, <1>3, <1>4
<1>6. f \in Injection(1 .. i, T)
  <2>1. IsInjective(f)
    BY <1>1, <1>2 DEF IsInjective
  <2>2. QED
    BY <1>5, <2>1 DEF Injection
<1>7. f \in Surjection(1 .. i, T)
  <2>1. ASSUME NEW t \in T
        PROVE  \E j \in 1 .. i : f[j] = t
    <3>1. PICK j \in 1 .. n : list[j] = t
      BY <1>1
    <3>2. j \in 1 .. i
      BY <1>1, <1>4, <3>1
    <3>3. QED
      BY <3>1, <3>2
  <2>2. QED
    BY <1>5, <2>1 DEF Surjection
<1>8. ExistsBijection(1 .. i, T)
  <2> HIDE DEF T, f
  <2>1. QED
    BY <1>6, <1>7 DEF ExistsBijection, Bijection
<1>9. i \in Nat
  BY <1>1
<1>10. QED
  BY <1>8, <1>9, FS_CountingElements

\* There is one sorted list of a set of servers.
LEMMA SortedUnique ==
    ASSUME NEW S \in SUBSET Servers, NEW a \in Sorted(S), NEW b \in Sorted(S)
    PROVE  a = b
<1> DEFINE n == Cardinality(S)
<1>1. a \in [1 .. n -> S] /\ b \in [1 .. n -> S]
  BY SortedFacts
<1>2. ASSUME NEW i \in 1 .. n
      PROVE  a[i] = b[i]
  <2>1. PICK j \in 1 .. n : b[j] = a[i]
    <3>1. \A s \in S : \E j \in 1 .. n : b[j] = s
      BY SortedFacts
    <3>2. a[i] \in S
      BY <1>1
    <3>3. QED
      BY <3>1, <3>2
  <2>2. Cardinality({t \in S : t <= a[i]}) = i
    BY SortedRank
  <2>3. Cardinality({t \in S : t <= b[j]}) = j
    BY SortedRank
  <2>4. i = j
    BY <2>1, <2>2, <2>3
  <2>5. QED
    BY <2>1, <2>4
<1>3. a = [i \in 1 .. n |-> a[i]] /\ b = [i \in 1 .. n |-> b[i]]
  BY <1>1
<1>4. [i \in 1 .. n |-> a[i]] = [i \in 1 .. n |-> b[i]]
  BY <1>2
<1>5. QED
  BY <1>3, <1>4

-----------------------------------------------------------------------------
(* The index. *)

\* Division with remainder.
LEMMA Quotient ==
    ASSUME NEW n \in Nat \ {0}, NEW x \in Nat
    PROVE  /\ x \div n \in Nat
           /\ x % n \in 0 .. (n - 1)
           /\ x = n * (x \div n) + (x % n)
  BY Z3

\* The remainder is the one number below n that is left over.
LEMMA Remainder ==
    ASSUME NEW n \in Nat \ {0}, NEW q \in Nat, NEW r \in 0 .. (n - 1)
    PROVE  (n * q + r) % n = r
  BY Z3

\* The place after the one the index stands for, also for an index that was
\* never reduced.
LEMMA NextRemainder ==
    ASSUME NEW n \in Nat \ {0}, NEW x \in Nat
    PROVE  (x + 1) % n = IF x % n = n - 1 THEN 0 ELSE (x % n) + 1
<1> DEFINE q == x \div n
           r == x % n
<1>1. q \in Nat /\ r \in 0 .. (n - 1) /\ x = n * q + r
  BY Quotient
<1> HIDE DEF q, r
<1>2. CASE r = n - 1
  <2>1. n * (q + 1) = n * q + n
    BY <1>1
  <2>2. x + 1 = n * (q + 1) + 0
    BY <1>1, <1>2, <2>1
  <2>3. q + 1 \in Nat /\ 0 \in 0 .. (n - 1)
    BY <1>1
  <2>4. (n * (q + 1) + 0) % n = 0
    BY <2>3, Remainder
  <2>5. (x + 1) % n = 0
    BY <2>2, <2>4
  <2>6. QED
    BY <1>2, <2>5 DEF r
<1>3. CASE r # n - 1
  <2>1. x + 1 = n * q + (r + 1)
    BY <1>1
  <2>2. r + 1 \in 0 .. (n - 1)
    BY <1>1, <1>3
  <2>3. (n * q + (r + 1)) % n = r + 1
    BY <1>1, <2>2, Remainder
  <2>4. (x + 1) % n = r + 1
    BY <2>1, <2>3
  <2>5. QED
    BY <1>3, <2>4 DEF r
<1>4. QED
  BY <1>2, <1>3

\* The last n turns are n different places of the list.
LEMMA PlaceFacts ==
    ASSUME NEW n \in Nat \ {0}, NEW x \in 0 .. (n - 1), NEW k \in 1 .. n
    PROVE  /\ Place(x, k, n) \in 1 .. n
           /\ \A j \in 1 .. n : Place(x, j, n) = Place(x, k, n) => j = k
  BY DEF Place

\* A turn later every place is a turn further back.
LEMMA PlaceStep ==
    ASSUME NEW n \in Nat \ {0}, NEW x \in 0 .. (n - 1), NEW k \in 1 .. (n - 1)
    PROVE  Place((x + 1) % n, k + 1, n) = Place(x, k, n)
<1>1. x \in Nat /\ x % n = x
  OBVIOUS
<1> DEFINE y == (x + 1) % n
<1>2. y = IF x % n = n - 1 THEN 0 ELSE (x % n) + 1
  BY <1>1, NextRemainder
<1> HIDE DEF y
<1>3. Place(y, k + 1, n) = Place(x, k, n)
  BY <1>1, <1>2 DEF Place
<1>4. QED
  BY <1>3 DEF y

\* The pick itself is the first place behind the index, whatever the index is.
LEMMA PlaceOfPick ==
    ASSUME NEW n \in Nat \ {0}, NEW x \in Nat
    PROVE  /\ (x + 1) % n \in 0 .. (n - 1)
           /\ x % n \in 0 .. (n - 1)
           /\ Place((x + 1) % n, 1, n) = (x % n) + 1
<1>1. (x + 1) % n \in 0 .. (n - 1) /\ x % n \in 0 .. (n - 1)
  OBVIOUS
<1> DEFINE r == x % n
           y == (x + 1) % n
<1>2. y = IF r = n - 1 THEN 0 ELSE r + 1
  BY NextRemainder
<1>3. r \in 0 .. (n - 1) /\ y \in 0 .. (n - 1)
  BY <1>1
<1> HIDE DEF r, y
<1>4. Place(y, 1, n) = r + 1
  BY <1>2, <1>3 DEF Place
<1>5. QED
  BY <1>1, <1>4 DEF r, y

-----------------------------------------------------------------------------
(* The steps of the load balancer. *)

\* A pick in turn.
LEMMA PickTurn ==
    ASSUME TypeOK, TurnInv, NEW g \in Callers, PickInTurn(g)
    PROVE  TurnInv'
<1> DEFINE n == Len(serverList)
           x == serverIndex
           y == (x + 1) % n
           k == Len(recent)
           pick == serverList[(x % n) + 1]
           picks == Append(recent, pick)
           m == Len(recent')
<1>1. /\ serverList \in Seq(Servers) /\ recent \in Seq(Servers)
      /\ n \in Nat \ {0} /\ x \in Nat /\ k \in 0 .. n
  <2>1. Cardinality(Servers) \in Nat
    BY FS_CardinalityType
  <2>2. QED
    BY <2>1 DEF PickInTurn, TypeOK, TurnInv
<1>2. serverList' = serverList /\ serverIndex' = y /\ recent' = LastOf(picks)
  BY DEF PickInTurn, NextIndex
<1>3. y \in 0 .. (n - 1) /\ x % n \in 0 .. (n - 1) /\ Place(y, 1, n) = (x % n) + 1
  BY <1>1, PlaceOfPick
<1>4. pick \in Servers
  BY <1>1, <1>3
<1>5. /\ picks \in Seq(Servers) /\ Len(picks) = k + 1 /\ picks[k + 1] = pick
      /\ \A i \in 1 .. k : picks[i] = recent[i]
  BY <1>1, <1>4
<1>6. IF k = n THEN m = n /\ \A i \in 1 .. n : recent'[i] = picks[i + 1]
               ELSE m = k + 1 /\ \A i \in 1 .. m : recent'[i] = picks[i]
  <2> HIDE DEF picks
  <2>1. CASE k = n
    <3>1. recent' = SubSeq(picks, 2, n + 1)
      BY <1>1, <1>2, <1>5, <2>1 DEF LastOf
    <3>2. QED
      BY <1>1, <1>5, <2>1, <3>1
  <2>2. CASE k # n
    <3>1. recent' = SubSeq(picks, 1, k + 1)
      BY <1>1, <1>2, <1>5, <2>2 DEF LastOf
    <3>2. QED
      BY <1>1, <1>5, <2>2, <3>1
  <2>3. QED
    BY <2>1, <2>2
<1>7. m \in 1 .. n
  BY <1>1, <1>6
<1>8. ASSUME NEW i \in 1 .. m
      PROVE  recent'[i] = serverList[Place(y, m + 1 - i, n)]
  <2>1. CASE i = m
    <3>1. recent'[i] = pick
      BY <1>1, <1>5, <1>6, <2>1
    <3>2. m + 1 - i = 1
      BY <1>7, <2>1
    <3>3. QED
      BY <1>3, <3>1, <3>2
  <2>2. CASE i # m
    <3> DEFINE d == m - i
    <3>1. d \in 1 .. (n - 1) /\ m + 1 - i = d + 1 /\ d \in 1 .. k
      BY <1>1, <1>6, <1>7, <2>2
    <3>2. recent'[i] = recent[k + 1 - d]
      <4>1. CASE k = n
        <5>1. m = n
          BY <1>6, <4>1
        <5>2. i + 1 = k + 1 - d /\ i + 1 \in 1 .. k /\ i \in 1 .. n
          BY <1>1, <2>2, <4>1, <5>1
        <5>3. recent'[i] = picks[i + 1]
          BY <1>6, <4>1, <5>2
        <5>4. picks[i + 1] = recent[i + 1]
          BY <1>5, <5>2
        <5>5. QED
          BY <5>2, <5>3, <5>4
      <4>2. CASE k # n
        <5>1. i = k + 1 - d /\ i \in 1 .. k
          BY <1>1, <1>6, <1>7, <2>2, <4>2
        <5>2. recent'[i] = picks[i]
          BY <1>6, <4>2
        <5>3. picks[i] = recent[i]
          BY <1>5, <5>1
        <5>4. QED
          BY <5>1, <5>2, <5>3
      <4>3. QED
        BY <4>1, <4>2
    <3>3. k + 1 - d \in 1 .. k /\ k + 1 - (k + 1 - d) = d
      BY <1>1, <3>1
    <3> HIDE DEF d
    <3>4. recent[k + 1 - d] = serverList[Place(x, d, n)]
      BY <3>3 DEF TurnInv
    <3>5. x \in 0 .. (n - 1)
      BY <1>1, <3>1 DEF TurnInv
    <3>6. Place(y, d + 1, n) = Place(x, d, n)
      BY <1>1, <3>1, <3>5, PlaceStep
    <3>7. QED
      BY <3>1, <3>2, <3>4, <3>6
  <2>3. QED
    BY <2>1, <2>2
<1>9. IsInjective(serverList')
  BY <1>2 DEF TurnInv
<1>10. QED
  <2> HIDE DEF y
  <2>1. Len(serverList') = n /\ m <= n /\ serverIndex' < n
    BY <1>1, <1>2, <1>3, <1>7
  <2>2. QED
    BY <1>2, <1>8, <1>9, <2>1 DEF TurnInv

\* A new list: with the same servers it is the list that was there.
LEMMA InstallTurn ==
    ASSUME TypeOK, TurnInv, ReplyInv, NEW g \in Callers, InstallList(g)
    PROVE  TurnInv'
<1> DEFINE S == Members(reply[g])
<1>1. /\ reply[g] \in Seq(Servers) /\ serverList \in Seq(Servers)
      /\ pc[g] = "answer" /\ serverList' = reply[g] /\ serverIndex' = serverIndex
  BY DEF TypeOK, InstallList
<1>2. S \in SUBSET Servers /\ reply[g] \in Sorted(S)
  BY <1>1 DEF ReplyInv, Members
<1>3. IsInjective(serverList')
  BY <1>1, <1>2, SortedFacts
<1>4. CASE S = Members(serverList) /\ serverList \in Sorted(Members(serverList))
  <2>1. serverList' = serverList
    BY <1>1, <1>2, <1>4, SortedUnique
  <2>2. recent' = recent
    BY <1>4 DEF InstallList
  <2>3. QED
    BY <1>1, <2>1, <2>2 DEF TurnInv
<1>5. CASE ~ (S = Members(serverList) /\ serverList \in Sorted(Members(serverList)))
  <2>1. recent' = << >>
    BY <1>5 DEF InstallList
  <2>2. Len(serverList') \in Nat
    BY <1>1
  <2>3. QED
    BY <1>3, <2>1, <2>2 DEF TurnInv
<1>6. QED
  BY <1>4, <1>5

\* Every step keeps the turns.
LEMMA TurnStep ==
    ASSUME TypeOK, TurnInv, ReplyInv, [Next]_vars
    PROVE  TurnInv'
<1>1. ASSUME NEW g \in Callers, PickInTurn(g)
      PROVE  TurnInv'
  BY <1>1, PickTurn
<1>2. ASSUME NEW g \in Callers, InstallList(g)
      PROVE  TurnInv'
  BY <1>2, InstallTurn
<1>3. CASE UpdateServerList
  <2>1. PICK S \in SUBSET {s \in Servers : serverUp[s]} :
          \E list \in [1 .. Cardinality(S) -> S] :
             IsInjective(list) /\ serverList' = list
    BY <1>3 DEF UpdateServerList
  <2>2. IsInjective(serverList') /\ serverList' \in Seq(Servers)
    BY <2>1, ListType
  <2>3. recent' = << >> /\ Len(serverList') \in Nat
    BY <1>3, <2>2 DEF UpdateServerList
  <2>4. QED
    BY <2>2, <2>3 DEF TurnInv
<1>4. CASE UNCHANGED <<serverList, serverIndex, recent>>
  BY <1>4 DEF TurnInv
<1>5. QED
  BY <1>1, <1>2, <1>3, <1>4
  DEF Next, RegistryNext, CallerStep, KeepList, SendGet, ServeGet, GetFails,
      PickOrRead, Tick, vars

\* Every answer on its way is sorted: ServeHTTP sorts it.
LEMMA ReplyStep ==
    ASSUME TypeOK, ReplyInv, [Next]_vars
    PROVE  ReplyInv'
<1>1. pc \in [Callers -> {"idle", "get", "answer", "pick"}]
      /\ reply \in [Callers -> Seq(Servers)]
  BY DEF TypeOK
<1>2. ASSUME NEW g \in Callers, ServeGet(g)
      PROVE  ReplyInv'
  <2>1. PICK list \in Sorted(AliveServers) : reply' = [reply EXCEPT ![g] = list]
    BY <1>2 DEF ServeGet
  <2>2. AliveServers \subseteq Servers
    BY <1>2, ExpiryEffect DEF ServeGet
  <2>3. list \in Sorted(Members(list))
    BY <2>2, SortedFacts
  <2>4. \A h \in Callers : h # g => pc'[h] = pc[h] /\ reply'[h] = reply[h]
    BY <1>1, <1>2, <2>1 DEF ServeGet, Goto
  <2>5. reply'[g] = list
    BY <1>1, <2>1
  <2>6. QED
    BY <2>3, <2>4, <2>5 DEF ReplyInv
<1>3. ASSUME NEW g \in Callers, CallerStep(g), ~ ServeGet(g)
      PROVE  ReplyInv'
  <2>1. /\ pc'[g] # "answer"
        /\ \A h \in Callers : h # g => pc'[h] = pc[h] /\ reply'[h] = reply[h]
    BY <1>1, <1>3 DEF CallerStep, KeepList, SendGet, GetFails, InstallList,
       PickInTurn, PickOrRead, Return, Goto
  <2>2. QED
    BY <2>1 DEF ReplyInv
<1>4. CASE UNCHANGED <<pc, reply>>
  BY <1>4 DEF ReplyInv
<1>5. QED
  BY <1>2, <1>3, <1>4 DEF Next, UpdateServerList, Tick, vars

\* TurnInv and ReplyInv hold in every reachable state.
THEOREM TurnInvariance == Spec => [](TurnInv /\ ReplyInv)
<1>1. Init => TurnInv /\ ReplyInv
  BY DEF Init, TurnInv, ReplyInv, IsInjective
<1>2. IInv /\ TurnInv /\ ReplyInv /\ [Next]_vars => (TurnInv /\ ReplyInv)'
  BY TurnStep, ReplyStep DEF IInv
<1>3. QED
  BY <1>1, <1>2, Invariance, PTL DEF Spec

\* Round robin gives out no server twice before the others had their turn,
\* from any starting index and across any number of refreshes.
THEOREM TurnsTaken == Spec => []RoundRobinFair
<1>1. IInv /\ TurnInv => RoundRobinFair
  <2> SUFFICES ASSUME TypeOK, TurnInv, NEW i \in DOMAIN recent,
                      NEW j \in DOMAIN recent, recent[i] = recent[j]
               PROVE  i = j
    BY DEF RoundRobinFair, IsInjective, IInv
  <2> DEFINE n == Len(serverList)
             k == Len(recent)
             x == serverIndex
             p == k + 1 - i
             q == k + 1 - j
  <2>1. /\ serverList \in Seq(Servers) /\ recent \in Seq(Servers)
        /\ i \in 1 .. k /\ j \in 1 .. k /\ k \in 0 .. n
    BY DEF TypeOK, TurnInv
  <2>2. n \in Nat \ {0} /\ p \in 1 .. n /\ q \in 1 .. n
    BY <2>1
  <2>3. x \in 0 .. (n - 1)
    <3>1. Cardinality(Servers) \in Nat /\ x \in Nat
      BY FS_CardinalityType DEF TypeOK
    <3>2. QED
      BY <2>1, <3>1 DEF TurnInv
  <2>4. recent[i] = serverList[Place(x, p, n)] /\ recent[j] = serverList[Place(x, q, n)]
    BY <2>1 DEF TurnInv
  <2>5. Place(x, p, n) \in DOMAIN serverList /\ Place(x, q, n) \in DOMAIN serverList
    <3>1. Place(x, p, n) \in 1 .. n /\ Place(x, q, n) \in 1 .. n
      BY <2>2, <2>3, PlaceFacts
    <3>2. DOMAIN serverList = 1 .. n
      BY <2>1
    <3>3. QED
      BY <3>1, <3>2
  <2>6. Place(x, p, n) = Place(x, q, n)
    BY <2>4, <2>5 DEF TurnInv, IsInjective
  <2>7. p = q
    BY <2>2, <2>3, <2>6, PlaceFacts
  <2>8. QED
    BY <2>1, <2>7
<1>2. QED
  BY <1>1, Invariance, TurnInvariance, PTL
=============================================================================
