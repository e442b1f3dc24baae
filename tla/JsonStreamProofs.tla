-------------------------- MODULE JsonStreamProofs --------------------------
(***************************************************************************)
(* Lemmas about streams of values, for the proofs about the two ends of a  *)
(* connection: where the header with a given number occurs, and that it    *)
(* occurs once, when streams are joined, extended and read.                *)
(***************************************************************************)
EXTENDS JsonStream, SequenceTheorems, TLAPS

\* v is a header with number n.
IsHeader(v, n) == v.type = "header" /\ v.seq = n

\* A header with number n is somewhere in s.
Occurs(s, n) == \E i \in 1 .. Len(s) : IsHeader(s[i], n)

\* It is in one place at most.
Once(s, n) ==
    \A i, j \in 1 .. Len(s) : IsHeader(s[i], n) /\ IsHeader(s[j], n) => i = j

\* Joining two streams.
LEMMA OccursConcat ==
    ASSUME NEW V, NEW s \in Seq(V), NEW t \in Seq(V), NEW n
    PROVE  /\ Occurs(s \o t, n) <=> Occurs(s, n) \/ Occurs(t, n)
           /\ Once(s \o t, n) <=> /\ Once(s, n) /\ Once(t, n)
                                  /\ ~(Occurs(s, n) /\ Occurs(t, n))
<1>1. /\ Len(s) \in Nat /\ Len(t) \in Nat
      /\ Len(s \o t) = Len(s) + Len(t)
      /\ \A i \in 1 .. Len(s) : (s \o t)[i] = s[i]
      /\ \A i \in 1 .. Len(t) : (s \o t)[Len(s) + i] = t[i]
      /\ \A i \in 1 .. Len(s) + Len(t) :
           i \in 1 .. Len(s) \/ \E j \in 1 .. Len(t) : i = Len(s) + j
  <2>1. Len(s) \in Nat /\ Len(t) \in Nat
    BY LenProperties
  <2>2. \A i \in 1 .. Len(s) + Len(t) :
          i \in 1 .. Len(s) \/ \E j \in 1 .. Len(t) : i = Len(s) + j
    <3> SUFFICES ASSUME NEW i \in 1 .. Len(s) + Len(t), i \notin 1 .. Len(s)
                 PROVE  \E j \in 1 .. Len(t) : i = Len(s) + j
      OBVIOUS
    <3> WITNESS i - Len(s) \in 1 .. Len(t)
    <3> QED
      BY <2>1
  <2>3. QED
    BY <2>1, <2>2, ConcatProperties
<1>2. Occurs(s \o t, n) <=> Occurs(s, n) \/ Occurs(t, n)
  <2>1. Occurs(s, n) => Occurs(s \o t, n)
    BY <1>1 DEF Occurs
  <2>2. ASSUME Occurs(t, n) PROVE Occurs(s \o t, n)
    <3>1. PICK j \in 1 .. Len(t) : IsHeader(t[j], n)
      BY <2>2 DEF Occurs
    <3>2. Len(s) + j \in 1 .. Len(s \o t)
      BY <1>1
    <3>3. QED
      BY <1>1, <3>1, <3>2 DEF Occurs
  <2>3. ASSUME Occurs(s \o t, n) PROVE Occurs(s, n) \/ Occurs(t, n)
    BY <1>1, <2>3 DEF Occurs
  <2>4. QED
    BY <2>1, <2>2, <2>3
<1>3. ASSUME Once(s \o t, n)
      PROVE  Once(s, n) /\ Once(t, n) /\ ~(Occurs(s, n) /\ Occurs(t, n))
  <2>1. Once(s, n)
    BY <1>1, <1>3 DEF Once
  <2>2. Once(t, n)
    <3> SUFFICES ASSUME NEW i \in 1 .. Len(t), NEW j \in 1 .. Len(t),
                        IsHeader(t[i], n), IsHeader(t[j], n)
                 PROVE  i = j
      BY DEF Once
    <3>1. Len(s) + i \in 1 .. Len(s \o t) /\ Len(s) + j \in 1 .. Len(s \o t)
      BY <1>1
    <3>2. Len(s) + i = Len(s) + j
      BY <1>1, <1>3, <3>1 DEF Once
    <3>3. QED
      BY <1>1, <3>2
  <2>3. ASSUME NEW i \in 1 .. Len(s), NEW j \in 1 .. Len(t),
               IsHeader(s[i], n), IsHeader(t[j], n)
        PROVE  FALSE
    <3>1. i \in 1 .. Len(s \o t) /\ Len(s) + j \in 1 .. Len(s \o t)
      BY <1>1
    <3>2. i = Len(s) + j
      BY <1>1, <1>3, <2>3, <3>1 DEF Once
    <3>3. QED
      BY <1>1, <3>2
  <2>4. QED
    BY <2>1, <2>2, <2>3 DEF Occurs
<1>4. ASSUME Once(s, n), Once(t, n), ~(Occurs(s, n) /\ Occurs(t, n))
      PROVE  Once(s \o t, n)
  <2> SUFFICES ASSUME NEW i \in 1 .. Len(s \o t), NEW j \in 1 .. Len(s \o t),
                      IsHeader((s \o t)[i], n), IsHeader((s \o t)[j], n)
               PROVE  i = j
    BY DEF Once
  <2>1. CASE Occurs(s, n)
    <3>1. i \in 1 .. Len(s) /\ j \in 1 .. Len(s)
      BY <1>1, <1>4, <2>1 DEF Occurs
    <3>2. QED
      BY <1>1, <1>4, <3>1 DEF Once
  <2>2. CASE ~Occurs(s, n)
    <3>1. PICK k \in 1 .. Len(t) : i = Len(s) + k
      BY <1>1, <2>2 DEF Occurs
    <3>2. PICK l \in 1 .. Len(t) : j = Len(s) + l
      BY <1>1, <2>2 DEF Occurs
    <3>3. k = l
      BY <1>1, <1>4, <3>1, <3>2 DEF Once
    <3>4. QED
      BY <3>1, <3>2, <3>3
  <2>3. QED
    BY <2>1, <2>2
<1>5. QED
  BY <1>2, <1>3, <1>4

\* A stream of one value.
LEMMA OccursSingle ==
    ASSUME NEW V, NEW v \in V, NEW n
    PROVE  /\ <<v>> \in Seq(V)
           /\ Occurs(<<v>>, n) <=> IsHeader(v, n)
           /\ Once(<<v>>, n)
  BY DEF Occurs, Once

\* A stream of two values.
LEMMA OccursPair ==
    ASSUME NEW V, NEW v \in V, NEW w \in V, NEW n
    PROVE  /\ <<v, w>> \in Seq(V)
           /\ Occurs(<<v, w>>, n) <=> IsHeader(v, n) \/ IsHeader(w, n)
           /\ Once(<<v, w>>, n) <=> ~(IsHeader(v, n) /\ IsHeader(w, n))
  BY DEF Occurs, Once

\* Nothing occurs in an empty stream.
LEMMA OccursEmpty ==
    ASSUME NEW n
    PROVE  ~Occurs(<< >>, n) /\ Once(<< >>, n)
  BY DEF Occurs, Once

\* Writing one more value.
LEMMA OccursAppend ==
    ASSUME NEW V, NEW s \in Seq(V), NEW v \in V, NEW n
    PROVE  /\ Append(s, v) \in Seq(V)
           /\ Occurs(Append(s, v), n) <=> Occurs(s, n) \/ IsHeader(v, n)
           /\ Once(Append(s, v), n) <=>
                Once(s, n) /\ ~(Occurs(s, n) /\ IsHeader(v, n))
<1>1. Append(s, v) = s \o <<v>> /\ Append(s, v) \in Seq(V)
  BY AppendProperties, AppendIsConcat
<1>2. /\ <<v>> \in Seq(V)
      /\ Occurs(<<v>>, n) <=> IsHeader(v, n)
      /\ Once(<<v>>, n)
  BY OccursSingle
<1>3. /\ Occurs(s \o <<v>>, n) <=> Occurs(s, n) \/ Occurs(<<v>>, n)
      /\ Once(s \o <<v>>, n) <=> /\ Once(s, n) /\ Once(<<v>>, n)
                                 /\ ~(Occurs(s, n) /\ Occurs(<<v>>, n))
  BY <1>2, OccursConcat
<1>4. QED
  BY <1>1, <1>2, <1>3

\* A header and its body.
LEMMA HeaderAndBody ==
    ASSUME NEW V, NEW h \in V, NEW b \in V
    PROVE  Append(<<h>>, b) = <<h, b>>
<1>1. <<h>> \in Seq(V) /\ <<h, b>> \in Seq(V) /\ Append(<<h>>, b) \in Seq(V)
  OBVIOUS
<1>2. /\ Len(Append(<<h>>, b)) = 2 /\ Len(<<h, b>>) = 2
      /\ Append(<<h>>, b)[1] = h /\ Append(<<h>>, b)[2] = b
  BY <1>1, AppendProperties
<1>3. \A i \in 1 .. 2 : Append(<<h>>, b)[i] = <<h, b>>[i]
  BY <1>2
<1>4. QED
  BY <1>1, <1>2, <1>3, SeqEqual

\* The next value of a stream.
LEMMA FirstValue ==
    ASSUME NEW V, NEW s \in Seq(V), Len(s) # 0
    PROVE  s # << >> /\ Head(s) = s[1]
  OBVIOUS

\* The values that are left of a stream when its first k have been read.
LEMMA SuffixElements ==
    ASSUME NEW V, NEW s \in Seq(V), NEW k \in 0 .. Len(s)
    PROVE  LET t == SubSeq(s, k + 1, Len(s))
           IN  /\ Len(s) \in Nat /\ t \in Seq(V)
               /\ Len(t) = Len(s) - k
               /\ \A i \in 1 .. Len(t) : t[i] = s[k + i] /\ k + i \in 1 .. Len(s)
<1> DEFINE t == SubSeq(s, k + 1, Len(s))
<1>1. Len(s) \in Nat /\ \A i \in k + 1 .. Len(s) : s[i] \in V
  BY LenProperties, ElementOfSeq
<1>2. /\ t \in Seq(V)
      /\ Len(t) = IF k + 1 <= Len(s) THEN Len(s) - (k + 1) + 1 ELSE 0
      /\ \A i \in 1 .. Len(s) - (k + 1) + 1 : t[i] = s[k + 1 + i - 1]
  BY <1>1, SubSeqProperties
<1>3. Len(t) = Len(s) - k
  BY <1>1, <1>2
<1>4. ASSUME NEW i \in 1 .. Len(t)
      PROVE  t[i] = s[k + i] /\ k + i \in 1 .. Len(s)
  BY <1>1, <1>2, <1>3
<1>5. QED
  BY <1>1, <1>2, <1>3, <1>4

\* What is left of a stream when its first values have been read.
LEMMA OccursSuffix ==
    ASSUME NEW V, NEW s \in Seq(V), NEW k \in 0 .. Len(s), NEW n
    PROVE  /\ SubSeq(s, k + 1, Len(s)) \in Seq(V)
           /\ Occurs(SubSeq(s, k + 1, Len(s)), n) => Occurs(s, n)
           /\ Once(s, n) => Once(SubSeq(s, k + 1, Len(s)), n)
<1> DEFINE t == SubSeq(s, k + 1, Len(s))
<1>1. /\ Len(s) \in Nat /\ t \in Seq(V)
      /\ Len(t) = Len(s) - k
      /\ \A i \in 1 .. Len(t) : t[i] = s[k + i] /\ k + i \in 1 .. Len(s)
  BY SuffixElements
<1> HIDE DEF t
<1>2. Occurs(t, n) => Occurs(s, n)
  BY <1>1 DEF Occurs
<1>3. ASSUME Once(s, n) PROVE Once(t, n)
  <2> SUFFICES ASSUME NEW i \in 1 .. Len(t), NEW j \in 1 .. Len(t),
                      IsHeader(t[i], n), IsHeader(t[j], n)
               PROVE  i = j
    BY DEF Once
  <2>1. k + i = k + j
    BY <1>1, <1>3 DEF Once
  <2>2. QED
    BY <1>1, <2>1
<1>4. QED
  BY <1>1, <1>2, <1>3 DEF t

\* What read-ahead leaves of a stream: its end, whose first value may be cut.
LEMMA ReadAheadElements ==
    ASSUME NEW V, NEW s \in Seq(V), NEW k, NEW t \in ReadAhead(s, k), Fragment \in V
    PROVE  /\ t \in Seq(V) /\ Len(s) \in Nat
           /\ \E d \in 0 .. Len(s) :
                /\ Len(t) = Len(s) - d
                /\ \A i \in 1 .. Len(t) :
                     /\ d + i \in 1 .. Len(s)
                     /\ t[i] = s[d + i] \/ (i = 1 /\ t[i] = Fragment)
<1>1. PICK n \in 0 .. Len(s) :
        \/ t = SubSeq(s, n + 1, Len(s))
        \/ n < Len(s) /\ t = <<Fragment>> \o SubSeq(s, n + 2, Len(s))
  BY DEF ReadAhead
<1>2. CASE t = SubSeq(s, n + 1, Len(s))
  <2>1. /\ Len(s) \in Nat /\ t \in Seq(V)
        /\ Len(t) = Len(s) - n
        /\ \A i \in 1 .. Len(t) : t[i] = s[n + i] /\ n + i \in 1 .. Len(s)
    BY <1>2, SuffixElements
  <2>2. QED
    BY <2>1
<1>3. CASE n < Len(s) /\ t = <<Fragment>> \o SubSeq(s, n + 2, Len(s))
  <2> DEFINE u == SubSeq(s, (n + 1) + 1, Len(s))
  <2>1. n + 1 \in 0 .. Len(s) /\ (n + 1) + 1 = n + 2
    BY <1>3, LenProperties
  <2>2. /\ Len(s) \in Nat /\ u \in Seq(V)
        /\ Len(u) = Len(s) - (n + 1)
        /\ \A i \in 1 .. Len(u) : u[i] = s[n + 1 + i] /\ n + 1 + i \in 1 .. Len(s)
    BY <2>1, SuffixElements
  <2>3. t = <<Fragment>> \o u
    BY <1>3, <2>1
  <2> HIDE DEF u
  <2>4. /\ <<Fragment>> \in Seq(V) /\ Len(<<Fragment>>) = 1 /\ <<Fragment>>[1] = Fragment
    OBVIOUS
  <2>5. /\ t \in Seq(V) /\ Len(t) = 1 + Len(u)
        /\ \A i \in 1 .. Len(t) : t[i] = IF i <= 1 THEN Fragment ELSE u[i - 1]
    BY <2>2, <2>3, <2>4, ConcatProperties
  <2>6. ASSUME NEW i \in 1 .. Len(t)
        PROVE  /\ n + i \in 1 .. Len(s)
               /\ t[i] = s[n + i] \/ (i = 1 /\ t[i] = Fragment)
    <3>1. CASE i = 1
      BY <2>1, <2>2, <2>5, <3>1
    <3>2. CASE i # 1
      <4>1. i - 1 \in 1 .. Len(u) /\ n + 1 + (i - 1) = n + i
        BY <2>2, <2>5, <3>2
      <4>2. u[i - 1] = s[n + i] /\ n + i \in 1 .. Len(s)
        BY <2>2, <4>1
      <4>3. QED
        BY <2>5, <3>2, <4>2
    <3>3. QED
      BY <3>1, <3>2
  <2>7. Len(t) = Len(s) - n
    BY <2>2, <2>5
  <2>8. QED
    BY <2>2, <2>5, <2>6, <2>7
<1>4. QED
  BY <1>1, <1>2, <1>3

\* Read-ahead adds no header and duplicates none.
LEMMA OccursReadAhead ==
    ASSUME NEW V, NEW s \in Seq(V), NEW k, NEW t \in ReadAhead(s, k), Fragment \in V,
           NEW n
    PROVE  /\ t \in Seq(V)
           /\ Occurs(t, n) => Occurs(s, n)
           /\ Once(s, n) => Once(t, n)
<1>1. PICK d \in 0 .. Len(s) :
        /\ Len(t) = Len(s) - d
        /\ \A i \in 1 .. Len(t) :
             /\ d + i \in 1 .. Len(s)
             /\ t[i] = s[d + i] \/ (i = 1 /\ t[i] = Fragment)
  BY ReadAheadElements
<1>2. t \in Seq(V) /\ Len(s) \in Nat
  BY ReadAheadElements
<1>3. \A i \in 1 .. Len(t) :
        IsHeader(t[i], n) => d + i \in 1 .. Len(s) /\ IsHeader(s[d + i], n)
  BY <1>1 DEF IsHeader, Fragment
<1>4. Occurs(t, n) => Occurs(s, n)
  BY <1>3 DEF Occurs
<1>5. ASSUME Once(s, n) PROVE Once(t, n)
  <2> SUFFICES ASSUME NEW i \in 1 .. Len(t), NEW j \in 1 .. Len(t),
                      IsHeader(t[i], n), IsHeader(t[j], n)
               PROVE  i = j
    BY DEF Once
  <2>1. d + i = d + j
    BY <1>3, <1>5 DEF Once
  <2>2. QED
    BY <1>1, <1>2, <2>1
<1>6. QED
  BY <1>2, <1>4, <1>5

\* Reading the first value.
LEMMA OccursTail ==
    ASSUME NEW V, NEW s \in Seq(V), s # << >>, NEW n
    PROVE  /\ Head(s) \in V /\ Tail(s) \in Seq(V)
           /\ Occurs(Tail(s), n) => Occurs(s, n)
           /\ IsHeader(Head(s), n) => Occurs(s, n)
           /\ Once(s, n) => Once(Tail(s), n)
           /\ Once(s, n) /\ IsHeader(Head(s), n) => ~Occurs(Tail(s), n)
<1>1. /\ Len(s) \in Nat \ {0}
      /\ Head(s) \in V /\ Head(s) = s[1]
      /\ Tail(s) \in Seq(V) /\ Len(Tail(s)) = Len(s) - 1
      /\ \A i \in 1 .. Len(Tail(s)) : Tail(s)[i] = s[i + 1]
  BY EmptySeq, HeadTailProperties
<1>2. /\ Occurs(Tail(s), n) => Occurs(s, n)
      /\ Once(s, n) => Once(Tail(s), n)
  <2>1. Tail(s) = SubSeq(s, 1 + 1, Len(s)) /\ 1 \in 0 .. Len(s)
    BY <1>1, TailIsSubSeq
  <2>2. /\ Occurs(SubSeq(s, 1 + 1, Len(s)), n) => Occurs(s, n)
        /\ Once(s, n) => Once(SubSeq(s, 1 + 1, Len(s)), n)
    BY <2>1, OccursSuffix
  <2>3. QED
    BY <2>1, <2>2
<1>3. IsHeader(Head(s), n) => Occurs(s, n)
  BY <1>1 DEF Occurs
<1>4. Once(s, n) /\ IsHeader(Head(s), n) => ~Occurs(Tail(s), n)
  BY <1>1 DEF Once, Occurs
<1>5. QED
  BY <1>1, <1>2, <1>3, <1>4
=============================================================================
