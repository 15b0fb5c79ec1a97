--------------------------- MODULE SequenceLemmas ---------------------------
(***************************************************************************)
(* Facts about numbers, recursive functions and sequences that the proofs  *)
(* of several components need.  Induction is stated for sets of numbers:   *)
(* what is to be shown is put as the set of numbers for which it holds.    *)
(***************************************************************************)
EXTENDS Integers, SequencesExt, WellFoundedInduction, FiniteSetTheorems,
        SequenceTheorems, TLAPS

(* Every non-empty set of natural numbers has a least element.             *)
LEMMA LeastElement ==
  ASSUME NEW T, T \subseteq Nat, T # {}
  PROVE  \E m \in T : \A k \in T : m <= k
<1>1. PICK m \in T : \A k \in T : ~(<<k, m>> \in OpToRel(<, Nat))
  BY NatLessThanWellFounded, WFMin, Zenon
<1>2. \A k \in T : ~(k < m)
  BY <1>1 DEF OpToRel
<1> QED
  BY <1>2

(* Induction.                                                              *)
LEMMA Induction ==
  ASSUME NEW H, 0 \in H, \A n \in Nat : n \in H => n + 1 \in H
  PROVE  \A n \in Nat : n \in H
<1> SUFFICES ASSUME Nat \ H # {} PROVE FALSE
  OBVIOUS
<1>1. PICK m \in Nat \ H : \A k \in Nat \ H : m <= k
  BY LeastElement
<1>2. m # 0 /\ m - 1 \in Nat /\ m - 1 \in H
  BY <1>1
<1> QED
  BY <1>1, <1>2

(* The function that begins with base and takes a step at each number, up  *)
(* to n.                                                                   *)
Steps(T, base, step, n) ==
  {g \in [0..n -> T] :
     g[0] = base /\ \A k \in 1..n : g[k] = step[k][g[k - 1]]}

(* It exists.                                                              *)
LEMMA StepsExist ==
  ASSUME NEW T, NEW base \in T, NEW n \in Nat, NEW step \in [1..n -> [T -> T]]
  PROVE  Steps(T, base, step, n) # {}
<1> DEFINE H == {m \in Nat : m <= n => Steps(T, base, step, m) # {}}
<1>1. 0 \in H
  <2>1. [k \in 0..0 |-> base] \in Steps(T, base, step, 0)
    BY DEF Steps
  <2> QED
    BY <2>1
<1>2. ASSUME NEW m \in Nat, m \in H PROVE m + 1 \in H
  <2> SUFFICES ASSUME m + 1 <= n PROVE Steps(T, base, step, m + 1) # {}
    OBVIOUS
  <2>1. PICK g \in Steps(T, base, step, m) : TRUE
    BY <1>2
  <2> DEFINE h == [k \in 0..(m + 1) |->
                     IF k = m + 1 THEN step[m + 1][g[m]] ELSE g[k]]
  <2>2. /\ g \in [0..m -> T] /\ g[0] = base
        /\ \A k \in 1..m : g[k] = step[k][g[k - 1]]
    BY <2>1 DEF Steps
  <2>3. step[m + 1] \in [T -> T] /\ g[m] \in T
    BY <2>2
  <2>4. step[m + 1][g[m]] \in T
    BY <2>3
  <2>5. h \in [0..(m + 1) -> T] /\ h[0] = base
    BY <2>2, <2>4
  <2>6. \A k \in 1..(m + 1) : h[k] = step[k][h[k - 1]]
    BY <2>2
  <2> QED
    BY <2>5, <2>6 DEF Steps
<1> HIDE DEF H
<1>3. n \in H
  BY <1>1, <1>2, Induction
<1> QED
  BY <1>3 DEF H

(* And there is one only.                                                  *)
LEMMA StepsUnique ==
  ASSUME NEW T, NEW base, NEW step, NEW m \in Nat, NEW n \in Nat,
         NEW g \in Steps(T, base, step, m), NEW h \in Steps(T, base, step, n)
  PROVE  \A k \in Nat : k <= m /\ k <= n => g[k] = h[k]
<1> DEFINE H == {k \in Nat : k <= m /\ k <= n => g[k] = h[k]}
<1>1. 0 \in H
  BY DEF Steps
<1>2. ASSUME NEW k \in Nat, k \in H PROVE k + 1 \in H
  BY <1>2 DEF Steps
<1> HIDE DEF H
<1>3. \A k \in Nat : k \in H
  BY <1>1, <1>2, Induction
<1> QED
  BY <1>3 DEF H

(* The same for all numbers.                                               *)
Recursion(T, base, step) ==
  {g \in [Nat -> T] :
     g[0] = base /\ \A k \in Nat \ {0} : g[k] = step[k][g[k - 1]]}

(* Every base and step have one recursive function.                        *)
LEMMA RecursionExists ==
  ASSUME NEW T, NEW base \in T, NEW step \in [Nat -> [T -> T]]
  PROVE  Recursion(T, base, step) # {}
<1> DEFINE S(n) == Steps(T, base, step, n)
           F == [n \in Nat |-> CHOOSE g \in S(n) : TRUE]
<1>1. \A n \in Nat : F[n] \in S(n)
  <2> SUFFICES ASSUME NEW n \in Nat PROVE S(n) # {}
    OBVIOUS
  <2> DEFINE part == [k \in 1..n |-> step[k]]
  <2>1. part \in [1..n -> [T -> T]]
    OBVIOUS
  <2>2. Steps(T, base, part, n) # {}
    BY <2>1, StepsExist
  <2>3. Steps(T, base, part, n) = S(n)
    BY DEF Steps
  <2> QED
    BY <2>2, <2>3
<1> HIDE DEF F
<1> DEFINE f == [n \in Nat |-> F[n][n]]
<1>2. f \in [Nat -> T] /\ f[0] = base
  BY <1>1 DEF Steps
<1>3. ASSUME NEW n \in Nat \ {0} PROVE f[n] = step[n][f[n - 1]]
  <2>1. n - 1 \in Nat /\ F[n] \in S(n) /\ F[n - 1] \in S(n - 1)
    BY <1>1
  <2>2. F[n][n - 1] = F[n - 1][n - 1]
    BY <2>1, StepsUnique
  <2>3. F[n][n] = step[n][F[n][n - 1]]
    BY <2>1 DEF Steps
  <2> QED
    BY <2>1, <2>2, <2>3
<1>4. f \in Recursion(T, base, step)
  BY <1>2, <1>3 DEF Recursion
<1> QED
  BY <1>4
-----------------------------------------------------------------------------
(* The least element of a set of numbers.                                  *)
LEMMA MinIsLeast ==
  ASSUME NEW T, T \subseteq Nat, T # {}
  PROVE  Min(T) \in T /\ \A k \in T : Min(T) <= k
BY LeastElement DEF Min

(* The greatest element of a set of numbers that are not above n.          *)
LEMMA MaxIsGreatest ==
  ASSUME NEW n \in Nat, NEW T, T \subseteq 0..n, T # {}
  PROVE  Max(T) \in T /\ \A k \in T : k <= Max(T)
<1> DEFINE D == {n - k : k \in T}
<1>1. D \subseteq Nat /\ D # {}
  <2>1. ASSUME NEW k \in T PROVE n - k \in Nat /\ n - k \in D
    OBVIOUS
  <2> QED
    BY <2>1
<1>2. PICK d \in D : \A k \in D : d <= k
  BY <1>1, LeastElement
<1>3. n - d \in T /\ \A k \in T : k <= n - d
  BY <1>2
<1> QED
  BY <1>3 DEF Max

(* What is left when an element is taken out of a sequence.                *)
LEMMA RemoveAtProperties ==
  ASSUME NEW S, NEW s \in Seq(S), NEW d \in 1..Len(s)
  PROVE  /\ RemoveAt(s, d) \in Seq(S)
         /\ Len(RemoveAt(s, d)) = Len(s) - 1
         /\ \A k \in 1..(Len(s) - 1) :
              RemoveAt(s, d)[k] = IF k < d THEN s[k] ELSE s[k + 1]
<1> DEFINE a == SubSeq(s, 1, d - 1)
           b == SubSeq(s, d + 1, Len(s))
<1>1. /\ a \in Seq(S) /\ Len(a) = d - 1
      /\ \A k \in 1..(d - 1) : a[k] = s[k]
  BY SubSeqProperties
<1>2. /\ b \in Seq(S) /\ Len(b) = Len(s) - d
      /\ \A k \in 1..(Len(s) - d) : b[k] = s[k + d]
  <2>1. \A k \in (d + 1)..Len(s) : s[k] \in S
    OBVIOUS
  <2> QED
    BY <2>1
<1> HIDE DEF a, b
<1>3. RemoveAt(s, d) = a \o b
  BY DEF RemoveAt, a, b
<1>4. /\ a \o b \in Seq(S) /\ Len(a \o b) = Len(a) + Len(b)
      /\ \A k \in 1..(Len(a) + Len(b)) :
           (a \o b)[k] = IF k <= Len(a) THEN a[k] ELSE b[k - Len(a)]
  BY <1>1, <1>2, ConcatProperties
<1> QED
  BY <1>1, <1>2, <1>3, <1>4

-----------------------------------------------------------------------------
(* Sequences that are put together from several, one after the other, by   *)
(* the function in FlattenSeq.                                             *)
LEMMA FlattenSteps ==
  ASSUME NEW S, NEW ss \in Seq(Seq(S))
  PROVE  \E g \in [0..Len(ss) -> Seq(S)] :
           /\ g[0] = <<>>
           /\ \A k \in 1..Len(ss) : g[k] = g[k - 1] \o ss[k]
           /\ FlattenSeq(ss) = g[Len(ss)]
<1> DEFINE T == Seq(S)
           n == Len(ss)
           step == [k \in 1..n |-> [t \in T |-> t \o ss[k]]]
<1>1. n \in Nat /\ <<>> \in T /\ \A k \in 1..n : ss[k] \in T
  OBVIOUS
<1>2. step \in [1..n -> [T -> T]]
  BY <1>1
<1> HIDE DEF step, T, n
<1>3. PICK g \in Steps(T, <<>>, step, n) : TRUE
  BY <1>1, <1>2, StepsExist
<1>4. /\ g \in [0..n -> T] /\ g[0] = <<>>
      /\ \A k \in 1..n : g[k] = g[k - 1] \o ss[k]
  <2>1. g \in [0..n -> T] /\ g[0] = <<>>
    BY DEF Steps
  <2>2. ASSUME NEW k \in 1..n PROVE g[k] = g[k - 1] \o ss[k]
    <3>1. g[k] = step[k][g[k - 1]] /\ g[k - 1] \in T
      BY <1>1, <2>1 DEF Steps
    <3> QED
      BY <3>1 DEF step
  <2> QED
    BY <2>1, <2>2
<1>5. CASE n = 0
  <2>1. ss = <<>>
    BY <1>5 DEF n
  <2> QED
    BY <1>4, <1>5, <2>1 DEF FlattenSeq, n, T
<1>6. CASE n # 0
  <2> DEFINE f == [k \in 1..n |-> g[k]]
             Fits(h) == h = [k \in 1..n |-> IF k = 1 THEN ss[k]
                                            ELSE h[k - 1] \o ss[k]]
             flatten == CHOOSE h : Fits(h)
  <2>1. g[1] = ss[1]
    <3>1. 1 \in 1..n
      BY <1>1, <1>6
    <3>2. ss[1] \in Seq(S)
      BY <1>1, <3>1 DEF T
    <3>3. g[1] = g[1 - 1] \o ss[1]
      BY <1>4, <3>1
    <3>4. g[1 - 1] = <<>>
      BY <1>4
    <3> QED
      BY <3>2, <3>3, <3>4, ConcatEmptySeq
  <2>2. Fits(f)
    <3>1. ASSUME NEW k \in 1..n
          PROVE  f[k] = IF k = 1 THEN ss[k] ELSE f[k - 1] \o ss[k]
      <4>1. CASE k = 1
        BY <2>1, <4>1
      <4>2. CASE k # 1
        <5>1. k - 1 \in 1..n
          BY <1>1, <4>2
        <5>2. f[k] = g[k] /\ f[k - 1] = g[k - 1]
          BY <5>1
        <5> HIDE DEF f
        <5> QED
          BY <1>4, <4>2, <5>2
      <4> QED
        BY <4>1, <4>2
    <3> QED
      BY <3>1
  <2>3. Fits(flatten)
    BY <2>2
  <2>4. FlattenSeq(ss) = flatten[n]
    BY <1>6 DEF FlattenSeq, n
  <2> HIDE DEF flatten
  <2> DEFINE H == {k \in Nat : k \in 1..n => flatten[k] = g[k]}
  <2>5. 0 \in H
    OBVIOUS
  <2>6. ASSUME NEW k \in Nat, k \in H PROVE k + 1 \in H
    <3> SUFFICES ASSUME k + 1 \in 1..n PROVE flatten[k + 1] = g[k + 1]
      OBVIOUS
    <3> DEFINE e(h) == [j \in 1..n |-> IF j = 1 THEN ss[j]
                                       ELSE h[j - 1] \o ss[j]]
    <3>1. flatten = e(flatten)
      BY <2>3
    <3>2. e(flatten)[k + 1] = IF k + 1 = 1 THEN ss[k + 1]
                              ELSE flatten[(k + 1) - 1] \o ss[k + 1]
      OBVIOUS
    <3> HIDE DEF e
    <3>3. g[k + 1] = g[(k + 1) - 1] \o ss[k + 1]
      BY <1>4
    <3>4. (k + 1) - 1 = k
      OBVIOUS
    <3>5. CASE k = 0
      <4>1. flatten[k + 1] = e(flatten)[k + 1]
        BY <3>1
      <4>2. k + 1 = 1 /\ flatten[k + 1] = ss[1]
        BY <3>2, <3>5, <4>1
      <4> QED
        BY <2>1, <4>2
    <3>6. CASE k # 0
      <4>1. flatten[k] = g[k]
        BY <1>1, <2>6, <3>6
      <4>2. flatten[k + 1] = e(flatten)[k + 1]
        BY <3>1
      <4>3. flatten[k + 1] = flatten[k] \o ss[k + 1]
        <5>1. k + 1 # 1
          BY <3>6
        <5> QED
          BY <3>2, <3>4, <4>2, <5>1
      <4> QED
        BY <3>3, <3>4, <4>1, <4>3
    <3> QED
      BY <3>5, <3>6
  <2> HIDE DEF H
  <2>7. n \in H
    BY <1>1, <2>5, <2>6, Induction
  <2>8. flatten[n] = g[n]
    BY <1>1, <1>6, <2>7 DEF H
  <2> QED
    BY <1>4, <2>4, <2>8 DEF n, T
<1> QED
  BY <1>5, <1>6

(* What is put together has the elements of the parts.                     *)
LEMMA FlattenType ==
  ASSUME NEW S, NEW ss \in Seq(Seq(S))
  PROVE  FlattenSeq(ss) \in Seq(S)
<1>1. PICK g \in [0..Len(ss) -> Seq(S)] : FlattenSeq(ss) = g[Len(ss)]
  BY FlattenSteps
<1>2. Len(ss) \in 0..Len(ss)
  OBVIOUS
<1> QED
  BY <1>1, <1>2

(* One sequence after another.                                             *)
LEMMA ConcatLookup ==
  ASSUME NEW S, NEW s \in Seq(S), NEW t \in Seq(S)
  PROVE  /\ s \o t \in Seq(S) /\ Len(s \o t) = Len(s) + Len(t)
         /\ Len(s) \in Nat /\ Len(t) \in Nat
         /\ \A k \in 1..Len(s) : (s \o t)[k] = s[k]
         /\ \A k \in 1..Len(t) : (s \o t)[Len(s) + k] = t[k]
<1>1. /\ s \o t \in Seq(S) /\ Len(s \o t) = Len(s) + Len(t)
      /\ \A k \in 1..(Len(s) + Len(t)) :
           (s \o t)[k] = IF k <= Len(s) THEN s[k] ELSE t[k - Len(s)]
  BY ConcatProperties
<1>2. Len(s) \in Nat /\ Len(t) \in Nat
  OBVIOUS
<1> QED
  BY <1>1, <1>2

(* An element that is not of the first sequence is of the second.          *)
LEMMA ConcatSecond ==
  ASSUME NEW S, NEW s \in Seq(S), NEW t \in Seq(S),
         NEW k \in 1..(Len(s) + Len(t)), k \notin 1..Len(s)
  PROVE  k - Len(s) \in 1..Len(t) /\ (s \o t)[k] = t[k - Len(s)]
<1>1. Len(s) \in Nat /\ Len(t) \in Nat
  OBVIOUS
<1>2. k - Len(s) \in 1..Len(t) /\ k = Len(s) + (k - Len(s))
  BY <1>1
<1>3. \A j \in 1..Len(t) : (s \o t)[Len(s) + j] = t[j]
  BY ConcatLookup
<1> QED
  BY <1>2, <1>3

(* A sequence has no more elements than places.                            *)
LEMMA RangeIsFinite ==
  ASSUME NEW S, NEW s \in Seq(S)
  PROVE  /\ Range(s) \subseteq S /\ IsFiniteSet(Range(s))
         /\ Cardinality(Range(s)) \in Nat /\ Cardinality(Range(s)) <= Len(s)
<1>1. Len(s) \in Nat /\ DOMAIN s = 1..Len(s) /\ \A k \in 1..Len(s) : s[k] \in S
  OBVIOUS
<1>2. Range(s) \subseteq S
  BY <1>1 DEF Range
<1>3. s \in Surjection(1..Len(s), Range(s))
  BY <1>1 DEF Surjection, Range
<1>4. IsFiniteSet(1..Len(s)) /\ Cardinality(1..Len(s)) = Len(s)
  <2>1. IsFiniteSet(1..Len(s))
        /\ Cardinality(1..Len(s)) = IF 1 > Len(s) THEN 0 ELSE Len(s) - 1 + 1
    BY <1>1, FS_Interval
  <2> QED
    BY <1>1, <2>1
<1>5. IsFiniteSet(Range(s)) /\ Cardinality(Range(s)) <= Cardinality(1..Len(s))
  BY <1>3, <1>4, FS_Surjection
<1> QED
  BY <1>2, <1>4, <1>5, FS_CardinalityType

(* The form of a sequence, whatever its elements are.                      *)
IsASequence(s) == \E S : s \in Seq(S)

(* Appending to a sequence.                                                *)
LEMMA AppendIsASequence ==
  ASSUME NEW s, IsASequence(s), NEW x
  PROVE  /\ IsASequence(Append(s, x))
         /\ DOMAIN s = 1..Len(s) /\ Len(s) \in Nat
         /\ DOMAIN Append(s, x) = 1..(Len(s) + 1)
         /\ \A k \in 1..Len(s) : Append(s, x)[k] = s[k]
         /\ Append(s, x)[Len(s) + 1] = x
<1>1. PICK S : s \in Seq(S)
  BY DEF IsASequence
<1>2. s \in Seq(S \cup {x})
  BY <1>1
<1>3. Append(s, x) \in Seq(S \cup {x})
  BY <1>2
<1> QED
  BY <1>1, <1>2, <1>3 DEF IsASequence

(* A function on the numbers from 1 on, and two sequences one after the    *)
(* other.                                                                  *)
LEMMA FunctionIsASequence ==
  ASSUME NEW n \in Nat, NEW g, g = [k \in 1..n |-> g[k]]
  PROVE  IsASequence(g) /\ Len(g) = n
<1>1. g \in Seq({g[k] : k \in 1..n}) /\ Len(g) = n
  <2>1. g \in [1..n -> {g[k] : k \in 1..n}]
    OBVIOUS
  <2>2. g \in UNION {[1..m -> {g[k] : k \in 1..n}] : m \in Nat}
    BY <2>1
  <2>3. g \in Seq({g[k] : k \in 1..n})
    BY <2>2, SeqDef
  <2> QED
    BY <2>1, <2>3
<1> QED
  BY <1>1 DEF IsASequence

(* A sequence is a function on the numbers up to its length.               *)
LEMMA SequenceDomain ==
  ASSUME NEW s, IsASequence(s)
  PROVE  DOMAIN s = 1..Len(s) /\ Len(s) \in Nat /\ s = [k \in 1..Len(s) |-> s[k]]
BY DEF IsASequence

(* A function on the positions of a sequence is a sequence.                *)
LEMMA MappedSequence ==
  ASSUME NEW s, IsASequence(s), NEW g, g = [k \in DOMAIN s |-> g[k]]
  PROVE  IsASequence(g) /\ Len(g) = Len(s) /\ DOMAIN g = DOMAIN s
<1>1. DOMAIN s = 1..Len(s) /\ Len(s) \in Nat
  BY SequenceDomain
<1> QED
  BY <1>1, FunctionIsASequence

(* Two sequences one after the other are a sequence of what is in either.  *)
LEMMA ConcatIsASequence ==
  ASSUME NEW s, IsASequence(s), NEW t, IsASequence(t)
  PROVE  IsASequence(s \o t) /\ ToSet(s \o t) = ToSet(s) \cup ToSet(t)
<1>1. PICK S : s \in Seq(S)
  BY DEF IsASequence
<1>2. PICK T : t \in Seq(T)
  BY DEF IsASequence
<1>3. s \in Seq(S \cup T) /\ t \in Seq(S \cup T)
  BY <1>1, <1>2
<1> DEFINE a == Len(s)
           b == Len(t)
           c == s \o t
<1>4. /\ c \in Seq(S \cup T) /\ Len(c) = a + b /\ a \in Nat /\ b \in Nat
      /\ \A k \in 1..a : c[k] = s[k]
      /\ \A k \in 1..b : c[a + k] = t[k]
  BY <1>3, ConcatLookup
<1>5. DOMAIN c = 1..(a + b) /\ DOMAIN s = 1..a /\ DOMAIN t = 1..b
  BY <1>3, <1>4
<1> HIDE DEF a, b, c
<1>6. ToSet(c) \subseteq ToSet(s) \cup ToSet(t)
  <2>1. ASSUME NEW k \in 1..(a + b), k \notin 1..a PROVE c[k] \in ToSet(t)
    <3>1. k - a \in 1..b /\ a + (k - a) = k
      BY <1>4, <2>1
    <3>2. c[k] = t[k - a]
      BY <1>4, <3>1
    <3> QED
      BY <1>5, <3>1, <3>2 DEF ToSet
  <2> QED
    BY <1>4, <1>5, <2>1 DEF ToSet
<1>7. ToSet(s) \cup ToSet(t) \subseteq ToSet(c)
  <2>1. ASSUME NEW k \in 1..b PROVE a + k \in 1..(a + b)
    BY <1>4
  <2>2. 1..a \subseteq 1..(a + b)
    BY <1>4
  <2> QED
    BY <1>4, <1>5, <2>1, <2>2 DEF ToSet
<1> QED
  BY <1>4, <1>6, <1>7 DEF c, IsASequence

(* Sequences of anything are sequences over one set.                       *)
LEMMA FlattenForm ==
  ASSUME NEW ss, IsASequence(ss), \A k \in DOMAIN ss : IsASequence(ss[k])
  PROVE  \E S : ss \in Seq(Seq(S))
<1> DEFINE S == UNION {ToSet(ss[k]) : k \in DOMAIN ss}
<1>1. ASSUME NEW k \in DOMAIN ss PROVE ss[k] \in Seq(S)
  <2>1. /\ DOMAIN ss[k] = 1..Len(ss[k]) /\ Len(ss[k]) \in Nat
        /\ ss[k] = [j \in 1..Len(ss[k]) |-> ss[k][j]]
    BY <1>1, SequenceDomain
  <2>2. \A j \in 1..Len(ss[k]) : ss[k][j] \in S
    BY <1>1, <2>1 DEF ToSet
  <2>3. ss[k] \in [1..Len(ss[k]) -> S]
    BY <2>1, <2>2
  <2> HIDE DEF S
  <2>4. ss[k] \in UNION {[1..m -> S] : m \in Nat}
    BY <2>1, <2>3
  <2> QED
    BY <2>4, SeqDef
<1> HIDE DEF S
<1>2. DOMAIN ss = 1..Len(ss) /\ Len(ss) \in Nat /\ ss = [k \in 1..Len(ss) |-> ss[k]]
  BY SequenceDomain
<1>3. ss \in [1..Len(ss) -> Seq(S)]
  BY <1>1, <1>2
<1>4. ss \in UNION {[1..m -> Seq(S)] : m \in Nat}
  BY <1>2, <1>3
<1>5. ss \in Seq(Seq(S))
  BY <1>4, SeqDef
<1> QED
  BY <1>5

(* Flattening sequences of anything.                                       *)
LEMMA FlattenIsASequence ==
  ASSUME NEW ss, IsASequence(ss), \A k \in DOMAIN ss : IsASequence(ss[k])
  PROVE  IsASequence(FlattenSeq(ss))
BY FlattenForm, FlattenType DEF IsASequence

(* It has what is in one of them.                                          *)
LEMMA FlattenContent ==
  ASSUME NEW ss, IsASequence(ss), \A k \in DOMAIN ss : IsASequence(ss[k])
  PROVE  ToSet(FlattenSeq(ss)) = UNION {ToSet(ss[k]) : k \in DOMAIN ss}
<1>1. PICK S : ss \in Seq(Seq(S))
  BY FlattenForm
<1> DEFINE n == Len(ss)
<1>2. /\ n \in Nat /\ DOMAIN ss = 1..n /\ \A k \in 1..n : ss[k] \in Seq(S)
  BY <1>1
<1>3. PICK g \in [0..n -> Seq(S)] :
        /\ g[0] = <<>>
        /\ \A k \in 1..n : g[k] = g[k - 1] \o ss[k]
        /\ FlattenSeq(ss) = g[n]
  BY <1>1, FlattenSteps
<1> HIDE DEF n
<1> DEFINE H == {k \in Nat : k <= n => ToSet(g[k]) = UNION {ToSet(ss[j]) : j \in 1..k}}
<1>4. 0 \in H
  <2>1. ToSet(g[0]) = {}
    BY <1>3 DEF ToSet
  <2>2. 1..0 = {}
    OBVIOUS
  <2> QED
    BY <2>1, <2>2
<1>5. ASSUME NEW k \in Nat, k \in H PROVE k + 1 \in H
  <2> SUFFICES ASSUME k + 1 <= n
               PROVE  ToSet(g[k + 1]) = UNION {ToSet(ss[j]) : j \in 1..(k + 1)}
    OBVIOUS
  <2>1. k \in 0..n /\ k + 1 \in 1..n /\ k + 1 - 1 = k /\ k <= n
    BY <1>2
  <2>2. g[k] \in Seq(S) /\ ss[k + 1] \in Seq(S) /\ g[k + 1] = g[k] \o ss[k + 1]
    <3>1. PICK m \in 1..n : m = k + 1 /\ m - 1 = k
      BY <2>1
    <3>2. g[m] = g[m - 1] \o ss[m]
      BY <1>3
    <3> QED
      BY <1>2, <1>3, <2>1, <3>1, <3>2
  <2>3. ToSet(g[k + 1]) = ToSet(g[k]) \cup ToSet(ss[k + 1])
    BY <2>2, ConcatIsASequence DEF IsASequence
  <2>4. ToSet(g[k]) = UNION {ToSet(ss[j]) : j \in 1..k}
    BY <1>5, <2>1
  <2>5. 1..(k + 1) = 1..k \cup {k + 1}
    OBVIOUS
  <2> QED
    BY <2>3, <2>4, <2>5
<1> HIDE DEF H
<1>6. n \in H
  BY <1>2, <1>4, <1>5, Induction
<1> QED
  BY <1>2, <1>3, <1>6 DEF H
=============================================================================
