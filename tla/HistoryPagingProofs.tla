------------------------- MODULE HistoryPagingProofs -------------------------
(***************************************************************************)
(* Proofs about HistoryPaging, for every variable, every clock, every      *)
(* interleaving of the historizing with the pages of a read.               *)
(*                                                                         *)
(* The offset of the continuation point is the number of values returned.  *)
(* The invariant says what that number stands for while the answer to the  *)
(* query grows: every point of the first answer that is among the first so *)
(* many records of the present one has been returned.  It holds because a  *)
(* new point only ever pushes others back.                                 *)
(***************************************************************************)
EXTENDS HistoryPaging, SequenceLemmas

(* What points are, whatever the variable.                                 *)
AllPoints == [series : Int, time : Int]

(* Points are in one order only, in the direction of the read.             *)
LEMMA AheadIsOrder ==
  ASSUME NEW r, NEW o \in AllPoints, NEW p \in AllPoints, NEW x \in AllPoints
  PROVE  /\ ~Ahead(p, p, r)
         /\ Ahead(o, p, r) /\ Ahead(p, x, r) => Ahead(o, x, r)
         /\ o # p => Ahead(o, p, r) \/ Ahead(p, o, r)
<1>1. ~Before(p, p)
  BY DEF AllPoints, Before
<1>2. /\ Before(o, p) /\ Before(p, x) => Before(o, x)
      /\ Before(x, p) /\ Before(p, o) => Before(x, o)
  BY DEF AllPoints, Before
<1>3. ASSUME o # p PROVE Before(o, p) \/ Before(p, o)
  <2>1. o.series # p.series \/ o.time # p.time
    BY <1>3 DEF AllPoints
  <2> QED
    BY <2>1 DEF AllPoints, Before
<1> QED
  BY <1>1, <1>2, <1>3 DEF Ahead

(* The place of a point is among the places of the answer.                 *)
LEMMA PlaceRange ==
  ASSUME NEW r, NEW S, S \subseteq AllPoints, IsFiniteSet(S), NEW p \in S
  PROVE  Cardinality(S) \in Nat /\ Place(p, S, r) \in 1..Cardinality(S)
<1> DEFINE A == {o \in S : Ahead(o, p, r)}
<1>1. A \subseteq S \ {p}
  BY AheadIsOrder
<1>2. /\ IsFiniteSet(S \ {p}) /\ Cardinality(S \ {p}) = Cardinality(S) - 1
      /\ Cardinality(S) \in Nat /\ Cardinality(S \ {p}) \in Nat
  BY FS_RemoveElement, FS_CardinalityType
<1>3. Cardinality(A) \in Nat /\ Cardinality(A) <= Cardinality(S) - 1
  <2> HIDE DEF A
  <2>1. IsFiniteSet(A) /\ Cardinality(A) <= Cardinality(S \ {p})
    BY <1>1, <1>2, FS_Subset
  <2> QED
    BY <1>2, <2>1, FS_CardinalityType
<1>4. Place(p, S, r) = 1 + Cardinality(A)
  BY DEF Place
<1> HIDE DEF A
<1> QED
  BY <1>2, <1>3, <1>4

(* A point that is ahead has a smaller place.                              *)
LEMMA PlaceMonotone ==
  ASSUME NEW r, NEW S, S \subseteq AllPoints, IsFiniteSet(S),
         NEW o \in S, NEW p \in S, Ahead(o, p, r)
  PROVE  Place(o, S, r) < Place(p, S, r)
<1> DEFINE A == {x \in S : Ahead(x, o, r)}
           B == {x \in S : Ahead(x, p, r)}
<1>1. A \subseteq B \ {o} /\ o \in B
  BY AheadIsOrder
<1>2. IsFiniteSet(B)
  <2>1. B \in SUBSET S
    OBVIOUS
  <2> HIDE DEF B
  <2> QED
    BY <2>1, FS_Subset
<1>3. Place(o, S, r) = 1 + Cardinality(A) /\ Place(p, S, r) = 1 + Cardinality(B)
  BY DEF Place
<1> HIDE DEF A, B
<1>4. /\ IsFiniteSet(B \ {o}) /\ Cardinality(B \ {o}) = Cardinality(B) - 1
      /\ Cardinality(B) \in Nat
  BY <1>1, <1>2, FS_RemoveElement, FS_CardinalityType
<1>5. /\ IsFiniteSet(A) /\ Cardinality(A) <= Cardinality(B \ {o})
      /\ Cardinality(A) \in Nat
  <2>1. IsFiniteSet(A) /\ Cardinality(A) <= Cardinality(B \ {o})
    BY <1>1, <1>4, FS_Subset
  <2> QED
    BY <2>1, FS_CardinalityType
<1> QED
  BY <1>3, <1>4, <1>5

(* The records of an answer: every point is there, at its place.           *)
LEMMA InOrderProperties ==
  ASSUME NEW r, NEW S, S \subseteq AllPoints, IsFiniteSet(S)
  PROVE  /\ Cardinality(S) \in Nat
         /\ InOrder(S, r) \in Seq(S) /\ Len(InOrder(S, r)) = Cardinality(S)
         /\ \A k \in 1..Cardinality(S) :
              InOrder(S, r)[k] \in S /\ Place(InOrder(S, r)[k], S, r) = k
         /\ \A p \in S : /\ Place(p, S, r) \in 1..Cardinality(S)
                         /\ InOrder(S, r)[Place(p, S, r)] = p
<1> DEFINE n == Cardinality(S)
           place == [p \in S |-> Place(p, S, r)]
<1>1. n \in Nat /\ IsFiniteSet(1..n) /\ Cardinality(1..n) = n
  BY FS_CardinalityType, FS_Interval
<1>2. \A p \in S : Place(p, S, r) \in 1..n
  BY PlaceRange
<1>3. ASSUME NEW o \in S, NEW p \in S, Place(o, S, r) = Place(p, S, r)
      PROVE  o = p
  <2>1. Place(o, S, r) \in Nat /\ Place(p, S, r) \in Nat
    BY <1>1, <1>2
  <2>2. ~Ahead(o, p, r) /\ ~Ahead(p, o, r)
    BY <1>3, <2>1, PlaceMonotone
  <2> QED
    BY <2>2, AheadIsOrder
<1> HIDE DEF n
<1>4. place \in Injection(S, 1..n)
  BY <1>2, <1>3 DEF Injection, IsInjective
<1>5. place \in Surjection(S, 1..n)
  <2> HIDE DEF place
  <2> QED
    BY <1>1, <1>4, FS_Injection DEF n
<1>6. \A k \in 1..n : \E p \in S : Place(p, S, r) = k
  BY <1>5 DEF Surjection
<1> DEFINE s == [k \in 1..n |-> CHOOSE p \in S : Place(p, S, r) = k]
<1>7. \A k \in 1..n : s[k] \in S /\ Place(s[k], S, r) = k
  BY <1>6
<1>8. s \in Seq(S) /\ Len(s) = n
  BY <1>1, <1>7
<1>9. InOrder(S, r) = s
  BY DEF InOrder, n
<1> HIDE DEF s
<1>10. \A p \in S : s[Place(p, S, r)] = p
  BY <1>2, <1>3, <1>7
<1> QED
  BY <1>1, <1>2, <1>7, <1>8, <1>9, <1>10 DEF n

(* Points that come into an answer push others back, never forward ...     *)
LEMMA PlacesGrow ==
  ASSUME NEW r, NEW S, NEW T, IsFiniteSet(T), S \subseteq T, NEW p
  PROVE  /\ Place(p, S, r) \in Nat /\ Place(p, T, r) \in Nat
         /\ Place(p, S, r) <= Place(p, T, r)
<1> DEFINE A == {o \in S : Ahead(o, p, r)}
           B == {o \in T : Ahead(o, p, r)}
<1>1. A \subseteq B /\ B \subseteq T
  OBVIOUS
<1>2. Place(p, S, r) = 1 + Cardinality(A) /\ Place(p, T, r) = 1 + Cardinality(B)
  BY DEF Place
<1> HIDE DEF A, B
<1>3. IsFiniteSet(B)
  BY <1>1, FS_Subset
<1>4. IsFiniteSet(A) /\ Cardinality(A) <= Cardinality(B)
  BY <1>1, <1>3, FS_Subset
<1>5. Cardinality(A) \in Nat /\ Cardinality(B) \in Nat
  BY <1>3, <1>4, FS_CardinalityType
<1> QED
  BY <1>2, <1>4, <1>5

(* ... and when they all come at the end the answer goes on as it was.     *)
LEMMA AnswerGoesOn ==
  ASSUME NEW r, NEW S, NEW T, T \subseteq AllPoints, IsFiniteSet(T),
         S \subseteq T, \A o \in T \ S : \A p \in S : Ahead(p, o, r)
  PROVE  \A k \in 1..Cardinality(S) : InOrder(T, r)[k] = InOrder(S, r)[k]
<1>1. IsFiniteSet(S) /\ Cardinality(S) <= Cardinality(T)
  BY FS_Subset
<1>2. Cardinality(S) \in Nat /\ Cardinality(T) \in Nat
  BY <1>1, FS_CardinalityType
<1>3. ASSUME NEW p \in S PROVE Place(p, T, r) = Place(p, S, r)
  <2>1. \A o \in T \ S : ~Ahead(o, p, r)
    <3> SUFFICES ASSUME NEW o \in T \ S, Ahead(o, p, r) PROVE FALSE
      OBVIOUS
    <3>1. Ahead(p, p, r)
      <4>1. Ahead(p, o, r) /\ o \in AllPoints /\ p \in AllPoints
        OBVIOUS
      <4> QED
        BY <4>1, AheadIsOrder
    <3> QED
      BY <3>1, AheadIsOrder
  <2>2. {o \in T : Ahead(o, p, r)} = {o \in S : Ahead(o, p, r)}
    BY <2>1
  <2> QED
    BY <2>2 DEF Place
<1> SUFFICES ASSUME NEW k \in 1..Cardinality(S)
             PROVE  InOrder(T, r)[k] = InOrder(S, r)[k]
  OBVIOUS
<1> DEFINE p == InOrder(S, r)[k]
<1>4. p \in S /\ Place(p, S, r) = k
  BY <1>1, InOrderProperties
<1> HIDE DEF p
<1>5. p \in T /\ Place(p, T, r) = k
  BY <1>3, <1>4
<1>6. InOrder(T, r)[Place(p, T, r)] = p
  BY <1>5, InOrderProperties
<1> QED
  BY <1>5, <1>6 DEF p

Points == [series : Series, time : Nat]

LEMMA PointsAreAllPoints == Points \subseteq AllPoints
<1>1. \A x \in Series : x \in Int
  BY PagingAssumption DEF PagingAssumption
<1> QED
  BY <1>1 DEF Points, AllPoints

(* What the query of the read finds now.                                   *)
Found == InRange(db, QueryRange(request, now))

TypeOK ==
  /\ series \in Series /\ now \in Nat /\ sourceTime \in Nat
  /\ queue \in Seq(Points) /\ db \subseteq Points /\ IsFiniteSet(db)
  /\ request \in [start : Bounds, end : Bounds, numValuesPerNode : Limits \cup {0}]
  /\ skip \in Nat /\ pages \in {"none", "more", "all"}
  /\ got \in Seq(Points) /\ late \in BOOLEAN

(* As many records as were returned are passed over, and what was there    *)
(* from the beginning is among those returned if it is passed over now.    *)
PassedIsReturned ==
  \A p \in first :
    Place(p, Found, request) <= Len(got) =>
      \E k \in 1..Len(got) : got[k] = p

Reading ==
  /\ pages = "none" => got = <<>> /\ first = {} /\ skip = 0
  /\ pages # "none" => /\ first \subseteq Found /\ PassedIsReturned
                       /\ Len(got) <= Cardinality(Found)
  /\ pages = "more" => skip = Len(got)
  /\ pages = "all" => Len(got) = Cardinality(Found)

(* What waits in the queue is of the present series.                       *)
QueueIsOwn == \A k \in 1..Len(queue) : queue[k].series = series

(* As long as no point is late, the points come in the order of their      *)
(* times into the queue and from there into the database.                  *)
InOrderOfTime ==
  ~late =>
    /\ \A j, k \in 1..Len(queue) : j < k => queue[j].time <= queue[k].time
    /\ \A p \in db : \A k \in 1..Len(queue) : p.time <= queue[k].time

Exact ==
  OneSeries /\ ~late /\ ~ReverseOrder(request) =>
    \A k \in 1..Len(got) : got[k] = InOrder(Found, request)[k]

IInv == TypeOK /\ Reading /\ QueueIsOwn /\ InOrderOfTime /\ Exact

(* A request's interval begins where it began and never ends earlier.      *)
LEMMA QueryRangeGrows ==
  ASSUME PagingAssumption, NEW t \in Nat, NEW u \in Nat, t <= u,
         NEW r \in [start : Bounds, end : Bounds, numValuesPerNode : Nat]
  PROVE  /\ QueryRange(r, t).from \in Nat /\ QueryRange(r, t).upto \in Nat
         /\ QueryRange(r, u).from = QueryRange(r, t).from
         /\ QueryRange(r, t).upto <= QueryRange(r, u).upto
<1> DEFINE from == IF r.start = Open THEN 0
                   ELSE IF ReverseOrder(r) THEN r.end ELSE r.start
           upto(w) == IF r.end = Open THEN w
                      ELSE IF ReverseOrder(r) THEN r.start ELSE r.end
           later(w) == Max({from + 1, w})
<1>1. r.start \in Int /\ r.end \in Int /\ (r.start # Open => r.start \in Nat)
      /\ (r.end # Open => r.end \in Nat)
  <2>1. r.start \in RequestTimes \cup {Open} /\ r.end \in RequestTimes \cup {Open}
    BY DEF Bounds
  <2>2. RequestTimes \subseteq Nat
    BY DEF PagingAssumption
  <2>3. r.start \in RequestTimes \/ r.start = -1
    BY <2>1 DEF Open
  <2>4. r.end \in RequestTimes \/ r.end = -1
    BY <2>1 DEF Open
  <2>5. ASSUME NEW b, b \in RequestTimes \/ b = -1
        PROVE  b \in Int /\ (b # -1 => b \in Nat)
    <3>1. b \in RequestTimes => b \in Nat
      BY <2>2
    <3>2. b \in Nat => b \in Int
      OBVIOUS
    <3>3. -1 \in Int
      OBVIOUS
    <3> QED
      BY <2>5, <3>1, <3>2, <3>3, Zenon
  <2> QED
    BY <2>3, <2>4, <2>5, Zenon DEF Open
<1>2. from \in Nat
  BY <1>1 DEF ReverseOrder
<1>3. ASSUME NEW w \in Nat
      PROVE  upto(w) \in Nat /\ (r.end # Open => upto(w) = upto(t))
             /\ (r.end = Open => upto(w) = w)
  BY <1>1 DEF ReverseOrder
<1>4. ASSUME NEW w \in Nat
      PROVE  QueryRange(r, w).from = from
             /\ QueryRange(r, w).upto = IF upto(w) <= from THEN later(w) ELSE upto(w)
  BY DEF QueryRange
<1> HIDE DEF from, upto
<1>5. ASSUME NEW w \in Nat
      PROVE  later(w) \in Nat /\ later(w) \in {from + 1, w}
             /\ from + 1 <= later(w) /\ w <= later(w)
  <2> DEFINE n == from + 1 + w
             W == {from + 1, w}
  <2>1. n \in Nat /\ W \subseteq 0..n /\ W # {}
    BY <1>2
  <2> HIDE DEF n, W
  <2>2. Max(W) \in W /\ \A k \in W : k <= Max(W)
    BY <2>1, MaxIsGreatest
  <2> QED
    BY <1>2, <2>2 DEF W
<1> HIDE DEF later
<1> QED
  BY <1>2, <1>3, <1>4, <1>5

(* What the read finds is finite, and grows with the database and in time. *)
LEMMA FoundIsFinite ==
  ASSUME TypeOK
  PROVE  Found \subseteq db /\ Found \subseteq AllPoints /\ IsFiniteSet(Found)
         /\ Cardinality(Found) \in Nat
<1>1. Found \subseteq db
  BY DEF Found, InRange
<1>2. IsFiniteSet(Found)
  BY <1>1, FS_Subset DEF TypeOK
<1>3. db \subseteq AllPoints
  BY PointsAreAllPoints DEF TypeOK
<1> QED
  BY <1>1, <1>2, <1>3, FS_CardinalityType

(* A page never asks for more than is left.                                *)
LEMMA PageSizeRange ==
  ASSUME PagingAssumption, NEW n \in Nat,
         NEW r \in [start : Bounds, end : Bounds, numValuesPerNode : Nat]
  PROVE  PageSize(r, n) \in Nat /\ PageSize(r, n) <= n
<1> DEFINE W == {n} \cup (IF r.numValuesPerNode > 0 THEN {r.numValuesPerNode} ELSE {})
                \cup (IF maxSizePerResponse > 0 THEN {maxSizePerResponse} ELSE {})
<1>1. W \subseteq Nat /\ n \in W
  BY DEF PagingAssumption
<1>2. PageSize(r, n) = Min(W)
  BY DEF PageSize
<1> HIDE DEF W
<1>3. Min(W) \in W /\ \A k \in W : Min(W) <= k
  BY <1>1, MinIsLeast
<1> QED
  BY <1>1, <1>2, <1>3

(* What a page adds (getHistoryDataInflux): the records behind the ones    *)
(* returned so far, and the end of the read only with the last of them.    *)
LEMMA PageReturns ==
  ASSUME PagingAssumption, TypeOK,
         NEW r \in [start : Bounds, end : Bounds, numValuesPerNode : Nat],
         NEW sofar \in Seq(Points),
         NEW F, F = InRange(db, QueryRange(r, now)),
         Len(sofar) <= Cardinality(F),
         Page(r, Len(sofar), sofar)
  PROVE  /\ IsFiniteSet(F) /\ F \subseteq AllPoints /\ Cardinality(F) \in Nat
         /\ got' \in Seq(Points) /\ Len(sofar) \in Nat /\ Len(got') \in Nat
         /\ Len(sofar) <= Len(got') /\ Len(got') <= Cardinality(F)
         /\ pages' \in {"more", "all"}
         /\ pages' = "more" => skip' = Len(got')
         /\ pages' = "all" => skip' = 0 /\ Len(got') = Cardinality(F)
         /\ \A k \in 1..Len(sofar) : got'[k] = sofar[k]
         /\ \A k \in (Len(sofar) + 1)..Len(got') : got'[k] = InOrder(F, r)[k]
<1> DEFINE records == InOrder(F, r)
           offset == Len(sofar)
           limit == PageSize(r, Cardinality(F) - offset)
           page == SubSeq(records, offset + 1, offset + limit)
<1>1. F \subseteq db /\ IsFiniteSet(F) /\ F \subseteq AllPoints /\ F \subseteq Points
  <2>1. F \subseteq db
    BY DEF InRange
  <2>2. IsFiniteSet(F)
    BY <2>1, FS_Subset DEF TypeOK
  <2> QED
    BY <2>1, <2>2, PointsAreAllPoints DEF TypeOK
<1>2. /\ Cardinality(F) \in Nat /\ records \in Seq(F) /\ Len(records) = Cardinality(F)
  BY <1>1, InOrderProperties
<1>3. offset \in Nat /\ \A k \in 1..offset : sofar[k] \in Points
  BY LenProperties
<1>4. limit \in Nat /\ offset + limit <= Cardinality(F)
  <2>1. Cardinality(F) - offset \in Nat
    BY <1>2, <1>3
  <2> QED
    BY <1>2, <1>3, <2>1, PageSizeRange
<1>5. /\ got' = sofar \o page
      /\ IF offset + limit < Cardinality(F)
         THEN pages' = "more" /\ skip' = offset + limit
         ELSE pages' = "all" /\ skip' = 0
  <2>1. Records(db, r, QueryRange(r, now)) = records
    BY DEF Records
  <2> QED
    BY <1>2, <2>1 DEF Page, NextOffset, HasMore
<1>6. page \in Seq(F) /\ Len(page) = limit
      /\ \A k \in 1..limit : page[k] = records[offset + k]
  <2> HIDE DEF records, offset, limit
  <2>1. offset + 1 \in 1..(Len(records) + 1)
        /\ offset + limit \in offset..Len(records)
        /\ (offset + limit) - (offset + 1) + 1 = limit
    BY <1>2, <1>3, <1>4
  <2>2. \A k \in 1..limit : (offset + 1) + k - 1 = offset + k
    BY <1>3, <1>4
  <2> QED
    BY <1>2, <1>3, <1>4, <2>1, <2>2, SubSeqProperties
<1>7. page \in Seq(Points)
  <2> HIDE DEF page
  <2> QED
    BY <1>1, <1>6, SeqMonotonic
<1> HIDE DEF page, limit, records
<1>8. /\ got' \in Seq(Points) /\ Len(got') = offset + limit
      /\ \A k \in 1..offset : got'[k] = sofar[k]
      /\ \A k \in 1..limit : got'[offset + k] = page[k]
  <2>1. got' = sofar \o page /\ Len(page) = limit
    BY <1>5, <1>6
  <2> HIDE DEF offset
  <2>2. /\ sofar \o page \in Seq(Points) /\ Len(sofar \o page) = Len(sofar) + Len(page)
        /\ \A k \in 1..Len(sofar) : (sofar \o page)[k] = sofar[k]
        /\ \A k \in 1..Len(page) : (sofar \o page)[Len(sofar) + k] = page[k]
    BY <1>7, ConcatLookup
  <2> QED
    BY <2>1, <2>2 DEF offset
<1>9. ASSUME NEW k \in (offset + 1)..Len(got') PROVE got'[k] = records[k]
  <2>1. PICK i \in 1..limit : k = offset + i
    <3>1. k - offset \in 1..limit /\ k = offset + (k - offset)
      BY <1>3, <1>4, <1>8
    <3> QED
      BY <3>1
  <2> QED
    BY <1>6, <1>8, <2>1
<1>10. Len(got') \in Nat /\ offset <= Len(got') /\ Len(got') <= Cardinality(F)
  BY <1>3, <1>4, <1>8
<1>11. /\ pages' \in {"more", "all"}
       /\ pages' = "more" => skip' = Len(got')
       /\ pages' = "all" => skip' = 0 /\ Len(got') = Cardinality(F)
  <2>1. CASE offset + limit < Cardinality(F)
    BY <1>5, <1>8, <2>1
  <2>2. CASE ~(offset + limit < Cardinality(F))
    <3>1. offset + limit = Cardinality(F)
      BY <1>2, <1>3, <1>4, <2>2
    <3> QED
      BY <1>5, <1>8, <2>2, <3>1
  <2> QED
    BY <2>1, <2>2
<1> QED
  BY <1>1, <1>2, <1>3, <1>8, <1>9, <1>10, <1>11 DEF records

(* A request asks for a number of values.                                  *)
LEMMA RequestType ==
  ASSUME PagingAssumption, TypeOK
  PROVE  request \in [start : Bounds, end : Bounds, numValuesPerNode : Nat]
<1>1. Limits \cup {0} \subseteq Nat
  BY DEF PagingAssumption
<1>2. request \in [start : Bounds, end : Bounds, numValuesPerNode : Limits \cup {0}]
  BY DEF TypeOK
<1> HIDE DEF Bounds
<1> QED
  BY <1>1, <1>2

(* What comes into the database or into reach while a read is under way    *)
(* leaves the read correct.                                                *)
LEMMA GrowthKeepsReading ==
  ASSUME PagingAssumption, IInv, UNCHANGED <<readVars, series>>,
         db \subseteq db', db' \subseteq Points, IsFiniteSet(db'),
         now' \in Nat, now <= now', pages # "all", late => late',
         OneSeries' /\ ~late' /\ ~ReverseOrder(request) =>
           \A o \in Found' \ Found : \A p \in Found : Ahead(p, o, request)
  PROVE  Reading' /\ Exact'
<1> USE DEF IInv
<1>1. /\ request' = request /\ skip' = skip /\ pages' = pages /\ got' = got
      /\ first' = first /\ series' = series
  BY DEF readVars
<1>2. request \in [start : Bounds, end : Bounds, numValuesPerNode : Nat]
  BY RequestType
<1>3. /\ Found \subseteq AllPoints /\ IsFiniteSet(Found) /\ Cardinality(Found) \in Nat
  BY FoundIsFinite
<1>4. Found \subseteq Found'
  <2> DEFINE q == QueryRange(request, now)
             s == QueryRange(request, now')
  <2>1. /\ q.from \in Nat /\ q.upto \in Nat /\ s.from = q.from /\ q.upto <= s.upto
        /\ s.upto \in Nat
    <3>1. now \in Nat
      BY DEF TypeOK
    <3>2. QueryRange(request, now').upto \in Nat
      BY <1>2, QueryRangeGrows
    <3> QED
      BY <1>2, <3>1, <3>2, QueryRangeGrows
  <2>2. Found = InRange(db, q) /\ Found' = InRange(db', s)
    BY <1>1 DEF Found
  <2>3. \A p \in db : p.time \in Nat
    BY DEF TypeOK, Points
  <2> HIDE DEF q, s
  <2> QED
    BY <2>1, <2>2, <2>3 DEF InRange
<1>5. Found' \subseteq AllPoints /\ IsFiniteSet(Found') /\ Cardinality(Found') \in Nat
      /\ Cardinality(Found) <= Cardinality(Found')
  <2>1. Found' \subseteq db'
    BY DEF Found, InRange
  <2>2. db' \subseteq AllPoints
    BY PointsAreAllPoints
  <2>3. IsFiniteSet(Found')
    BY <2>1, FS_Subset
  <2> QED
    BY <1>4, <2>1, <2>2, <2>3, FS_Subset, FS_CardinalityType
<1>6. Reading'
  <2>1. (pages = "none" => got = <<>> /\ first = {} /\ skip = 0)
        /\ (pages = "more" => skip = Len(got))
    BY DEF Reading
  <2>2. ASSUME pages # "none"
        PROVE  first \subseteq Found' /\ Len(got) <= Cardinality(Found')
    <3>1. first \subseteq Found /\ Len(got) <= Cardinality(Found)
      BY <2>2 DEF Reading
    <3>2. Len(got) \in Nat
      BY LenProperties DEF TypeOK
    <3> QED
      BY <1>3, <1>4, <1>5, <3>1, <3>2
  <2>3. ASSUME pages # "none" PROVE PassedIsReturned'
    <3>1. PassedIsReturned
      BY <2>3 DEF Reading
    <3>2. ASSUME NEW p \in first, Place(p, Found', request) <= Len(got)
          PROVE  \E k \in 1..Len(got) : got[k] = p
      <4>1. Place(p, Found, request) \in Nat /\ Place(p, Found', request) \in Nat
            /\ Place(p, Found, request) <= Place(p, Found', request)
        BY <1>4, <1>5, PlacesGrow
      <4>2. Len(got) \in Nat
        BY LenProperties DEF TypeOK
      <4>3. Place(p, Found, request) <= Len(got)
        BY <3>2, <4>1, <4>2
      <4> QED
        BY <3>1, <4>3 DEF PassedIsReturned
    <3> QED
      BY <1>1, <3>2 DEF PassedIsReturned
  <2> QED
    BY <1>1, <2>1, <2>2, <2>3 DEF Reading
<1>7. Exact'
  <2> SUFFICES ASSUME OneSeries', ~late', ~ReverseOrder(request), NEW k \in 1..Len(got)
               PROVE  got[k] = InOrder(Found', request)[k]
    BY <1>1 DEF Exact
  <2>1. OneSeries /\ ~late
    BY <1>1 DEF OneSeries
  <2>2. got[k] = InOrder(Found, request)[k]
    BY <2>1 DEF Exact
  <2>3. k \in 1..Cardinality(Found)
    <3>1. Len(got) \in Nat
      BY LenProperties DEF TypeOK
    <3>2. pages # "none"
      BY <3>1 DEF Reading
    <3>3. Len(got) <= Cardinality(Found)
      BY <3>2 DEF Reading
    <3> QED
      BY <1>3, <3>1, <3>3
  <2> QED
    BY <1>4, <1>5, <2>2, <2>3, AnswerGoesOn
<1> QED
  BY <1>6, <1>7

(* The clock moves.                                                        *)
LEMMA TickKeepsInvariant ==
  ASSUME PagingAssumption, IInv, pages # "all", Tick
  PROVE  IInv'
<1> USE DEF IInv
<1>1. now' = now + 1 /\ UNCHANGED <<variableVars, queue, db, readVars, late>>
  BY DEF Tick
<1>2. UNCHANGED <<series, sourceTime, queue, db, readVars, late>>
  BY <1>1 DEF variableVars
<1>3. TypeOK'
  BY <1>1, <1>2 DEF TypeOK, Points, readVars
<1>4. ASSUME OneSeries, ~ReverseOrder(request),
             NEW o \in Found' \ Found, NEW p \in Found
      PROVE  Ahead(p, o, request)
  <2> DEFINE q == QueryRange(request, now)
             s == QueryRange(request, now')
  <2>1. Found = InRange(db, q) /\ Found' = InRange(db, s)
    BY <1>2 DEF Found, readVars
  <2>2. s.from = q.from /\ q.upto \in Nat
    <3>1. request \in [start : Bounds, end : Bounds, numValuesPerNode : Nat]
      BY RequestType
    <3>2. now \in Nat /\ now' \in Nat /\ now <= now'
      BY <1>1 DEF TypeOK
    <3> QED
      BY <3>1, <3>2, QueryRangeGrows
  <2>3. o \in Points /\ p \in Points /\ o \in db /\ p \in db
    BY <2>1 DEF InRange, TypeOK
  <2> HIDE DEF q, s
  <2>4. p.time < q.upto /\ ~(o.time < q.upto)
    BY <2>1, <2>2, <2>3 DEF InRange
  <2>5. o.series = series /\ p.series = series /\ o.time \in Nat /\ p.time \in Nat
    BY <1>4, <2>3 DEF OneSeries, Points
  <2> QED
    BY <1>4, <2>2, <2>4, <2>5 DEF Ahead, Before
<1>5. Reading' /\ Exact'
  <2>1. UNCHANGED <<readVars, series>> /\ db' = db /\ late' = late
    BY <1>2
  <2>2. now' \in Nat /\ now <= now'
    BY <1>1 DEF TypeOK
  <2>3. db \subseteq Points /\ IsFiniteSet(db) /\ OneSeries' = OneSeries
    BY <1>2 DEF TypeOK, OneSeries
  <2> QED
    BY <1>4, <2>1, <2>2, <2>3, GrowthKeepsReading
<1>6. InOrderOfTime' /\ QueueIsOwn'
  BY <1>2 DEF InOrderOfTime, QueueIsOwn
<1> QED
  BY <1>3, <1>5, <1>6

(* A value arrives in the server.                                          *)
LEMMA UpdateKeepsInvariant ==
  ASSUME PagingAssumption, IInv, pages # "all", Update
  PROVE  IInv'
<1> USE DEF IInv
<1>1. UNCHANGED <<series, now, queue, db, readVars, late>> /\ sourceTime' \in Nat
  BY DEF Update, TypeOK
<1>2. TypeOK'
  BY <1>1 DEF TypeOK, Points, readVars
<1>3. Found' = Found
  BY <1>1 DEF Found, readVars
<1>4. Reading' /\ Exact'
  BY <1>1, <1>3 DEF Reading, PassedIsReturned, Exact, OneSeries, readVars
<1>5. InOrderOfTime' /\ QueueIsOwn'
  BY <1>1 DEF InOrderOfTime, QueueIsOwn
<1> QED
  BY <1>2, <1>4, <1>5

(* The gathering polls the variable.                                       *)
LEMMA PollKeepsInvariant ==
  ASSUME PagingAssumption, IInv, pages # "all", Poll
  PROVE  IInv'
<1> USE DEF IInv
<1> DEFINE t == SourceTimeStamp
           point == NewPoint
<1>1. /\ queue' = Append(queue, point)
      /\ late' = (late \/ \E p \in db \cup Range(queue) : p.time > t)
      /\ UNCHANGED <<variableVars, now, db, readVars>>
  BY DEF Poll
<1>2. t \in Nat
  BY DEF SourceTimeStamp, TypeOK
<1> HIDE DEF t
<1>3. point \in Points /\ point.time = t /\ point.series = series
  BY <1>2 DEF TypeOK, Points, NewPoint, t
<1> HIDE DEF point
<1>4. queue \in Seq(Points) /\ db \subseteq Points /\ Len(queue) \in Nat
  BY LenProperties DEF TypeOK
<1>5. /\ queue' \in Seq(Points) /\ Len(queue') = Len(queue) + 1
      /\ \A k \in 1..Len(queue) : queue'[k] = queue[k]
      /\ queue'[Len(queue) + 1] = point
  <2> HIDE DEF IInv
  <2> QED
    BY <1>1, <1>3, <1>4, AppendProperties
<1>6. ASSUME NEW k \in 1..Len(queue')
      PROVE  \/ k \in 1..Len(queue) /\ queue'[k] = queue[k]
             \/ k \notin 1..Len(queue) /\ k = Len(queue) + 1 /\ queue'[k] = point
  BY <1>4, <1>5
<1>7. QueueIsOwn'
  <2>1. series' = series
    BY <1>1 DEF variableVars
  <2> QED
    BY <1>3, <1>6, <2>1 DEF QueueIsOwn
<1>8. UNCHANGED <<series, sourceTime, now, db, readVars>>
  BY <1>1 DEF variableVars
<1>9. late' \in BOOLEAN
  BY <1>1
<1>10. TypeOK'
  BY <1>5, <1>8, <1>9 DEF TypeOK, readVars
<1>11. Found' = Found
  BY <1>8 DEF Found, readVars
<1>12. late => late'
  BY <1>1
<1>13. Reading'
  BY <1>8, <1>11 DEF Reading, PassedIsReturned, readVars
<1>14. Exact'
  BY <1>8, <1>11, <1>12 DEF Exact, OneSeries, readVars
<1>15. InOrderOfTime'
  <2> SUFFICES ASSUME ~late'
               PROVE  /\ \A j, k \in 1..Len(queue') : j < k => queue'[j].time <= queue'[k].time
                      /\ \A p \in db : \A k \in 1..Len(queue') : p.time <= queue'[k].time
    BY <1>8 DEF InOrderOfTime
  <2>1. ~late /\ \A p \in db \cup Range(queue) : ~(p.time > t)
    BY <1>1
  <2>2. /\ \A j, k \in 1..Len(queue) : j < k => queue[j].time <= queue[k].time
        /\ \A p \in db : \A k \in 1..Len(queue) : p.time <= queue[k].time
    BY <2>1 DEF InOrderOfTime
  <2>3. ASSUME NEW k \in 1..Len(queue) PROVE queue[k].time <= t /\ queue[k].time \in Nat
    <3>1. queue[k] \in Points /\ queue[k] \in Range(queue)
      <4>1. DOMAIN queue = 1..Len(queue)
        BY <1>4
      <4> QED
        BY <1>4, <4>1, ElementOfSeq DEF Range
    <3> QED
      BY <1>2, <2>1, <3>1 DEF Points
  <2>4. ASSUME NEW p \in db PROVE p.time <= t
    BY <1>2, <1>4, <2>1 DEF Points
  <2>5. ASSUME NEW k \in 1..Len(queue')
        PROVE  \/ k \in 1..Len(queue) /\ queue'[k] = queue[k]
               \/ k \notin 1..Len(queue) /\ queue'[k].time = t
    BY <1>3, <1>6
  <2>7. ASSUME NEW j \in 1..Len(queue'), NEW k \in 1..Len(queue'), j < k
        PROVE  queue'[j].time <= queue'[k].time
    <3>1. CASE k \in 1..Len(queue)
      <4>1. j \in 1..Len(queue)
        BY <1>4, <1>5, <2>7, <3>1
      <4> QED
        BY <2>2, <2>5, <2>7, <3>1, <4>1
    <3>2. CASE k \notin 1..Len(queue)
      <4>1. queue'[k].time = t
        BY <2>5, <3>2
      <4>2. queue'[j].time <= t
        BY <1>2, <2>3, <2>5
      <4> QED
        BY <4>1, <4>2
    <3> QED
      BY <3>1, <3>2
  <2>8. ASSUME NEW p \in db, NEW k \in 1..Len(queue')
        PROVE  p.time <= queue'[k].time
    BY <2>2, <2>4, <2>5
  <2> QED
    BY <2>7, <2>8
<1> QED
  BY <1>7, <1>10, <1>13, <1>14, <1>15

(* The worker stores or drops a batch.                                     *)
LEMMA WorkerKeepsInvariant ==
  ASSUME PagingAssumption, IInv, pages # "all", WorkerFinishesBatch
  PROVE  IInv'
<1> USE DEF IInv
<1>1. PICK n \in 1..Len(queue) :
        /\ db' \in {db, db \cup Range(SubSeq(queue, 1, n))}
        /\ queue' = SubSeq(queue, n + 1, Len(queue))
        /\ UNCHANGED <<variableVars, now, readVars, late>>
  BY DEF WorkerFinishesBatch
<1>2. UNCHANGED <<series, sourceTime, now, readVars, late>>
  BY <1>1 DEF variableVars
<1>3. queue \in Seq(Points) /\ db \subseteq Points /\ IsFiniteSet(db)
  BY DEF TypeOK
<1>4. Len(queue) \in Nat /\ n \in Nat /\ n <= Len(queue) /\ n >= 1
  BY <1>3, LenProperties
<1> DEFINE batch == SubSeq(queue, 1, n)
<1>5. /\ batch \in Seq(Points) /\ Len(batch) = n
      /\ \A k \in 1..n : batch[k] = queue[k]
  <2>1. 1 \in 1..(Len(queue) + 1) /\ n \in (1 - 1)..Len(queue) /\ n - 1 + 1 = n
    BY <1>4
  <2>2. \A k \in 1..n : 1 + k - 1 = k
    BY <1>4
  <2> QED
    BY <1>3, <2>1, <2>2, SubSeqProperties
<1>6. /\ queue' \in Seq(Points) /\ Len(queue') = Len(queue) - n
      /\ \A k \in 1..(Len(queue) - n) : queue'[k] = queue[n + k]
  <2>1. n + 1 \in 1..(Len(queue) + 1) /\ Len(queue) \in ((n + 1) - 1)..Len(queue)
        /\ Len(queue) - (n + 1) + 1 = Len(queue) - n
        /\ n + 1 \in Int /\ Len(queue) \in Int
    BY <1>4
  <2>2. \A k \in 1..(Len(queue) - n) : (n + 1) + k - 1 = n + k
    BY <1>4
  <2>3. \A i \in (n + 1)..Len(queue) : queue[i] \in Points
    BY <1>3, <1>4, ElementOfSeq
  <2>4. /\ SubSeq(queue, n + 1, Len(queue)) \in Seq(Points)
        /\ Len(SubSeq(queue, n + 1, Len(queue)))
             = IF n + 1 <= Len(queue) THEN Len(queue) - (n + 1) + 1 ELSE 0
        /\ \A i \in 1..(Len(queue) - (n + 1) + 1) :
             SubSeq(queue, n + 1, Len(queue))[i] = queue[(n + 1) + i - 1]
    BY <2>1, <2>3, SubSeqProperties
  <2>5. (IF n + 1 <= Len(queue) THEN Len(queue) - (n + 1) + 1 ELSE 0) = Len(queue) - n
    BY <1>4
  <2> QED
    BY <1>1, <2>1, <2>2, <2>4, <2>5
<1> DEFINE stored == Range(batch)
<1>7. stored \subseteq Points /\ IsFiniteSet(stored)
      /\ \A o \in stored : \E k \in 1..n : o = queue[k]
  <2>1. DOMAIN batch = 1..n
    BY <1>5
  <2>2. stored = {batch[k] : k \in 1..n}
    BY <2>1 DEF Range
  <2>3. IsFiniteSet(stored)
    BY <1>5, RangeIsFinite
  <2> HIDE DEF batch
  <2> QED
    BY <1>5, <2>2, <2>3, ElementOfSeq
<1>8. db' = db \/ db' = db \cup stored
  BY <1>1
<1> HIDE DEF stored, batch
<1>9. db \subseteq db' /\ db' \subseteq Points /\ IsFiniteSet(db')
  <2>1. IsFiniteSet(db \cup stored)
    BY <1>3, <1>7, FS_Union
  <2> QED
    BY <1>3, <1>7, <1>8, <2>1
<1>10. TypeOK'
  BY <1>2, <1>6, <1>9 DEF TypeOK, Points, readVars
<1>11. ASSUME NEW k \in 1..Len(queue) PROVE queue[k] \in Points
  BY <1>3, ElementOfSeq
<1>12. ASSUME ~late, NEW o \in db' \ db, NEW p \in db
       PROVE  p.time <= o.time
  <2>1. PICK k \in 1..n : o = queue[k]
    BY <1>7, <1>8
  <2>2. k \in 1..Len(queue)
    BY <1>4
  <2> QED
    BY <1>12, <2>1, <2>2 DEF InOrderOfTime
<1>13. ASSUME OneSeries', ~late', ~ReverseOrder(request),
              NEW o \in Found' \ Found, NEW p \in Found
       PROVE  Ahead(p, o, request)
  <2>1. /\ p \in db /\ p \in db' /\ o \in db' /\ o \notin db
    BY <1>2, <1>9 DEF Found, InRange, readVars
  <2>2. p.time <= o.time
    BY <1>2, <1>12, <1>13, <2>1
  <2>3. p \in Points /\ o \in Points /\ p # o
    BY <1>9, <2>1
  <2>4. o.series = series /\ p.series = series /\ o.time \in Nat /\ p.time \in Nat
    BY <1>2, <1>13, <2>1, <2>3 DEF OneSeries, Points
  <2>5. o.time # p.time
    BY <2>3, <2>4 DEF Points
  <2> QED
    BY <1>13, <2>2, <2>4, <2>5 DEF Ahead, Before
<1>14. Reading' /\ Exact'
  <2>1. UNCHANGED <<readVars, series>> /\ late' = late /\ now' = now
    BY <1>2
  <2>2. now' \in Nat /\ now <= now'
    BY <2>1 DEF TypeOK
  <2> QED
    BY <1>9, <1>13, <2>1, <2>2, GrowthKeepsReading
<1>15. InOrderOfTime'
  <2> SUFFICES ASSUME ~late
               PROVE  /\ \A j, k \in 1..Len(queue') : j < k => queue'[j].time <= queue'[k].time
                      /\ \A p \in db' : \A k \in 1..Len(queue') : p.time <= queue'[k].time
    BY <1>2 DEF InOrderOfTime
  <2>1. /\ \A j, k \in 1..Len(queue) : j < k => queue[j].time <= queue[k].time
        /\ \A p \in db : \A k \in 1..Len(queue) : p.time <= queue[k].time
    BY DEF InOrderOfTime
  <2>2. ASSUME NEW k \in 1..Len(queue')
        PROVE  n + k \in 1..Len(queue) /\ queue'[k] = queue[n + k]
    BY <1>4, <1>6
  <2>3. ASSUME NEW j \in 1..Len(queue'), NEW k \in 1..Len(queue'), j < k
        PROVE  queue'[j].time <= queue'[k].time
    <3>1. n + j < n + k
      BY <1>4, <2>3
    <3> QED
      BY <2>1, <2>2, <3>1
  <2>4. ASSUME NEW p \in db', NEW k \in 1..Len(queue')
        PROVE  p.time <= queue'[k].time
    <3>1. CASE p \in db
      BY <2>1, <2>2, <3>1
    <3>2. CASE p \notin db
      <4>1. PICK j \in 1..n : p = queue[j]
        BY <1>7, <1>8, <3>2
      <4>2. j \in 1..Len(queue) /\ j < n + k
        BY <1>4
      <4> QED
        BY <2>1, <2>2, <4>1, <4>2
    <3> QED
      BY <3>1, <3>2
  <2> QED
    BY <2>3, <2>4
<1>16. QueueIsOwn'
  <2> SUFFICES ASSUME NEW k \in 1..Len(queue') PROVE queue'[k].series = series
    BY <1>2 DEF QueueIsOwn
  <2>1. n + k \in 1..Len(queue) /\ queue'[k] = queue[n + k]
    BY <1>4, <1>6
  <2> QED
    BY <2>1 DEF QueueIsOwn
<1> QED
  BY <1>10, <1>14, <1>15, <1>16

(* A page is the continuation of what was returned before it.              *)
LEMMA PageKeepsInvariant ==
  ASSUME PagingAssumption, IInv,
         NEW r \in [start : Bounds, end : Bounds, numValuesPerNode : Limits \cup {0}],
         NEW sofar \in Seq(Points),
         NEW F, F = InRange(db, QueryRange(r, now)),
         Len(sofar) <= Cardinality(F), Page(r, Len(sofar), sofar),
         first' \subseteq F,
         \A p \in first' : Place(p, F, r) <= Len(sofar) =>
                             \E k \in 1..Len(sofar) : sofar[k] = p,
         OneSeries /\ ~late /\ ~ReverseOrder(r) =>
           \A k \in 1..Len(sofar) : sofar[k] = InOrder(F, r)[k],
         request' = r, UNCHANGED <<variableVars, now, queue, db, late>>
  PROVE  IInv'
<1> USE DEF IInv
<1>1. UNCHANGED <<series, sourceTime, now, queue, db, late>>
  BY DEF variableVars
<1>2. r \in [start : Bounds, end : Bounds, numValuesPerNode : Nat]
  <2>1. Limits \cup {0} \subseteq Nat
    BY DEF PagingAssumption
  <2> HIDE DEF Bounds
  <2> QED
    BY <2>1
<1>3. /\ IsFiniteSet(F) /\ F \subseteq AllPoints /\ Cardinality(F) \in Nat
      /\ got' \in Seq(Points) /\ Len(sofar) \in Nat /\ Len(got') \in Nat
      /\ Len(sofar) <= Len(got') /\ Len(got') <= Cardinality(F)
      /\ pages' \in {"more", "all"}
      /\ pages' = "more" => skip' = Len(got')
      /\ pages' = "all" => skip' = 0 /\ Len(got') = Cardinality(F)
      /\ \A k \in 1..Len(sofar) : got'[k] = sofar[k]
      /\ \A k \in (Len(sofar) + 1)..Len(got') : got'[k] = InOrder(F, r)[k]
  BY <1>2, PageReturns
<1>4. Found' = F
  BY <1>1 DEF Found
<1>5. TypeOK'
  <2>1. skip' \in Nat
    BY <1>3
  <2>2. Points' = Points
    BY <1>1 DEF Points
  <2>3. /\ series' \in Series /\ now' \in Nat /\ sourceTime' \in Nat
        /\ queue' \in Seq(Points) /\ db' \subseteq Points /\ IsFiniteSet(db')
        /\ late' \in BOOLEAN
    BY <1>1 DEF TypeOK
  <2> HIDE DEF Bounds
  <2> QED
    BY <1>3, <2>1, <2>2, <2>3 DEF TypeOK
<1>6. PassedIsReturned'
  <2> SUFFICES ASSUME NEW p \in first', Place(p, F, r) <= Len(got')
               PROVE  \E k \in 1..Len(got') : got'[k] = p
    BY <1>4 DEF PassedIsReturned
  <2>1. Place(p, F, r) \in 1..Cardinality(F) /\ InOrder(F, r)[Place(p, F, r)] = p
    BY <1>3, InOrderProperties
  <2>2. CASE Place(p, F, r) <= Len(sofar)
    <3>1. PICK k \in 1..Len(sofar) : sofar[k] = p
      BY <2>2
    <3>2. k \in 1..Len(got') /\ got'[k] = p
      BY <1>3, <3>1
    <3> QED
      BY <3>2
  <2>3. CASE ~(Place(p, F, r) <= Len(sofar))
    <3>1. Place(p, F, r) \in (Len(sofar) + 1)..Len(got') /\ Place(p, F, r) \in 1..Len(got')
      BY <1>3, <2>1, <2>3
    <3> QED
      BY <1>3, <2>1, <3>1
  <2> QED
    BY <2>2, <2>3
<1>7. Reading'
  BY <1>3, <1>4, <1>6 DEF Reading
<1>8. InOrderOfTime' /\ QueueIsOwn'
  BY <1>1 DEF InOrderOfTime, QueueIsOwn
<1>9. Exact'
  <2> SUFFICES ASSUME OneSeries, ~late, ~ReverseOrder(r), NEW k \in 1..Len(got')
               PROVE  got'[k] = InOrder(F, r)[k]
    BY <1>1, <1>4 DEF Exact, OneSeries
  <2>1. k \in 1..Len(sofar) \/ k \in (Len(sofar) + 1)..Len(got')
    BY <1>3
  <2> QED
    BY <1>3, <2>1
<1> QED
  BY <1>5, <1>7, <1>8, <1>9

(* The first page.                                                         *)
LEMMA BeginReadKeepsInvariant ==
  ASSUME PagingAssumption, IInv, BeginRead
  PROVE  IInv'
<1>1. PICK r \in Requests :
        /\ request' = r /\ Page(r, 0, <<>>)
        /\ first' = InRange(db, QueryRange(r, now))
        /\ UNCHANGED <<variableVars, now, queue, db, late>>
  BY DEF BeginRead
<1> DEFINE F == InRange(db, QueryRange(r, now))
<1>2. r \in [start : Bounds, end : Bounds, numValuesPerNode : Limits \cup {0}]
  BY DEF Requests
<1>3. Cardinality(F) \in Nat
  <2>1. F \subseteq db
    BY DEF InRange
  <2> HIDE DEF F
  <2> QED
    BY <2>1, FS_Subset, FS_CardinalityType DEF IInv, TypeOK
<1> HIDE DEF F
<1> DEFINE empty == <<>>
<1>4. empty \in Seq(Points) /\ Len(empty) = 0
  OBVIOUS
<1>5. Page(r, Len(empty), empty)
  BY <1>1, <1>4
<1> HIDE DEF empty
<1>6. Len(empty) <= Cardinality(F)
  BY <1>3, <1>4
<1>7. /\ first' \subseteq F
      /\ \A p \in first' : Place(p, F, r) <= Len(empty) =>
                             \E k \in 1..Len(empty) : empty[k] = p
  <2>1. IsFiniteSet(F) /\ F \subseteq AllPoints
    <3>1. F \subseteq db /\ db \subseteq AllPoints
      BY PointsAreAllPoints DEF F, InRange, IInv, TypeOK
    <3> QED
      BY <3>1, FS_Subset DEF IInv, TypeOK
  <2>2. first' = F
    BY <1>1 DEF F
  <2>3. ASSUME NEW p \in F PROVE Place(p, F, r) \in 1..Cardinality(F)
    BY <2>1, PlaceRange
  <2>4. ASSUME NEW p \in F PROVE ~(Place(p, F, r) <= Len(empty))
    BY <1>3, <1>4, <2>3
  <2> QED
    BY <2>2, <2>4
<1>8. OneSeries /\ ~late /\ ~ReverseOrder(r) =>
        \A k \in 1..Len(empty) : empty[k] = InOrder(F, r)[k]
  BY <1>4
<1>9. F = InRange(db, QueryRange(r, now))
  BY DEF F
<1>10. request' = r /\ UNCHANGED <<variableVars, now, queue, db, late>>
  BY <1>1
<1> QED
  <2>1. PICK S : S = F
    OBVIOUS
  <2>2. PICK sofar \in Seq(Points) : sofar = empty
    BY <1>4
  <2>3. Len(sofar) <= Cardinality(S) /\ Page(r, Len(sofar), sofar)
    BY <1>5, <1>6, <2>1, <2>2
  <2>4. first' \subseteq S
    BY <1>7, <2>1
  <2>5. \A p \in first' : Place(p, S, r) <= Len(sofar) =>
                            \E k \in 1..Len(sofar) : sofar[k] = p
    BY <1>7, <2>1, <2>2
  <2>6. OneSeries /\ ~late /\ ~ReverseOrder(r) =>
          \A k \in 1..Len(sofar) : sofar[k] = InOrder(S, r)[k]
    BY <1>8, <2>1, <2>2
  <2>7. S = InRange(db, QueryRange(r, now))
    BY <1>9, <2>1
  <2> QED
    BY <1>2, <1>10, <2>3, <2>4, <2>5, <2>6, <2>7, PageKeepsInvariant

(* A further page.                                                         *)
LEMMA ContinueReadKeepsInvariant ==
  ASSUME PagingAssumption, IInv, ContinueRead
  PROVE  IInv'
<1>1. /\ pages = "more" /\ Page(request, skip, got)
      /\ UNCHANGED <<variableVars, now, queue, db, request, first, late>>
  BY DEF ContinueRead
<1>2. /\ first \subseteq Found /\ PassedIsReturned
      /\ Len(got) <= Cardinality(Found) /\ skip = Len(got)
  BY <1>1 DEF IInv, Reading
<1>3. /\ got \in Seq(Points)
      /\ request \in [start : Bounds, end : Bounds, numValuesPerNode : Limits \cup {0}]
  BY DEF IInv, TypeOK
<1>4. Found = InRange(db, QueryRange(request, now))
  BY DEF Found
<1>5. \A p \in first : Place(p, Found, request) <= Len(got) =>
                         \E k \in 1..Len(got) : got[k] = p
  BY <1>2 DEF PassedIsReturned
<1>6. OneSeries /\ ~late /\ ~ReverseOrder(request) =>
        \A k \in 1..Len(got) : got[k] = InOrder(Found, request)[k]
  BY DEF IInv, Exact
<1>7. first' = first /\ request' = request
  BY <1>1
<1>8. Page(request, Len(got), got)
  BY <1>1, <1>2
<1> QED
  BY <1>1, <1>2, <1>3, <1>4, <1>5, <1>6, <1>7, <1>8, PageKeepsInvariant

(* The end of a read.                                                      *)
LEMMA EndReadKeepsInvariant ==
  ASSUME PagingAssumption, IInv, EndRead
  PROVE  IInv'
<1> USE DEF IInv
<1>1. /\ pages' = "none" /\ request' = NoRequest /\ skip' = 0 /\ got' = <<>>
      /\ first' = {} /\ UNCHANGED <<series, sourceTime, now, queue, db, late>>
  BY DEF EndRead, variableVars
<1>2. TypeOK'
  BY <1>1 DEF TypeOK, NoRequest, Bounds, Points
<1>3. Reading' /\ InOrderOfTime' /\ QueueIsOwn'
  BY <1>1 DEF Reading, InOrderOfTime, QueueIsOwn
<1>4. Exact'
  BY <1>1 DEF Exact
<1> QED
  BY <1>2, <1>3, <1>4

(* The inductive invariant: the types, what has been returned of the first *)
(* answer, the order of the times and the exactness of a read forwards.    *)
THEOREM PagingInvariant == Spec => []IInv
<1> USE PagingAssumption
<1>1. Init => IInv
  <2> SUFFICES ASSUME Init PROVE IInv
    OBVIOUS
  <2>1. /\ series \in Series /\ now = 1 /\ sourceTime = 0 /\ queue = <<>>
        /\ db \subseteq [series : Series, time : {1}] /\ late = FALSE /\ request = NoRequest /\ skip = 0
        /\ pages = "none" /\ got = <<>> /\ first = {}
    BY DEF Init, NoRead
  <2>2. db \subseteq Points /\ IsFiniteSet(db)
    <3> DEFINE f == [x \in Series |-> [series |-> x, time |-> 1]]
    <3>1. f \in Surjection(Series, [series : Series, time : {1}])
      <4>1. f \in [Series -> [series : Series, time : {1}]]
        OBVIOUS
      <4>2. ASSUME NEW p \in [series : Series, time : {1}]
            PROVE  p.series \in Series /\ f[p.series] = p
        OBVIOUS
      <4> QED
        BY <4>1, <4>2 DEF Surjection
    <3>2. IsFiniteSet([series : Series, time : {1}])
      BY <3>1, FS_Surjection, PagingAssumption DEF PagingAssumption
    <3>3. db \subseteq Points
      BY <2>1 DEF Points
    <3> QED
      BY <2>1, <3>2, <3>3, FS_Subset
  <2>3. TypeOK
    <3>1. request \in [start : Bounds, end : Bounds, numValuesPerNode : Limits \cup {0}]
      BY <2>1 DEF NoRequest, Bounds
    <3>2. queue \in Seq(Points) /\ got \in Seq(Points) /\ db \subseteq Points
      BY <2>1, <2>2
    <3>3. late \in BOOLEAN
      BY <2>1
    <3>4. now \in Nat /\ sourceTime \in Nat /\ skip \in Nat /\ IsFiniteSet(db)
      BY <2>1, <2>2
    <3> HIDE DEF Points, Bounds
    <3> QED
      BY <2>1, <3>1, <3>2, <3>3, <3>4 DEF TypeOK
  <2> QED
    BY <2>1, <2>3 DEF IInv, Reading, QueueIsOwn, InOrderOfTime, Exact
<1>2. IInv /\ [Next]_vars => IInv'
  <2> SUFFICES ASSUME IInv, [Next]_vars PROVE IInv'
    OBVIOUS
  <2>1. CASE pages # "all" /\ Tick
    BY <2>1, TickKeepsInvariant
  <2>2. CASE pages # "all" /\ Update
    BY <2>2, UpdateKeepsInvariant
  <2>3. CASE pages # "all" /\ Poll
    BY <2>3, PollKeepsInvariant
  <2>4. CASE pages # "all" /\ WorkerFinishesBatch
    BY <2>4, WorkerKeepsInvariant
  <2>5. CASE BeginRead
    BY <2>5, BeginReadKeepsInvariant
  <2>6. CASE ContinueRead
    BY <2>6, ContinueReadKeepsInvariant
  <2>7. CASE EndRead
    BY <2>7, EndReadKeepsInvariant
  <2>8. CASE UNCHANGED vars
    <3>1. UNCHANGED <<series, sourceTime, now, queue, db, request, skip, pages, got,
                      first, late>>
      BY <2>8 DEF vars, variableVars, readVars
    <3>2. Found' = Found
      BY <3>1 DEF Found
    <3> QED
      BY <3>1, <3>2 DEF IInv, TypeOK, Points, Reading, PassedIsReturned,
                        QueueIsOwn, InOrderOfTime, OneSeries, Exact
  <2> QED
    BY <2>1, <2>2, <2>3, <2>4, <2>5, <2>6, <2>7, <2>8 DEF Next, Historize, Read
<1> QED
  BY <1>1, <1>2, PTL DEF Spec

(* A read that came to its end has returned every point its first query    *)
(* found, whatever was historized between its pages.                       *)
THEOREM NothingIsMissed == Spec => []NothingMissed
<1>1. IInv => NothingMissed
  <2> SUFFICES ASSUME IInv, pages = "all", NEW p \in first PROVE p \in Range(got)
    BY DEF NothingMissed
  <2>1. p \in Found /\ PassedIsReturned /\ Len(got) = Cardinality(Found)
    BY DEF IInv, Reading
  <2>2. Found \subseteq AllPoints /\ IsFiniteSet(Found)
    BY FoundIsFinite DEF IInv
  <2>3. Place(p, Found, request) \in 1..Cardinality(Found) /\ Cardinality(Found) \in Nat
    BY <2>1, <2>2, PlaceRange
  <2>4. PICK k \in 1..Len(got) : got[k] = p
    BY <2>1, <2>3 DEF PassedIsReturned
  <2>5. got \in Seq(Points)
    BY DEF IInv, TypeOK
  <2> QED
    BY <2>4, <2>5 DEF Range
<1> QED
  BY <1>1, PagingInvariant, PTL

(* The answer has the points of the query, each once.                      *)
LEMMA AnswerHasFound ==
  ASSUME TypeOK
  PROVE  Answer = InOrder(Found, request) /\ Range(Answer) = Found
<1>1. Answer = InOrder(Found, request)
  BY DEF Answer, Records, Found
<1>2. Found \subseteq AllPoints /\ IsFiniteSet(Found)
  BY FoundIsFinite
<1>3. /\ Len(Answer) = Cardinality(Found) /\ Answer \in Seq(Found)
      /\ \A k \in 1..Cardinality(Found) : Answer[k] \in Found
      /\ \A p \in Found : /\ Place(p, Found, request) \in 1..Cardinality(Found)
                          /\ Answer[Place(p, Found, request)] = p
  BY <1>1, <1>2, InOrderProperties
<1>4. DOMAIN Answer = 1..Cardinality(Found)
  BY <1>3
<1> HIDE DEF Answer
<1>5. Range(Answer) = {Answer[k] : k \in 1..Cardinality(Found)}
  BY <1>4 DEF Range
<1> QED
  BY <1>1, <1>3, <1>5

(* A read returns points twice at most as often as points came into its    *)
(* answer since it began.                                                  *)
THEOREM RepeatsAreAlwaysNew == Spec => []RepeatsAreNewPoints
<1>1. IInv => RepeatsAreNewPoints
  <2> SUFFICES ASSUME IInv PROVE RepeatsAreNewPoints
    OBVIOUS
  <2> DEFINE L == Len(got)
             passed == {p \in Found : Place(p, Found, request) <= L}
             new == Found \ first
             returned == Range(got)
  <2>1. /\ Found \subseteq AllPoints /\ IsFiniteSet(Found) /\ Cardinality(Found) \in Nat
    BY FoundIsFinite DEF IInv
  <2>2. L \in Nat /\ got \in Seq(Points) /\ DOMAIN got = 1..L
    BY LenProperties DEF IInv, TypeOK
  <2>3. L <= Cardinality(Found)
    BY <2>1 DEF IInv, Reading, TypeOK
  <2>4. /\ IsFiniteSet(returned) /\ Cardinality(returned) \in Nat
    BY <2>2, RangeIsFinite
  <2>5. /\ IsFiniteSet(new) /\ Cardinality(new) \in Nat
    BY <2>1, FS_Difference, FS_CardinalityType
  <2>6. passed \subseteq returned \cup new
    <3> SUFFICES ASSUME NEW p \in passed, p \in first PROVE p \in returned
      OBVIOUS
    <3>1. PassedIsReturned
      BY DEF IInv, Reading
    <3>2. PICK k \in 1..L : got[k] = p
      BY <3>1 DEF PassedIsReturned
    <3> QED
      BY <2>2, <3>2 DEF Range
  <2>7. IsFiniteSet(passed) /\ Cardinality(passed) \in Nat
    <3>1. passed \subseteq Found
      OBVIOUS
    <3> HIDE DEF passed
    <3> QED
      BY <2>1, <3>1, FS_Subset, FS_CardinalityType
  <2>8. L <= Cardinality(passed)
    <3> DEFINE f == [k \in 1..L |-> InOrder(Found, request)[k]]
    <3>1. ASSUME NEW k \in 1..L
          PROVE  InOrder(Found, request)[k] \in passed
                 /\ Place(InOrder(Found, request)[k], Found, request) = k
      <4>1. k \in 1..Cardinality(Found) /\ k <= L
        BY <2>1, <2>2, <2>3
      <4>2. InOrder(Found, request)[k] \in Found
            /\ Place(InOrder(Found, request)[k], Found, request) = k
        BY <2>1, <4>1, InOrderProperties
      <4> QED
        BY <4>1, <4>2
    <3> HIDE DEF passed, L
    <3>2. f \in Injection(1..L, passed)
      <4>1. f \in [1..L -> passed]
        BY <3>1
      <4>2. ASSUME NEW j \in 1..L, NEW k \in 1..L, f[j] = f[k] PROVE j = k
        <5>1. InOrder(Found, request)[j] = InOrder(Found, request)[k]
          BY <4>2
        <5> QED
          BY <3>1, <5>1
      <4> HIDE DEF f
      <4> QED
        BY <4>1, <4>2 DEF Injection, IsInjective
    <3>3. IsFiniteSet(1..L) /\ Cardinality(1..L) = IF 1 > L THEN 0 ELSE L - 1 + 1
      BY <2>2, FS_Interval
    <3>4. Cardinality(1..L) = L
      BY <2>2, <3>3
    <3> HIDE DEF f
    <3> QED
      BY <2>7, <3>2, <3>3, <3>4, FS_Injection
  <2> HIDE DEF passed, new, returned, L
  <2>9. /\ IsFiniteSet(returned \cup new)
        /\ Cardinality(returned \cup new) \in Nat
        /\ Cardinality(returned \cup new) <= Cardinality(returned) + Cardinality(new)
    <3>1. /\ IsFiniteSet(returned \cup new) /\ IsFiniteSet(returned \cap new)
          /\ Cardinality(returned \cup new)
               = Cardinality(returned) + Cardinality(new) - Cardinality(returned \cap new)
      <4>1. IsFiniteSet(returned \cap new)
        BY <2>4, FS_Subset
      <4> QED
        BY <2>4, <2>5, <4>1, FS_Union
    <3>2. Cardinality(returned \cap new) \in Nat /\ Cardinality(returned \cup new) \in Nat
      BY <3>1, FS_CardinalityType
    <3> QED
      BY <2>4, <2>5, <3>1, <3>2
  <2>10. Cardinality(passed) <= Cardinality(returned \cup new)
    BY <2>6, <2>9, FS_Subset
  <2>11. L - Cardinality(returned) <= Cardinality(new)
    BY <2>2, <2>4, <2>5, <2>7, <2>8, <2>9, <2>10
  <2>12. Range(Answer) \ first = new
    BY AnswerHasFound DEF IInv, new
  <2> QED
    BY <2>11, <2>12 DEF RepeatsAreNewPoints, L, returned
<1> QED
  BY <1>1, PagingInvariant, PTL

(* A read forwards in time, of points of one series and none of them late, *)
(* returns the beginning of the answer, no point missing and none twice.   *)
THEOREM ForwardReadIsAlwaysExact == Spec => []ForwardReadIsExact
<1>1. IInv => ForwardReadIsExact
  <2> SUFFICES ASSUME IInv, OneSeries, ~late, ~ReverseOrder(request)
               PROVE  IsPrefix(got, Answer)
    BY DEF ForwardReadIsExact
  <2>1. \A k \in 1..Len(got) : got[k] = InOrder(Found, request)[k]
    BY DEF IInv, Exact
  <2>2. Answer = InOrder(Found, request)
    BY AnswerHasFound DEF IInv
  <2>3. /\ Found \subseteq AllPoints /\ IsFiniteSet(Found) /\ Cardinality(Found) \in Nat
    BY FoundIsFinite DEF IInv
  <2>4. Answer \in Seq(Found) /\ Len(Answer) = Cardinality(Found)
    BY <2>2, <2>3, InOrderProperties
  <2>5. got \in Seq(Points) /\ Len(got) \in Nat
    BY LenProperties DEF IInv, TypeOK
  <2>6. Len(got) <= Len(Answer)
    BY <2>3, <2>4, <2>5 DEF IInv, Reading
  <2> HIDE DEF Answer
  <2>7. \A k \in 1..Len(got) : got[k] = Answer[k]
    BY <2>1, <2>2
  <2>8. SubSeq(got, 1, Len(got)) = SubSeq(Answer, 1, Len(got))
    <3> DEFINE n == Len(got)
               s == SubSeq(got, 1, n)
               t == SubSeq(Answer, 1, n)
    <3>1. s = [k \in 1..n |-> got[k]]
      BY <2>5
    <3>2. t = [k \in 1..n |-> Answer[k]]
      BY <2>4, <2>5, <2>6
    <3> QED
      BY <2>7, <3>1, <3>2
  <2> QED
    BY <2>6, <2>8 DEF IsPrefix
<1> QED
  BY <1>1, PagingInvariant, PTL
==============================================================================
