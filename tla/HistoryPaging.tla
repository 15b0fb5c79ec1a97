---------------------------- MODULE HistoryPaging ----------------------------
(***************************************************************************)
(* Reading the history of one variable from the database, page by page,    *)
(* while the variable is still being historized.  The continuation point   *)
(* of getHistoryDataInflux is only an offset into the answer of a query    *)
(* that every page sends again, so each page sees a newer database.        *)
(*                                                                         *)
(* A point is its series, the tags it is stored under, and its time.  The  *)
(* adapter stores one series per variable, also of an array, of which      *)
(* variantToStrings returns the first element only.  Its unit and its name *)
(* are tags that the query does not ask for (the name by configuration):   *)
(* what was stored before one of these changed is another series of the    *)
(* same answer.  The database keeps one value per point and answers series *)
(* by series, each in the order of time: the query asks for no other order.*)
(***************************************************************************)
EXTENDS Integers, FiniteSets, SequencesExt

CONSTANTS
  Series,          \* the tags a variable was stored under, before and now
  Limits,          \* values per page a client may ask for, 0 for no limit
  maxSizePerResponse,  \* entries_per_response of the setup, 0 for no limit
  maxQueuePoints,  \* room in the queue of the batching client
  MaxTime,         \* bound: the clock stops here
  RequestTimes     \* the times a client may name in a request

ASSUME PagingAssumption ==
  /\ Series \subseteq Nat /\ IsFiniteSet(Series) /\ Limits \subseteq Nat
  /\ maxSizePerResponse \in Nat /\ maxQueuePoints \in Nat
  /\ MaxTime \in Nat \ {0} /\ RequestTimes \subseteq Nat

VARIABLES
  series,       \* the tags the variable is stored under now
  now,          \* the clock; time 0 is the Unix epoch
  sourceTime,   \* time of the value's version number, 0 for the initial value
  queue,        \* points that wait in the batching client
  db,           \* points the database holds
  request,      \* the history read being served
  skip,         \* the offset in the continuation point
  pages,        \* "none": no read, "more": pages are left, "all": none is
  got,          \* points returned so far, in the order of the answers
  first,        \* ghost: the points of the answer to the first page's query
  late          \* ghost: has a point been taken after one with a later time

variableVars == <<series, sourceTime>>
readVars == <<request, skip, pages, got, first>>
vars == <<variableVars, now, queue, db, readVars, late>>

Open == -1                      \* LLONG_MIN, "no bound" in a request
Bounds == RequestTimes \cup {Open}
Requests == [start : Bounds, end : Bounds, numValuesPerNode : Limits]

ReverseOrder(r) == r.end # Open /\ r.start # Open /\ r.end < r.start

(* The interval a request queries at time t: [from, upto).                 *)
QueryRange(r, t) ==
  LET from == IF r.start = Open THEN 0
              ELSE IF ReverseOrder(r) THEN r.end ELSE r.start
      upto == IF r.end = Open THEN t
              ELSE IF ReverseOrder(r) THEN r.start ELSE r.end
  IN  [from |-> from,
       upto |-> IF upto <= from THEN Max({from + 1, t}) ELSE upto]

InRange(points, q) == {p \in points : q.from <= p.time /\ p.time < q.upto}

(* The order of an answer: series by series, each in the order of time.    *)
Before(o, p) ==
  o.series < p.series \/ (o.series = p.series /\ o.time < p.time)

(* Mutated form: the query asks for the newest records first. *)
AheadNewestFirst(o, p, r) == IF ReverseOrder(r) THEN Before(o, p) ELSE Before(p, o)

(* An answer is turned round for a reverse read.                           *)
Ahead(o, p, r) == IF ReverseOrder(r) THEN Before(p, o) ELSE Before(o, p)

Place(p, points, r) == 1 + Cardinality({o \in points : Ahead(o, p, r)})

(* The records of an answer, each behind those that are ahead of it.       *)
InOrder(points, r) ==
  [k \in 1..Cardinality(points) |->
     CHOOSE p \in points : Place(p, points, r) = k]
Records(points, r, q) == InOrder(InRange(points, q), r)

NoRequest == [start |-> Open, end |-> Open, numValuesPerNode |-> 0]
NoRead ==
  request = NoRequest /\ skip = 0 /\ pages = "none" /\ got = <<>> /\ first = {}

(* Earlier runs of the program may have left points.                       *)
Init ==
  /\ series \in Series /\ now = 1 /\ sourceTime = 0
  /\ queue = <<>> /\ late = FALSE
  /\ db \in SUBSET [series : Series, time : {now}]
  /\ NoRead

-----------------------------------------------------------------------------
Tick ==
  /\ now < MaxTime /\ now' = now + 1
  /\ UNCHANGED <<variableVars, queue, db, readVars, late>>

(* A value the application made at time t arrives in the server.           *)
Update ==
  /\ \E t \in (sourceTime + 1)..now : sourceTime' = t
  /\ UNCHANGED <<series, now, queue, db, readVars, late>>

(* getSourceTimeStamp: an initial value has no time and is given the       *)
(* present one.                                                            *)
SourceTimeStamp == IF sourceTime = 0 THEN now ELSE sourceTime

HasRoomForPoint == Len(queue) < maxQueuePoints

(* variantToStrings: one point for a value, of an array for its element 0. *)
NewPoint == [series |-> series, time |-> SourceTimeStamp]

(* The gathering polls the variable: one writePoint.  A value that is no   *)
(* finite number, an empty array and a point for which the queue has no    *)
(* room are refused and change nothing.                                    *)
Poll ==
  /\ HasRoomForPoint
  /\ queue' = Append(queue, NewPoint)
  /\ late' = (late \/ \E p \in db \cup Range(queue) : p.time > SourceTimeStamp)
  /\ UNCHANGED <<variableVars, now, db, readVars>>

(* The worker stores a batch, or drops it when its attempts have failed.   *)
(* A point that is stored again replaces itself.                           *)
WorkerFinishesBatch ==
  \E n \in 1..Len(queue) :
    /\ db' \in {db, db \cup Range(SubSeq(queue, 1, n))}
    /\ queue' = SubSeq(queue, n + 1, Len(queue))
    /\ UNCHANGED <<variableVars, now, readVars, late>>

-----------------------------------------------------------------------------
PageSize(r, remaining) ==
  Min({remaining}
      \cup (IF r.numValuesPerNode > 0 THEN {r.numValuesPerNode} ELSE {})
      \cup (IF maxSizePerResponse > 0 THEN {maxSizePerResponse} ELSE {}))

(* Mutated forms of the definitions below. *)
NextOffsetFromOne(offset, limit) == offset + limit + 1
NextOffsetOverlaps(offset, limit) ==
  IF limit > 0 THEN offset + limit - 1 ELSE offset

NextOffset(offset, limit) == offset + limit
HasMore(offset, size) == offset < size

(* getHistoryDataInflux: the query is sent, `offset` records are passed    *)
(* over, and a continuation point is made if records are left behind the   *)
(* page.  A page behind the last record is empty.                          *)
Page(r, offset, sofar) ==
  LET records == Records(db, r, QueryRange(r, now))
      limit == PageSize(r, Len(records) - offset)
      next == NextOffset(offset, limit)
  IN  /\ got' = sofar \o SubSeq(records, offset + 1, offset + limit)
      /\ IF HasMore(next, Len(records)) THEN pages' = "more" /\ skip' = next
         ELSE pages' = "all" /\ skip' = 0

(* A client sends a HistoryRead without a continuation point.              *)
BeginRead ==
  /\ pages = "none"
  /\ \E r \in Requests :
       /\ request' = r /\ Page(r, 0, <<>>)
       /\ first' = InRange(db, QueryRange(r, now))
  /\ UNCHANGED <<variableVars, now, queue, db, late>>

(* The client sends it again with the continuation point it was given.     *)
ContinueRead ==
  /\ pages = "more"
  /\ Page(request, skip, got)
  /\ UNCHANGED <<variableVars, now, queue, db, request, first, late>>

(* The read is over for the client: it has all pages, releases its         *)
(* continuation point or gives up after a query that failed                *)
(* (BADINTERNALERROR, no values).                                          *)
EndRead ==
  /\ pages # "none" /\ pages' = "none"
  /\ request' = NoRequest /\ skip' = 0 /\ got' = <<>> /\ first' = {}
  /\ UNCHANGED <<variableVars, now, queue, db, late>>

(* A client that has all pages looks at them at once: what is historized   *)
(* after its last answer does not change it.                               *)
Historize == pages # "all" /\ (Tick \/ Update \/ Poll \/ WorkerFinishesBatch)
Read == BeginRead \/ ContinueRead \/ EndRead
Next == Historize \/ Read

Spec == Init /\ [][Next]_vars

-----------------------------------------------------------------------------
(* Properties.                                                             *)

Answer == Records(db, request, QueryRange(request, now))

(* A read that has come to its end (getHistoryDataInflux made no more      *)
(* continuation point) has returned every point its first query found,     *)
(* whatever was historized between its pages, in either direction and      *)
(* under whatever tags.                                                    *)
NothingMissed == pages = "all" => first \subseteq Range(got)

(* The offset of a continuation point counts from the start of an answer   *)
(* that may have grown before it: a read returns a point twice at most     *)
(* once for every point that came into its answer since it began.          *)
RepeatsAreNewPoints ==
  Len(got) - Cardinality(Range(got)) <= Cardinality(Range(Answer) \ first)

(* A read in the direction of time, when all points are of one series and  *)
(* none came with an earlier time than one before it, is exact: what has   *)
(* been returned is the beginning of the answer, no point missing and none *)
(* twice.                                                                  *)
OneSeries == \A p \in db : p.series = series
ForwardReadIsExact ==
  OneSeries /\ ~late /\ ~ReverseOrder(request) => IsPrefix(got, Answer)

=============================================================================
