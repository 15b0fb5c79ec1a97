---------------------------- MODULE InfluxClient -----------------------------
(***************************************************************************)
(* influxdb::InfluxClient with write batching enabled: the threads that    *)
(* call writePoint (through serverSetHistoryDataInflux), the background    *)
(* thread that runs writeWorkerLoop, the history reads that share the      *)
(* client, and the destructor.  A step of a thread is the code between two *)
(* places where another thread can see or change what it uses: a critical  *)
(* section of writeQueueMutex_, an access to an atomic, an HTTP request.   *)
(***************************************************************************)
EXTENDS Integers, Sequences, FiniteSets

CONSTANTS Writers,                \* the threads that call writePoint
          Statuses,               \* the non-2xx statuses the database answers
          maxBatchPoints,         \* <csa:max_batch_points>
          maxQueuePoints,         \* <csa:max_queue_points>
          maxRetries,             \* <csa:max_retries>
          failFastOnAsyncError,   \* <csa:fail_fast_on_async_error>
          MaxCalls,               \* bound: calls of writePoint
          MaxFaults,              \* bound: failing write requests
          ReadsMayFail            \* bound: can a history read fail

(* What ConfigLoader guarantees of a configuration (parseWriteBatching).   *)
ASSUME ConfigAssumption ==
  /\ maxBatchPoints \in Nat \ {0}
  /\ maxQueuePoints \in Nat \ {0}
  /\ maxRetries \in Nat
  /\ failFastOnAsyncError \in BOOLEAN

ASSUME BoundsAssumption ==
  /\ Statuses \subseteq Nat \ {0}
  /\ MaxCalls \in Nat
  /\ MaxFaults \in Nat
  /\ ReadsMayFail \in BOOLEAN

(* The statuses sendWritePayload takes for errors no retry can repair.     *)
FundamentalStatuses == {400, 401, 404}

VARIABLES
  writeQueue,                \* the points waiting to be sent
  stopWriteWorker,
  worker,                    \* where the worker thread is in its loop
  batch,                     \* the points it has popped
  attempt,                   \* the attempt of attemptSendBatch
  fundamentalErrorOccurred,
  errorCode,                 \* last HTTP status of a failed write, 0 if none
  asyncWriteError,           \* is lastAsyncWriteError_ not empty
  pointsWritten, pointsDropped, queuedPointsDropped,
  batchesWritten, batchWriteFailures, retryAttempts,
  writer,                    \* where each writer is in its call
  destroyed,                 \* the destructor has joined the worker
  (* What is outside of the client, or only observed. *)
  calls,                     \* calls of writePoint begun
  faults,                    \* write requests that failed
  accepted,                  \* points pushed; a point's name is its number
  overflowed,                \* points refused because the queue was full
  db,                        \* the points the database has stored
  discarded,                 \* the accepted points given up by the worker
  lateBatches                \* batches popped after a fundamental error

counters == <<pointsWritten, pointsDropped, queuedPointsDropped,
              batchesWritten, batchWriteFailures, retryAttempts>>
callVars == <<writer, calls, accepted, overflowed>>
errorVars == <<fundamentalErrorOccurred, errorCode, asyncWriteError>>
history == <<db, discarded, faults, lateBatches>>
vars == <<writeQueue, stopWriteWorker, worker, batch, attempt, errorVars,
          counters, callVars, destroyed, history>>

Init ==
  /\ writeQueue = <<>> /\ batch = <<>> /\ attempt = 0
  /\ worker = "test" /\ stopWriteWorker = FALSE /\ destroyed = FALSE
  /\ fundamentalErrorOccurred = FALSE /\ errorCode = 0
  /\ asyncWriteError = FALSE
  /\ pointsWritten = 0 /\ pointsDropped = 0 /\ queuedPointsDropped = 0
  /\ batchesWritten = 0 /\ batchWriteFailures = 0 /\ retryAttempts = 0
  /\ writer = [w \in Writers |-> "idle"]
  /\ calls = 0 /\ faults = 0 /\ accepted = 0 /\ overflowed = 0
  /\ db = {} /\ discarded = {} /\ lateBatches = 0

PointsOf(s) == {s[i] : i \in DOMAIN s}

-----------------------------------------------------------------------------
(***************************************************************************)
(* A writer: serverSetHistoryDataInflux and writePoint.                    *)
(***************************************************************************)

(* serverSetHistoryDataInflux returns BadCommunicationError once a         *)
(* fundamental error has occurred, and calls writePoint otherwise.         *)
CallWritePoint(w) ==
  /\ writer[w] = "idle" /\ ~stopWriteWorker
  /\ calls < MaxCalls
  /\ calls' = calls + 1
  /\ writer' = [writer EXCEPT ![w] =
                 IF fundamentalErrorOccurred THEN "idle" ELSE "called"]
  /\ UNCHANGED <<writeQueue, stopWriteWorker, worker, batch, attempt,
                 errorVars, counters, accepted, overflowed, destroyed,
                 history>>

(* The fail-fast test reads the error under asyncErrorMutex_ only; the     *)
(* point it refuses is counted nowhere.                                    *)
TestFailFast(w) ==
  /\ writer[w] = "called"
  /\ writer' = [writer EXCEPT ![w] =
                 IF failFastOnAsyncError /\ asyncWriteError THEN "idle"
                                                            ELSE "push"]
  /\ UNCHANGED <<writeQueue, stopWriteWorker, worker, batch, attempt,
                 errorVars, counters, calls, accepted, overflowed, destroyed,
                 history>>

(* Under writeQueueMutex_: refuse the point when the queue is full, else   *)
(* append it.                                                              *)
EnqueueOrDrop(w) ==
  /\ writer[w] = "push"
  /\ writer' = [writer EXCEPT ![w] = "idle"]
  /\ \/ /\ Len(writeQueue) >= maxQueuePoints
        /\ pointsDropped' = pointsDropped + 1
        /\ queuedPointsDropped' = queuedPointsDropped + 1
        /\ overflowed' = overflowed + 1
        /\ UNCHANGED <<writeQueue, accepted>>
     \/ /\ Len(writeQueue) < maxQueuePoints
        /\ writeQueue' = Append(writeQueue, accepted + 1)
        /\ accepted' = accepted + 1
        /\ UNCHANGED <<pointsDropped, queuedPointsDropped, overflowed>>
  /\ UNCHANGED <<stopWriteWorker, worker, batch, attempt, errorVars,
                 pointsWritten, batchesWritten, batchWriteFailures,
                 retryAttempts, calls, destroyed, history>>

(* A history read goes through sendRequest too: a transport failure of a   *)
(* read sets the flag the write worker tests, and wakes nobody.            *)
ReadFails ==
  /\ ReadsMayFail /\ ~stopWriteWorker
  /\ fundamentalErrorOccurred' = TRUE
  /\ UNCHANGED <<writeQueue, stopWriteWorker, worker, batch, attempt,
                 errorCode, asyncWriteError, counters, callVars, destroyed,
                 history>>

-----------------------------------------------------------------------------
(***************************************************************************)
(* The worker: writeWorkerLoop, attemptSendBatch and sendWritePayload.     *)
(***************************************************************************)

(* Mutated form: a loop without condition. *)
KeepsRunningForever == TRUE

(* The condition of the loop. *)
KeepsRunning == ~fundamentalErrorOccurred

LoopTest ==
  /\ worker = "test"
  /\ worker' = IF KeepsRunning THEN "wait" ELSE "done"
  /\ UNCHANGED <<writeQueue, stopWriteWorker, batch, attempt, errorVars,
                 counters, callVars, destroyed, history>>

(* Mutated forms of the two definitions below. *)
MayLeaveAtOnce == stopWriteWorker
MayWakeForPointsOnly == writeQueue # <<>>
MayWakeForFullBatch ==
  stopWriteWorker \/ Len(writeQueue) >= maxBatchPoints

(* The worker leaves when it is stopped and nothing is left to send.       *)
MayLeave == writeQueue = <<>> /\ stopWriteWorker

(* What the predicate of wait tests.                                       *)
MayWake == stopWriteWorker \/ writeQueue # <<>>

(* The end of the critical section: leave, or pop a batch of at most       *)
(* maxBatchPoints points.                                                  *)
LeaveOrPop ==
  \/ /\ MayLeave
     /\ worker' = "done"
     /\ UNCHANGED <<writeQueue, batch, attempt, lateBatches>>
  \/ /\ ~MayLeave
     /\ LET n == IF Len(writeQueue) < maxBatchPoints THEN Len(writeQueue)
                                                     ELSE maxBatchPoints
        IN  /\ batch' = SubSeq(writeQueue, 1, n)
            /\ writeQueue' = SubSeq(writeQueue, n + 1, Len(writeQueue))
     /\ attempt' = 1
     /\ worker' = "send"
     /\ lateBatches' = IF fundamentalErrorOccurred THEN lateBatches + 1
                                                   ELSE lateBatches

(* wait returns when the worker is stopped or there is a point; a partial  *)
(* batch goes on to wait_for.                                              *)
Wake ==
  /\ worker = "wait"
  /\ MayWake
  /\ IF ~stopWriteWorker /\ Len(writeQueue) < maxBatchPoints
     THEN /\ worker' = "linger"
          /\ UNCHANGED <<writeQueue, batch, attempt, lateBatches>>
     ELSE LeaveOrPop
  /\ UNCHANGED <<stopWriteWorker, errorVars, counters, callVars, destroyed,
                 db, discarded, faults>>

(* wait_for returns at the flush interval, or earlier.                     *)
Flush ==
  /\ worker = "linger"
  /\ LeaveOrPop
  /\ UNCHANGED <<stopWriteWorker, errorVars, counters, callVars, destroyed,
                 db, discarded, faults>>

(* Requests fail at most MaxFaults times before the destructor runs, and   *)
(* any number of times after.                                              *)
MayFail == faults < MaxFaults \/ stopWriteWorker

(* The database accepts the batch. *)
PostAccepted ==
  /\ worker = "send"
  /\ db' = db \cup PointsOf(batch)
  /\ worker' = "written"
  /\ UNCHANGED <<writeQueue, stopWriteWorker, batch, attempt, errorVars,
                 counters, callVars, destroyed, discarded, faults,
                 lateBatches>>

(* The database answers with another status, which is stored first.        *)
PostRefused ==
  /\ worker = "send" /\ MayFail
  /\ \E status \in Statuses : errorCode' = status
  /\ worker' = "classify"
  /\ faults' = faults + 1
  /\ UNCHANGED <<writeQueue, stopWriteWorker, batch, attempt,
                 fundamentalErrorOccurred, asyncWriteError, counters,
                 callVars, destroyed, db, discarded, lateBatches>>

(* No answer: the batch may have been stored or not.                       *)
PostLost ==
  /\ worker = "send" /\ MayFail
  /\ db' \in {db, db \cup PointsOf(batch)}
  /\ fundamentalErrorOccurred' = TRUE
  /\ worker' = "failed"
  /\ faults' = faults + 1
  /\ UNCHANGED <<writeQueue, stopWriteWorker, batch, attempt, errorCode,
                 asyncWriteError, counters, callVars, destroyed, discarded,
                 lateBatches>>

(* curl_easy_init returns no handle: nothing is sent, no flag is set.      *)
PostNotSent ==
  /\ worker = "send" /\ MayFail
  /\ worker' = "failed"
  /\ faults' = faults + 1
  /\ UNCHANGED <<writeQueue, stopWriteWorker, batch, attempt, errorVars,
                 counters, callVars, destroyed, db, discarded, lateBatches>>

Classify ==
  /\ worker = "classify"
  /\ fundamentalErrorOccurred' =
       (fundamentalErrorOccurred \/ errorCode \in FundamentalStatuses)
  /\ worker' = "failed"
  /\ UNCHANGED <<writeQueue, stopWriteWorker, batch, attempt, errorCode,
                 asyncWriteError, counters, callVars, destroyed, history>>

(* Mutated form: the attempts counted from zero. *)
MayRetryOnceMore == attempt <= maxRetries + 1

(* attempt < maxAttempts in attemptSendBatch. *)
MayRetry == attempt < maxRetries + 1

(* attemptSendBatch tries again after a sleep, which ends with the next    *)
(* request; after the last attempt it returns false.                       *)
RetryOrGiveUp ==
  /\ worker = "failed"
  /\ \/ /\ MayRetry
        /\ retryAttempts' = retryAttempts + 1
        /\ attempt' = attempt + 1
        /\ worker' = "send"
     \/ /\ ~MayRetry
        /\ worker' = "countFailure"
        /\ UNCHANGED <<retryAttempts, attempt>>
  /\ UNCHANGED <<writeQueue, stopWriteWorker, batch, errorVars,
                 pointsWritten, pointsDropped, queuedPointsDropped,
                 batchesWritten, batchWriteFailures, callVars, destroyed,
                 history>>

(* Mutated form: the count of the write path without batching. *)
CountWrittenOnePoint ==
  /\ worker = "written"
  /\ batchesWritten' = batchesWritten + 1
  /\ pointsWritten' = pointsWritten + 1
  /\ batch' = <<>>
  /\ worker' = "clear"
  /\ UNCHANGED <<writeQueue, stopWriteWorker, attempt, errorVars,
                 pointsDropped, queuedPointsDropped, batchWriteFailures,
                 retryAttempts, callVars, destroyed, history>>

(* The batch was sent: the counters, and the batch goes out of scope. *)
CountWritten ==
  /\ worker = "written"
  /\ batchesWritten' = batchesWritten + 1
  /\ pointsWritten' = pointsWritten + Len(batch)
  /\ batch' = <<>>
  /\ worker' = "clear"
  /\ UNCHANGED <<writeQueue, stopWriteWorker, attempt, errorVars,
                 pointsDropped, queuedPointsDropped, batchWriteFailures,
                 retryAttempts, callVars, destroyed, history>>

ClearAsyncWriteError ==
  /\ worker = "clear"
  /\ asyncWriteError' = FALSE
  /\ worker' = "test"
  /\ UNCHANGED <<writeQueue, stopWriteWorker, batch, attempt,
                 fundamentalErrorOccurred, errorCode, counters, callVars,
                 destroyed, history>>

CountFailure ==
  /\ worker = "countFailure"
  /\ batchWriteFailures' = batchWriteFailures + 1
  /\ worker' = "setError"
  /\ UNCHANGED <<writeQueue, stopWriteWorker, batch, attempt, errorVars,
                 pointsWritten, pointsDropped, queuedPointsDropped,
                 batchesWritten, retryAttempts, callVars, destroyed, history>>

SetLastAsyncWriteError ==
  /\ worker = "setError"
  /\ asyncWriteError' = TRUE
  /\ worker' = "requeue"
  /\ UNCHANGED <<writeQueue, stopWriteWorker, batch, attempt,
                 fundamentalErrorOccurred, errorCode, counters, callVars,
                 destroyed, history>>

(* Mutated forms of the two definitions below. *)
HasRoomForStrict(n) == Len(writeQueue) + n < maxQueuePoints
GiveBackAtTheBack == writeQueue \o batch

(* Is there room in the queue to take a failed batch of n points back?     *)
HasRoomFor(n) == Len(writeQueue) + n <= maxQueuePoints

(* The queue once the batch has been pushed to its front, last point first. *)
GiveBack == batch \o writeQueue

(* Under writeQueueMutex_: the batch goes back to the front if it fits.    *)
RequeueOrDrop ==
  /\ worker = "requeue"
  /\ \/ /\ ~stopWriteWorker
        /\ HasRoomFor(Len(batch))
        /\ writeQueue' = GiveBack
        /\ batch' = <<>>
        /\ worker' = "test"
     \/ /\ stopWriteWorker \/ ~HasRoomFor(Len(batch))
        /\ worker' = "drop"
        /\ UNCHANGED <<writeQueue, batch>>
  /\ UNCHANGED <<stopWriteWorker, attempt, errorVars, counters, callVars,
                 destroyed, history>>

CountDropped ==
  /\ worker = "drop"
  /\ pointsDropped' = pointsDropped + Len(batch)
  /\ queuedPointsDropped' = queuedPointsDropped + Len(batch)
  /\ discarded' = discarded \cup PointsOf(batch)
  /\ batch' = <<>>
  /\ worker' = "test"
  /\ UNCHANGED <<writeQueue, stopWriteWorker, attempt, errorVars,
                 pointsWritten, batchesWritten, batchWriteFailures,
                 retryAttempts, callVars, destroyed, db, faults, lateBatches>>

Post == PostAccepted \/ PostRefused \/ PostLost \/ PostNotSent

Worker ==
  \/ LoopTest \/ Wake \/ Flush
  \/ Post \/ Classify \/ RetryOrGiveUp
  \/ CountWritten \/ ClearAsyncWriteError
  \/ CountFailure \/ SetLastAsyncWriteError
  \/ RequeueOrDrop \/ CountDropped

-----------------------------------------------------------------------------
(***************************************************************************)
(* The destructor runs when ua_uaadapter is destroyed, after the server    *)
(* thread, and with it every writer, has ended.                            *)
(***************************************************************************)
StopWorker ==
  /\ ~stopWriteWorker
  /\ \A w \in Writers : writer[w] = "idle"
  /\ stopWriteWorker' = TRUE
  /\ UNCHANGED <<writeQueue, worker, batch, attempt, errorVars, counters,
                 callVars, destroyed, history>>

JoinWorker ==
  /\ stopWriteWorker /\ ~destroyed
  /\ worker = "done"
  /\ destroyed' = TRUE
  /\ UNCHANGED <<writeQueue, stopWriteWorker, worker, batch, attempt,
                 errorVars, counters, callVars, history>>

(* A destroyed client rests: the only state in which nothing can happen.   *)
Destroyed == destroyed /\ UNCHANGED vars

WritePoint(w) == CallWritePoint(w) \/ TestFailFast(w) \/ EnqueueOrDrop(w)

Next ==
  \/ \E w \in Writers : WritePoint(w)
  \/ ReadFails
  \/ Worker
  \/ StopWorker \/ JoinWorker \/ Destroyed

Spec == Init /\ [][Next]_vars

(* The worker is a thread: it runs on whenever it can.  A call of          *)
(* writePoint that has begun ends.  Nothing forces a call, a read or the   *)
(* destructor to happen.                                                   *)
FairSpec ==
  /\ Spec
  /\ WF_vars(Worker)
  /\ \A w \in Writers : WF_vars(TestFailFast(w) \/ EnqueueOrDrop(w))
  /\ WF_vars(JoinWorker)

-----------------------------------------------------------------------------
(***************************************************************************)
(* Properties.                                                             *)
(***************************************************************************)

WorkerStates == {"test", "wait", "linger", "send", "classify", "failed",
                 "written", "clear", "countFailure", "setError", "requeue",
                 "drop", "done"}

(* The types of the variables, with the attempts of attemptSendBatch in    *)
(* their range: a batch is sent at most maxRetries + 1 times per pop.      *)
TypeOK ==
  /\ writeQueue \in Seq(Nat) /\ batch \in Seq(Nat)
  /\ stopWriteWorker \in BOOLEAN /\ destroyed \in BOOLEAN
  /\ fundamentalErrorOccurred \in BOOLEAN /\ asyncWriteError \in BOOLEAN
  /\ errorCode \in Statuses \cup {0}
  /\ worker \in WorkerStates
  /\ attempt \in 0 .. maxRetries + 1
  /\ writer \in [Writers -> {"idle", "called", "push"}]
  /\ pointsWritten \in Nat /\ pointsDropped \in Nat
  /\ queuedPointsDropped \in Nat /\ batchesWritten \in Nat
  /\ batchWriteFailures \in Nat /\ retryAttempts \in Nat
  /\ calls \in Nat /\ faults \in Nat
  /\ accepted \in Nat /\ overflowed \in Nat
  /\ db \subseteq Nat /\ discarded \subseteq Nat /\ lateBatches \in Nat

(* The queue never holds more than max_queue_points points, although the   *)
(* worker gives batches back while writers fill the room they left.        *)
QueueBounded == Len(writeQueue) <= maxQueuePoints

(* The health counters account for every point that was accepted: it is    *)
(* counted as written, counted as dropped by the worker, in the queue, or  *)
(* in the worker's hands; and never twice.                                 *)
EveryPointAccounted ==
  accepted = pointsWritten + (pointsDropped - overflowed)
               + Len(batch) + Len(writeQueue)

(* No accepted point vanishes through retries and requeueing: it is still  *)
(* in the client, in the database, or was given up by the worker.          *)
NoPointLost ==
  \A p \in 1 .. accepted :
     p \in PointsOf(writeQueue) \cup PointsOf(batch) \cup db \cup discarded

(* Failed batches go back to the front: a point reaches the database only  *)
(* after every point accepted before it did, or was given up.              *)
StoredInOrder == \A p \in db : 1 .. p \subseteq db \cup discarded

(* After a fundamental error, even one a history read met while the worker *)
(* was asleep, the worker takes at most one more batch.                    *)
AtMostOneLateBatch == lateBatches <= 1

(* Unless a fundamental error ends it early, the worker leaves only when   *)
(* it was stopped and has sent or given up everything it was entrusted.    *)
StopDrains ==
  worker = "done" /\ ~fundamentalErrorOccurred =>
    /\ stopWriteWorker
    /\ \A p \in 1 .. accepted : p \in db \cup discarded

(* With fail-fast, writers are refused while an async error is active, and *)
(* only a successful batch clears it.  So whenever the worker waits with   *)
(* the error active it has points left to try: were the queue empty,       *)
(* nothing would ever clear the error and no write be accepted again.      *)
FailFastRecoverable ==
  asyncWriteError /\ worker \in {"test", "wait", "linger"} /\ ~stopWriteWorker
    => writeQueue # <<>>

(***************************************************************************)
(* The strengthenings that make the invariants inductive.                  *)
(***************************************************************************)
WorkerSends == {"send", "classify", "failed", "written", "countFailure",
                "setError", "requeue", "drop"}

(* The worker holds points exactly between popping and settling them, and  *)
(* never more than the queue can hold.                                     *)
WorkerHoldsBatch ==
  /\ Len(batch) <= maxQueuePoints
  /\ Len(batch) <= maxBatchPoints
  /\ worker \in WorkerSends <=> Len(batch) > 0
  /\ worker = "linger" => Len(writeQueue) > 0

(* The number of accepted points that have left the client. *)
Settled == accepted - Len(batch) - Len(writeQueue)

(* Batch and queue together hold the points after the settled ones, each   *)
(* once and in the order of acceptance.                                    *)
InsideIsConsecutive ==
  /\ Settled >= 0
  /\ \A i \in 1 .. Len(batch) : batch[i] = Settled + i
  /\ \A i \in 1 .. Len(writeQueue) : writeQueue[i] = Settled + Len(batch) + i

(* What has left the client is stored or was given up. *)
SettledIsStored ==
  /\ 1 .. Settled \subseteq db \cup discarded
  /\ worker = "written" => PointsOf(batch) \subseteq db

(* Before the flag is tested again, a late batch has not been taken yet. *)
LateBatchPending ==
  /\ worker \in {"wait", "linger"} => lateBatches = 0
  /\ ~fundamentalErrorOccurred => lateBatches = 0

(* No writer is at work once the destructor runs. *)
WritersGone == stopWriteWorker => \A w \in Writers : writer[w] = "idle"

(* A batch is only dropped before the stop when the queue has points. *)
DropsBesideQueue == worker = "drop" /\ ~stopWriteWorker => Len(writeQueue) > 0

(* The worker leaves an empty queue behind unless it met an error. *)
LeavesNothing ==
  worker = "done" /\ ~fundamentalErrorOccurred =>
    stopWriteWorker /\ writeQueue = <<>>

(* The destructor's join returns, even if no request succeeds any more.    *)
JoinTerminates == stopWriteWorker ~> destroyed

(* Every accepted point is eventually stored or given up, unless a         *)
(* fundamental error ends the worker (before the destructor runs, requests *)
(* fail at most MaxFaults times: the database comes back).                 *)
EveryPointSettles ==
  \A p \in 1 .. MaxCalls :
    accepted >= p ~> p \in db \cup discarded \/ fundamentalErrorOccurred

(* An async error does not stay active once the database is back, so       *)
(* fail-fast lets writes in again.                                         *)
AsyncErrorClears ==
  asyncWriteError ~>
    ~asyncWriteError \/ fundamentalErrorOccurred \/ stopWriteWorker

(* README, "Failure Handling": a batch whose retries fail is requeued at   *)
(* the front, or its points are dropped and accounted; "Runtime Behavior": *)
(* the worker flushes queued points when they reach max_batch_points or    *)
(* flush_interval_ms expires.  So the points of a batch whose retries have *)
(* failed do not stay where they are: a later flush stores them, or they   *)
(* are dropped and counted, unless the client is destroyed before.         *)
RequeuedPointsFlushed ==
  \A p \in 1 .. MaxCalls :
    worker = "requeue" /\ p \in PointsOf(batch)
      ~> p \in db \cup discarded \/ stopWriteWorker

(* The abstract buffer: what is inside the client is the batch and then    *)
(* the queue, the rest of the accepted points has left it.                 *)
Buffer == INSTANCE WriteBuffer WITH
            Capacity <- maxBatchPoints + maxQueuePoints,
            settled <- Settled

(* The client implements the write buffer.                                 *)
ImplementsBuffer == Buffer!BufferSpec
=============================================================================
