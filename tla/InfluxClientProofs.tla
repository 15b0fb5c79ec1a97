------------------------- MODULE InfluxClientProofs --------------------------
(***************************************************************************)
(* Safety of InfluxClient for every configuration, any number of writers,  *)
(* calls and failing requests, alone and with the health nodes beside it   *)
(* (InfluxHealth).                                                         *)
(***************************************************************************)
EXTENDS InfluxHealth, SequenceTheorems, TLAPS

-----------------------------------------------------------------------------
(* Sequences of points: what popping, giving back and appending do.        *)

(* Popping n points splits the queue in two. *)
LEMMA PopSplits ==
  ASSUME NEW q \in Seq(Nat), NEW n \in 0 .. Len(q)
  PROVE  /\ SubSeq(q, 1, n) \in Seq(Nat)
         /\ Len(SubSeq(q, 1, n)) = n
         /\ \A i \in 1 .. n : SubSeq(q, 1, n)[i] = q[i]
         /\ SubSeq(q, n + 1, Len(q)) \in Seq(Nat)
         /\ Len(SubSeq(q, n + 1, Len(q))) = Len(q) - n
         /\ \A i \in 1 .. Len(q) - n : SubSeq(q, n + 1, Len(q))[i] = q[n + i]
<1>1. Len(q) \in Nat
  BY LenProperties
<1>2. 1 .. n \subseteq 1 .. Len(q)
  BY <1>1
<1>3. /\ SubSeq(q, 1, n) \in Seq(Nat)
      /\ Len(SubSeq(q, 1, n)) = n
      /\ \A i \in 1 .. n : SubSeq(q, 1, n)[i] = q[i]
  BY <1>1, SubSeqProperties
<1>4. /\ SubSeq(q, n + 1, Len(q)) \in Seq(Nat)
      /\ Len(SubSeq(q, n + 1, Len(q))) = Len(q) - n
      /\ \A i \in 1 .. Len(q) - n : SubSeq(q, n + 1, Len(q))[i] = q[n + i]
  <2> SUFFICES ASSUME NEW m \in 1 .. Len(q) + 1, NEW l \in Nat, m = n + 1, l = Len(q)
               PROVE  /\ SubSeq(q, m, l) \in Seq(Nat)
                      /\ Len(SubSeq(q, m, l)) = l - n
                      /\ \A i \in 1 .. l - n : SubSeq(q, m, l)[i] = q[n + i]
    BY <1>1
  <2>1. m..l \subseteq 1..Len(q) /\ \A i \in 1..Len(q) : q[i] \in Nat
    BY <1>1, ElementOfSeq
  <2>2. /\ SubSeq(q, m, l) \in Seq(Nat)
        /\ Len(SubSeq(q, m, l)) = IF m <= l THEN l - m + 1 ELSE 0
        /\ \A i \in 1 .. l - m + 1 : SubSeq(q, m, l)[i] = q[m + i - 1]
    BY <1>1, <2>1, SubSeqProperties
  <2>3. l - m + 1 = l - n /\ \A i \in 1 .. l - n : m + i - 1 = n + i
    BY <1>1
  <2> QED
    BY <1>1, <2>2, <2>3
<1> QED
  BY <1>3, <1>4

(* What a pop leaves and takes, when the worker does not leave.            *)
LEMMA Pop ==
  ASSUME TypeOK, LeaveOrPop, ~MayLeave
  PROVE  \E n \in 0 .. Len(writeQueue) :
           /\ n <= maxBatchPoints
           /\ writeQueue # <<>> => n > 0
           /\ batch' \in Seq(Nat) /\ writeQueue' \in Seq(Nat)
           /\ Len(batch') = n /\ Len(writeQueue') = Len(writeQueue) - n
           /\ \A i \in 1 .. n : batch'[i] = writeQueue[i]
           /\ \A i \in 1 .. Len(writeQueue') :
                writeQueue'[i] = writeQueue[n + i]
<1> DEFINE n == IF Len(writeQueue) < maxBatchPoints THEN Len(writeQueue)
                                                    ELSE maxBatchPoints
<1>1. writeQueue \in Seq(Nat) /\ Len(writeQueue) \in Nat
  BY LenProperties DEF TypeOK
<1>2. n \in 0 .. Len(writeQueue) /\ n <= maxBatchPoints
  BY <1>1, ConfigAssumption
<1>3. batch' = SubSeq(writeQueue, 1, n)
      /\ writeQueue' = SubSeq(writeQueue, n + 1, Len(writeQueue))
  BY DEF LeaveOrPop
<1>4. writeQueue # <<>> => Len(writeQueue) > 0
  BY <1>1, EmptySeq
<1>5. writeQueue # <<>> => n > 0
  BY <1>1, <1>4, ConfigAssumption
<1> HIDE DEF n
<1> QED
  BY <1>1, <1>2, <1>3, <1>5, PopSplits

-----------------------------------------------------------------------------
(* Every variable keeps its type; no batch is attempted more than          *)
(* maxRetries + 1 times.                                                   *)
THEOREM TypeCorrect == Spec => []TypeOK
<1>1. Init => TypeOK
  <2>1. <<>> \in Seq(Nat) /\ 0 \in 0 .. maxRetries + 1
    BY ConfigAssumption, EmptySeq
  <2> QED
    <3> SUFFICES ASSUME Init PROVE TypeOK
      OBVIOUS
    <3>1. writeQueue \in Seq(Nat) /\ batch \in Seq(Nat)
      BY <2>1 DEF Init
    <3>2. attempt \in 0 .. maxRetries + 1
      BY <2>1 DEF Init
    <3>3. writer \in [Writers -> {"idle", "called", "push"}]
      BY DEF Init
    <3>4. db \subseteq Nat /\ discarded \subseteq Nat
      BY DEF Init
    <3> QED
      BY <3>1, <3>2, <3>3, <3>4 DEF Init, TypeOK, WorkerStates
<1>2. TypeOK /\ [Next]_vars => TypeOK'
  <2> SUFFICES ASSUME TypeOK, [Next]_vars PROVE TypeOK'
    OBVIOUS
  <2> USE DEF vars, counters, callVars, errorVars, history
  <2>0. /\ Len(writeQueue) \in Nat /\ Len(batch) \in Nat
        /\ PointsOf(batch) \subseteq Nat
        /\ <<>> \in Seq(Nat)
    BY EmptySeq, LenProperties, ElementOfSeq DEF TypeOK, PointsOf
  <2>1. ASSUME NEW w \in Writers, CallWritePoint(w) PROVE TypeOK'
    BY <2>1 DEF CallWritePoint, TypeOK
  <2>2. ASSUME NEW w \in Writers, TestFailFast(w) PROVE TypeOK'
    BY <2>2 DEF TestFailFast, TypeOK
  <2>3. ASSUME NEW w \in Writers, EnqueueOrDrop(w) PROVE TypeOK'
    <3>1. writeQueue' \in Seq(Nat)
      <4>1. accepted + 1 \in Nat /\ writeQueue \in Seq(Nat)
        BY DEF TypeOK
      <4>2. Append(writeQueue, accepted + 1) \in Seq(Nat)
        BY <4>1, AppendProperties
      <4> QED
        BY <2>3, <4>1, <4>2 DEF EnqueueOrDrop
    <3>2. /\ accepted' \in Nat /\ overflowed' \in Nat
          /\ pointsDropped' \in Nat /\ queuedPointsDropped' \in Nat
      BY <2>3 DEF EnqueueOrDrop, TypeOK
    <3> QED
      BY <2>3, <3>1, <3>2 DEF EnqueueOrDrop, TypeOK
  <2>4. CASE ReadFails
    BY <2>4 DEF ReadFails, TypeOK
  <2>5. CASE LoopTest
    BY <2>5 DEF LoopTest, TypeOK, WorkerStates
  <2>6. CASE Wake
    <3>1. CASE LeaveOrPop /\ MayLeave
      BY <2>6, <3>1 DEF Wake, LeaveOrPop, TypeOK, WorkerStates
    <3>2. CASE LeaveOrPop /\ ~MayLeave
      <4>1. batch' \in Seq(Nat) /\ writeQueue' \in Seq(Nat)
        BY <3>2, Pop
      <4>2. lateBatches' \in Nat /\ attempt' = 1 /\ worker' = "send"
        BY <3>2 DEF LeaveOrPop, TypeOK
      <4> QED
        BY <2>6, <4>1, <4>2, ConfigAssumption DEF Wake, TypeOK, WorkerStates
    <3>3. CASE ~LeaveOrPop
      BY <2>6, <3>3 DEF Wake, TypeOK, WorkerStates
    <3> QED
      BY <3>1, <3>2, <3>3
  <2>7. CASE Flush
    <3>1. CASE LeaveOrPop /\ MayLeave
      BY <2>7, <3>1 DEF Flush, LeaveOrPop, TypeOK, WorkerStates
    <3>2. CASE LeaveOrPop /\ ~MayLeave
      <4>1. batch' \in Seq(Nat) /\ writeQueue' \in Seq(Nat)
        BY <3>2, Pop
      <4>2. lateBatches' \in Nat /\ attempt' = 1 /\ worker' = "send"
        BY <3>2 DEF LeaveOrPop, TypeOK
      <4> QED
        BY <2>7, <4>1, <4>2, ConfigAssumption DEF Flush, TypeOK, WorkerStates
    <3> QED
      BY <2>7, <3>1, <3>2 DEF Flush
  <2>8. CASE PostAccepted
    BY <2>8, <2>0 DEF PostAccepted, TypeOK, WorkerStates
  <2>9. CASE PostRefused
    BY <2>9 DEF PostRefused, TypeOK, WorkerStates
  <2>10. CASE PostLost
    BY <2>10, <2>0 DEF PostLost, TypeOK, WorkerStates
  <2>11. CASE PostNotSent
    BY <2>11 DEF PostNotSent, TypeOK, WorkerStates
  <2>12. CASE Classify
    BY <2>12 DEF Classify, TypeOK, WorkerStates
  <2>13. CASE RetryOrGiveUp
    BY <2>13, ConfigAssumption DEF RetryOrGiveUp, MayRetry, TypeOK, WorkerStates
  <2>14. CASE CountWritten
    BY <2>14, <2>0 DEF CountWritten, TypeOK, WorkerStates
  <2>15. CASE ClearAsyncWriteError
    BY <2>15 DEF ClearAsyncWriteError, TypeOK, WorkerStates
  <2>16. CASE CountFailure
    BY <2>16 DEF CountFailure, TypeOK, WorkerStates
  <2>17. CASE SetLastAsyncWriteError
    BY <2>17 DEF SetLastAsyncWriteError, TypeOK, WorkerStates
  <2>18. CASE RequeueOrDrop
    <3>1. writeQueue' \in Seq(Nat) /\ batch' \in Seq(Nat)
      <4>1. batch \o writeQueue \in Seq(Nat)
        BY ConcatProperties DEF TypeOK
      <4> QED
        BY <2>0, <2>18, <4>1 DEF RequeueOrDrop, GiveBack, TypeOK
    <3> QED
      BY <2>18, <3>1 DEF RequeueOrDrop, TypeOK, WorkerStates
  <2>19. CASE CountDropped
    <3>1. pointsDropped' \in Nat /\ queuedPointsDropped' \in Nat
      BY <2>0, <2>19 DEF CountDropped, TypeOK
    <3>2. discarded' \subseteq Nat
      BY <2>0, <2>19 DEF CountDropped, TypeOK
    <3>3. batch' \in Seq(Nat)
      BY <2>0, <2>19 DEF CountDropped
    <3> QED
      BY <2>19, <3>1, <3>2, <3>3 DEF CountDropped, TypeOK, WorkerStates
  <2>20. CASE StopWorker
    BY <2>20 DEF StopWorker, TypeOK, WorkerStates
  <2>21. CASE JoinWorker
    BY <2>21 DEF JoinWorker, TypeOK, WorkerStates
  <2>22. CASE UNCHANGED vars
    BY <2>22 DEF TypeOK
  <2> QED
    BY <2>1, <2>2, <2>3, <2>4, <2>5, <2>6, <2>7, <2>8, <2>9, <2>10, <2>11, <2>12, <2>13, <2>14, <2>15, <2>16, <2>17, <2>18, <2>19, <2>20, <2>21, <2>22
       DEF Next, WritePoint, Worker, Post, Destroyed
<1> QED
  BY <1>1, <1>2, PTL DEF Spec

-----------------------------------------------------------------------------
(* Lengths, as naturals, and emptiness.                                    *)
LEMMA Lengths ==
  ASSUME TypeOK
  PROVE  /\ Len(writeQueue) \in Nat /\ Len(batch) \in Nat
         /\ Len(<<>>) = 0
         /\ writeQueue = <<>> <=> Len(writeQueue) = 0
         /\ batch = <<>> <=> Len(batch) = 0
BY LenProperties, EmptySeq DEF TypeOK

(* What the critical sections of writeQueueMutex_ do to the lengths.       *)
LEMMA EnqueueLengths ==
  ASSUME TypeOK, NEW w \in Writers, EnqueueOrDrop(w)
  PROVE  \/ /\ Len(writeQueue) < maxQueuePoints
            /\ Len(writeQueue') = Len(writeQueue) + 1
            /\ accepted' = accepted + 1
            /\ UNCHANGED <<pointsDropped, overflowed>>
         \/ /\ pointsDropped' = pointsDropped + 1
            /\ overflowed' = overflowed + 1
            /\ UNCHANGED <<writeQueue, accepted>>
<1>1. writeQueue \in Seq(Nat) /\ accepted + 1 \in Nat
  BY DEF TypeOK
<1>2. Len(Append(writeQueue, accepted + 1)) = Len(writeQueue) + 1
  BY <1>1, AppendProperties
<1> QED
  BY <1>2 DEF EnqueueOrDrop

(* Giving a failed batch back adds its points to the queue or leaves both.  *)
LEMMA RequeueLengths ==
  ASSUME TypeOK, RequeueOrDrop
  PROVE  \/ /\ ~stopWriteWorker /\ HasRoomFor(Len(batch))
            /\ Len(writeQueue') = Len(batch) + Len(writeQueue)
            /\ batch' = <<>> /\ worker' = "test"
         \/ /\ stopWriteWorker \/ ~HasRoomFor(Len(batch))
            /\ writeQueue' = writeQueue /\ batch' = batch
            /\ worker' = "drop"
<1>1. Len(batch \o writeQueue) = Len(batch) + Len(writeQueue)
  BY ConcatProperties DEF TypeOK
<1> QED
  BY <1>1 DEF RequeueOrDrop, GiveBack

-----------------------------------------------------------------------------
(* The queue keeps its bound although the worker gives batches back, and   *)
(* the worker holds points exactly while it sends or settles them.         *)
THEOREM QueueStaysBounded == Spec => [](QueueBounded /\ WorkerHoldsBatch)
<1> DEFINE I == QueueBounded /\ WorkerHoldsBatch
<1>1. Init => I
  BY ConfigAssumption, EmptySeq
     DEF Init, QueueBounded, WorkerHoldsBatch, WorkerSends
<1>2. TypeOK /\ I /\ [Next]_vars => I'
  <2> SUFFICES ASSUME TypeOK, I, [Next]_vars PROVE I'
    OBVIOUS
  <2> USE DEF vars, counters, callVars, errorVars, history,
              QueueBounded, WorkerHoldsBatch, WorkerSends
  <2>0. /\ Len(writeQueue) \in Nat /\ Len(batch) \in Nat /\ Len(<<>>) = 0
        /\ maxQueuePoints \in Nat /\ maxBatchPoints \in Nat
        /\ maxQueuePoints > 0 /\ maxBatchPoints > 0
        /\ writeQueue = <<>> <=> Len(writeQueue) = 0
    BY Lengths, ConfigAssumption
  <2>1. ASSUME NEW w \in Writers, CallWritePoint(w) PROVE I'
    BY <2>1 DEF CallWritePoint
  <2>2. ASSUME NEW w \in Writers, TestFailFast(w) PROVE I'
    BY <2>2 DEF TestFailFast
  <2>3. ASSUME NEW w \in Writers, EnqueueOrDrop(w) PROVE I'
    <3>1. UNCHANGED <<batch, worker>>
      BY <2>3 DEF EnqueueOrDrop
    <3> QED
      BY <2>0, <2>3, <3>1, EnqueueLengths
  <2>4. CASE ReadFails
    BY <2>4 DEF ReadFails
  <2>pop. ASSUME LeaveOrPop, ~MayLeave, MayWake \/ writeQueue # <<>>
          PROVE  I'
    <3>1. writeQueue # <<>>
      BY <2>pop DEF MayLeave, MayWake
    <3>2. /\ Len(batch') > 0 /\ Len(batch') <= Len(writeQueue)
          /\ Len(batch') <= maxBatchPoints
          /\ Len(writeQueue') = Len(writeQueue) - Len(batch')
          /\ Len(batch') \in Nat
      BY <2>0, <2>pop, <3>1, Pop
    <3>3. worker' = "send"
      BY <2>pop DEF LeaveOrPop
    <3> QED
      BY <2>0, <3>2, <3>3
  <2>5. CASE LoopTest
    BY <2>5 DEF LoopTest
  <2>6. CASE Wake
    <3>1. CASE LeaveOrPop /\ MayLeave
      BY <2>6, <3>1 DEF Wake, LeaveOrPop
    <3>2. CASE LeaveOrPop /\ ~MayLeave
      BY <2>6, <3>2, <2>pop DEF Wake
    <3>3. CASE ~LeaveOrPop
      BY <2>0, <2>6, <3>3 DEF Wake, MayWake
    <3> QED
      BY <3>1, <3>2, <3>3
  <2>7. CASE Flush
    <3>1. CASE MayLeave
      BY <2>7, <3>1 DEF Flush, LeaveOrPop
    <3>2. CASE ~MayLeave
      BY <2>0, <2>7, <3>2, <2>pop DEF Flush
    <3> QED
      BY <3>1, <3>2
  <2>8. CASE PostAccepted
    BY <2>8 DEF PostAccepted
  <2>9. CASE PostRefused
    BY <2>9 DEF PostRefused
  <2>10. CASE PostLost
    BY <2>10 DEF PostLost
  <2>11. CASE PostNotSent
    BY <2>11 DEF PostNotSent
  <2>12. CASE Classify
    BY <2>12 DEF Classify
  <2>13. CASE RetryOrGiveUp
    BY <2>13 DEF RetryOrGiveUp
  <2>14. CASE CountWritten
    BY <2>0, <2>14 DEF CountWritten
  <2>15. CASE ClearAsyncWriteError
    BY <2>15 DEF ClearAsyncWriteError
  <2>16. CASE CountFailure
    BY <2>0, <2>16 DEF CountFailure
  <2>17. CASE SetLastAsyncWriteError
    BY <2>17 DEF SetLastAsyncWriteError
  <2>18. CASE RequeueOrDrop
    BY <2>0, <2>18, RequeueLengths DEF RequeueOrDrop, HasRoomFor
  <2>19. CASE CountDropped
    BY <2>0, <2>19 DEF CountDropped
  <2>20. CASE StopWorker
    BY <2>20 DEF StopWorker
  <2>21. CASE JoinWorker
    BY <2>21 DEF JoinWorker
  <2>22. CASE UNCHANGED vars
    BY <2>22
  <2> QED
    BY <2>1, <2>2, <2>3, <2>4, <2>5, <2>6, <2>7, <2>8, <2>9, <2>10, <2>11, <2>12, <2>13, <2>14, <2>15, <2>16, <2>17, <2>18, <2>19, <2>20, <2>21, <2>22
       DEF Next, WritePoint, Worker, Post, Destroyed
<1> QED
  BY <1>1, <1>2, TypeCorrect, PTL DEF Spec

-----------------------------------------------------------------------------
(* The health counters and the two containers account for every accepted   *)
(* point exactly once.                                                     *)
THEOREM AccountsForEveryPoint == Spec => [](EveryPointAccounted)
<1> DEFINE I == EveryPointAccounted
<1>1. Init => I
  BY EmptySeq DEF Init, EveryPointAccounted
<1>2. TypeOK /\ WorkerHoldsBatch /\ I /\ [Next]_vars => I'
  <2> SUFFICES ASSUME TypeOK, WorkerHoldsBatch, I, [Next]_vars PROVE I'
    OBVIOUS
  <2> USE DEF vars, counters, callVars, errorVars, history,
              EveryPointAccounted
  <2>0. /\ Len(writeQueue) \in Nat /\ Len(batch) \in Nat /\ Len(<<>>) = 0
        /\ accepted \in Nat /\ overflowed \in Nat
        /\ pointsWritten \in Nat /\ pointsDropped \in Nat
    BY Lengths DEF TypeOK
  <2>pop. ASSUME LeaveOrPop, ~MayLeave, worker \in {"wait", "linger"},
                 UNCHANGED <<counters, callVars>>
          PROVE  I'
    <3>1. /\ Len(writeQueue') = Len(writeQueue) - Len(batch')
          /\ Len(batch') \in Nat
      BY <2>0, <2>pop, Pop
    <3>2. Len(batch) = 0
      BY <2>0, <2>pop DEF WorkerHoldsBatch, WorkerSends
    <3> QED
      BY <2>0, <2>pop, <3>1, <3>2
  <2>1. ASSUME NEW w \in Writers, CallWritePoint(w) PROVE I'
    BY <2>1 DEF CallWritePoint
  <2>2. ASSUME NEW w \in Writers, TestFailFast(w) PROVE I'
    BY <2>2 DEF TestFailFast
  <2>3. ASSUME NEW w \in Writers, EnqueueOrDrop(w) PROVE I'
    <3>1. /\ pointsWritten' = pointsWritten
          /\ batch' = batch
      BY <2>3 DEF EnqueueOrDrop
    <3>2. \/ /\ Len(writeQueue') = Len(writeQueue) + 1 /\ accepted' = accepted + 1
             /\ UNCHANGED <<pointsDropped, overflowed>>
          \/ /\ pointsDropped' = pointsDropped + 1 /\ overflowed' = overflowed + 1
             /\ UNCHANGED <<writeQueue, accepted>>
      BY <2>3, EnqueueLengths, Zenon
    <3>3. CASE /\ Len(writeQueue') = Len(writeQueue) + 1 /\ accepted' = accepted + 1
               /\ pointsDropped' = pointsDropped /\ overflowed' = overflowed
      BY <2>0, <3>1, <3>3
    <3>4. CASE /\ pointsDropped' = pointsDropped + 1 /\ overflowed' = overflowed + 1
               /\ writeQueue' = writeQueue /\ accepted' = accepted
      BY <2>0, <3>1, <3>4
    <3> QED
      BY <3>2, <3>3, <3>4
  <2>4. CASE ReadFails
    BY <2>4 DEF ReadFails
  <2>5. CASE LoopTest
    BY <2>5 DEF LoopTest
  <2>6. CASE Wake
    <3>1. CASE LeaveOrPop /\ MayLeave
      BY <2>6, <3>1 DEF Wake, LeaveOrPop
    <3>2. CASE LeaveOrPop /\ ~MayLeave
      BY <2>0, <2>6, <3>2, <2>pop DEF Wake
    <3>3. CASE ~LeaveOrPop
      BY <2>6, <3>3 DEF Wake
    <3> QED
      BY <3>1, <3>2, <3>3
  <2>7. CASE Flush
    <3>1. CASE LeaveOrPop /\ MayLeave
      BY <2>7, <3>1 DEF Flush, LeaveOrPop
    <3>2. CASE LeaveOrPop /\ ~MayLeave
      BY <2>0, <2>7, <3>2, <2>pop DEF Flush
    <3> QED
      BY <2>7, <3>1, <3>2 DEF Flush
  <2>8. CASE PostAccepted
    BY <2>8 DEF PostAccepted
  <2>9. CASE PostRefused
    BY <2>9 DEF PostRefused
  <2>10. CASE PostLost
    BY <2>10 DEF PostLost
  <2>11. CASE PostNotSent
    BY <2>11 DEF PostNotSent
  <2>12. CASE Classify
    BY <2>12 DEF Classify
  <2>13. CASE RetryOrGiveUp
    BY <2>13 DEF RetryOrGiveUp
  <2>14. CASE CountWritten
    BY <2>0, <2>14 DEF CountWritten
  <2>15. CASE ClearAsyncWriteError
    BY <2>15 DEF ClearAsyncWriteError
  <2>16. CASE CountFailure
    BY <2>16 DEF CountFailure
  <2>17. CASE SetLastAsyncWriteError
    BY <2>17 DEF SetLastAsyncWriteError
  <2>18. CASE RequeueOrDrop
    BY <2>0, <2>18, RequeueLengths DEF RequeueOrDrop
  <2>19. CASE CountDropped
    BY <2>0, <2>19 DEF CountDropped
  <2>20. CASE StopWorker
    BY <2>20 DEF StopWorker
  <2>21. CASE JoinWorker
    BY <2>21 DEF JoinWorker
  <2>22. CASE UNCHANGED vars
    BY <2>22
  <2> QED
    BY <2>1, <2>2, <2>3, <2>4, <2>5, <2>6, <2>7, <2>8, <2>9, <2>10, <2>11, <2>12,
       <2>13, <2>14, <2>15, <2>16, <2>17, <2>18, <2>19, <2>20, <2>21, <2>22
       DEF Next, WritePoint, Worker, Post, Destroyed
<1> QED
  BY <1>1, <1>2, TypeCorrect, QueueStaysBounded, PTL DEF Spec

(* After a fundamental error the worker takes at most one more batch.      *)
THEOREM LateBatchOnce == Spec => [](AtMostOneLateBatch)
<1> DEFINE I == AtMostOneLateBatch /\ LateBatchPending
<1>1. Init => I
  BY DEF Init, AtMostOneLateBatch, LateBatchPending
<1>2. TypeOK /\ I /\ [Next]_vars => I'
  <2> SUFFICES ASSUME TypeOK, I, [Next]_vars PROVE I'
    OBVIOUS
  <2> USE DEF vars, counters, callVars, errorVars, history,
              AtMostOneLateBatch, LateBatchPending
  <2>0. lateBatches \in Nat
    BY DEF TypeOK
  <2>pop. ASSUME LeaveOrPop, worker \in {"wait", "linger"},
                 UNCHANGED fundamentalErrorOccurred
          PROVE  I'
    BY <2>0, <2>pop DEF LeaveOrPop
  <2>1. ASSUME NEW w \in Writers, CallWritePoint(w) PROVE I'
    BY <2>1 DEF CallWritePoint
  <2>2. ASSUME NEW w \in Writers, TestFailFast(w) PROVE I'
    BY <2>2 DEF TestFailFast
  <2>3. ASSUME NEW w \in Writers, EnqueueOrDrop(w) PROVE I'
    BY <2>3 DEF EnqueueOrDrop
  <2>4. CASE ReadFails
    BY <2>4 DEF ReadFails
  <2>5. CASE LoopTest
    BY <2>5 DEF LoopTest, KeepsRunning
  <2>6. CASE Wake
    <3>1. CASE LeaveOrPop
      BY <2>6, <3>1, <2>pop DEF Wake
    <3>2. CASE ~LeaveOrPop
      BY <2>6, <3>2 DEF Wake
    <3> QED
      BY <3>1, <3>2
  <2>7. CASE Flush
    BY <2>7, <2>pop DEF Flush
  <2>8. CASE PostAccepted
    BY <2>8 DEF PostAccepted
  <2>9. CASE PostRefused
    BY <2>9 DEF PostRefused
  <2>10. CASE PostLost
    BY <2>10 DEF PostLost
  <2>11. CASE PostNotSent
    BY <2>11 DEF PostNotSent
  <2>12. CASE Classify
    BY <2>12 DEF Classify
  <2>13. CASE RetryOrGiveUp
    BY <2>13 DEF RetryOrGiveUp
  <2>14. CASE CountWritten
    BY <2>14 DEF CountWritten
  <2>15. CASE ClearAsyncWriteError
    BY <2>15 DEF ClearAsyncWriteError
  <2>16. CASE CountFailure
    BY <2>16 DEF CountFailure
  <2>17. CASE SetLastAsyncWriteError
    BY <2>17 DEF SetLastAsyncWriteError
  <2>18. CASE RequeueOrDrop
    BY <2>18 DEF RequeueOrDrop
  <2>19. CASE CountDropped
    BY <2>19 DEF CountDropped
  <2>20. CASE StopWorker
    BY <2>20 DEF StopWorker
  <2>21. CASE JoinWorker
    BY <2>21 DEF JoinWorker
  <2>22. CASE UNCHANGED vars
    BY <2>22
  <2> QED
    BY <2>1, <2>2, <2>3, <2>4, <2>5, <2>6, <2>7, <2>8, <2>9, <2>10, <2>11, <2>12,
       <2>13, <2>14, <2>15, <2>16, <2>17, <2>18, <2>19, <2>20, <2>21, <2>22
       DEF Next, WritePoint, Worker, Post, Destroyed
<1> QED
  BY <1>1, <1>2, TypeCorrect, PTL DEF Spec

(* Fail-fast never wedges: while the error is active, the waiting worker   *)
(* has points to try.  And a worker that no fundamental error ended leaves *)
(* an empty queue.                                                         *)
THEOREM FailFastAlwaysRecoverable == Spec => [](FailFastRecoverable /\ LeavesNothing)
<1> DEFINE I == WritersGone /\ DropsBesideQueue /\ FailFastRecoverable /\ LeavesNothing
<1>1. Init => I
  BY DEF Init, WritersGone, DropsBesideQueue, FailFastRecoverable,
         LeavesNothing
<1>2. TypeOK /\ QueueBounded /\ WorkerHoldsBatch /\ I /\ [Next]_vars => I'
  <2> SUFFICES ASSUME TypeOK, QueueBounded, WorkerHoldsBatch, I, [Next]_vars PROVE I'
    OBVIOUS
  <2> USE DEF vars, counters, callVars, errorVars, history,
              WritersGone, DropsBesideQueue, FailFastRecoverable,
              LeavesNothing, WorkerHoldsBatch, WorkerSends, QueueBounded
  <2>0. /\ Len(writeQueue) \in Nat /\ Len(batch) \in Nat /\ Len(<<>>) = 0
        /\ maxQueuePoints \in Nat
        /\ writeQueue = <<>> <=> Len(writeQueue) = 0
    BY Lengths, ConfigAssumption
  <2>1. ASSUME NEW w \in Writers, CallWritePoint(w) PROVE I'
    BY <2>1 DEF CallWritePoint
  <2>2. ASSUME NEW w \in Writers, TestFailFast(w) PROVE I'
    BY <2>2 DEF TestFailFast
  <2>3. ASSUME NEW w \in Writers, EnqueueOrDrop(w) PROVE I'
    <3>1. UNCHANGED <<worker, stopWriteWorker, asyncWriteError,
                      fundamentalErrorOccurred>>
          /\ ~stopWriteWorker
      BY <2>3 DEF EnqueueOrDrop
    <3>2. CASE Len(writeQueue') = Len(writeQueue) + 1
      BY <2>0, <3>1, <3>2
    <3>3. CASE writeQueue' = writeQueue
      BY <3>1, <3>3
    <3> QED
      BY <2>3, <3>2, <3>3, EnqueueLengths
  <2>4. CASE ReadFails
    BY <2>4 DEF ReadFails
  <2>5. CASE LoopTest
    BY <2>5 DEF LoopTest, KeepsRunning
  <2>6. CASE Wake
    <3>1. CASE LeaveOrPop
      BY <2>6, <3>1 DEF Wake, LeaveOrPop, MayLeave
    <3>2. CASE ~LeaveOrPop
      BY <2>6, <3>2 DEF Wake
    <3> QED
      BY <3>1, <3>2
  <2>7. CASE Flush
    BY <2>7 DEF Flush, LeaveOrPop, MayLeave
  <2>8. CASE PostAccepted
    BY <2>8 DEF PostAccepted
  <2>9. CASE PostRefused
    BY <2>9 DEF PostRefused
  <2>10. CASE PostLost
    BY <2>10 DEF PostLost
  <2>11. CASE PostNotSent
    BY <2>11 DEF PostNotSent
  <2>12. CASE Classify
    BY <2>12 DEF Classify
  <2>13. CASE RetryOrGiveUp
    BY <2>13 DEF RetryOrGiveUp
  <2>14. CASE CountWritten
    BY <2>14 DEF CountWritten
  <2>15. CASE ClearAsyncWriteError
    BY <2>15 DEF ClearAsyncWriteError
  <2>16. CASE CountFailure
    BY <2>16 DEF CountFailure
  <2>17. CASE SetLastAsyncWriteError
    BY <2>17 DEF SetLastAsyncWriteError
  <2>18. CASE RequeueOrDrop
    <3>1. CASE /\ ~stopWriteWorker /\ Len(writeQueue') > 0
               /\ worker' = "test"
      <4>1. writeQueue' # <<>>
        BY <2>0, <3>1
      <4> QED
        BY <2>18, <3>1, <4>1 DEF RequeueOrDrop
    <3>2. CASE /\ stopWriteWorker \/ Len(writeQueue) > 0
               /\ writeQueue' = writeQueue /\ worker' = "drop"
      BY <2>18, <3>2 DEF RequeueOrDrop
    <3> QED
      BY <2>0, <2>18, <3>1, <3>2, RequeueLengths DEF RequeueOrDrop, HasRoomFor
  <2>19. CASE CountDropped
    BY <2>0, <2>19 DEF CountDropped
  <2>20. CASE StopWorker
    BY <2>20 DEF StopWorker
  <2>21. CASE JoinWorker
    BY <2>21 DEF JoinWorker
  <2>22. CASE UNCHANGED vars
    BY <2>22
  <2> QED
    BY <2>1, <2>2, <2>3, <2>4, <2>5, <2>6, <2>7, <2>8, <2>9, <2>10, <2>11, <2>12,
       <2>13, <2>14, <2>15, <2>16, <2>17, <2>18, <2>19, <2>20, <2>21, <2>22
       DEF Next, WritePoint, Worker, Post, Destroyed
<1> QED
  BY <1>1, <1>2, TypeCorrect, QueueStaysBounded, PTL DEF Spec

-----------------------------------------------------------------------------
(* Order: what the client holds follows what has left it.                  *)

(* The points in the worker's hands are the first ones not settled.        *)
LEMMA BatchPoints ==
  ASSUME TypeOK, InsideIsConsecutive
  PROVE  /\ Settled \in Nat
         /\ PointsOf(batch) = Settled + 1 .. Settled + Len(batch)
<1>1. /\ Len(batch) \in Nat /\ DOMAIN batch = 1 .. Len(batch)
      /\ Len(writeQueue) \in Nat /\ accepted \in Nat
  BY LenProperties DEF TypeOK
<1>2. Settled \in Nat
  BY <1>1 DEF Settled, InsideIsConsecutive
<1>3. ASSUME NEW i \in 1 .. Len(batch) PROVE batch[i] = Settled + i
  BY <1>3 DEF InsideIsConsecutive
<1>4. ASSUME NEW p \in Settled + 1 .. Settled + Len(batch)
      PROVE  p \in PointsOf(batch)
  <2>1. p - Settled \in 1 .. Len(batch)
    BY <1>1, <1>2
  <2>2. batch[p - Settled] = p
    BY <1>2, <1>3, <2>1
  <2> QED
    BY <1>1, <2>1, <2>2 DEF PointsOf
<1>5. PointsOf(batch) \subseteq Settled + 1 .. Settled + Len(batch)
  BY <1>1, <1>2, <1>3 DEF PointsOf
<1> QED
  BY <1>2, <1>4, <1>5

(* Points reach the database and leave the client in the order in which    *)
(* they were accepted.                                                     *)
THEOREM PointsStayInOrder ==
  Spec => [](InsideIsConsecutive /\ SettledIsStored /\ StoredInOrder)
<1> DEFINE I == InsideIsConsecutive /\ SettledIsStored /\ StoredInOrder
<1>1. Init => I
  BY EmptySeq
     DEF Init, InsideIsConsecutive, SettledIsStored, StoredInOrder, Settled
<1>2. TypeOK /\ WorkerHoldsBatch /\ I /\ [Next]_vars => I'
  <2> SUFFICES ASSUME TypeOK, WorkerHoldsBatch, I, [Next]_vars PROVE I'
    OBVIOUS
  <2> USE DEF vars, counters, callVars, errorVars, history
  <2>0. /\ Len(writeQueue) \in Nat /\ Len(batch) \in Nat /\ Len(<<>>) = 0
        /\ Settled \in Nat /\ accepted \in Nat
        /\ PointsOf(batch) = Settled + 1 .. Settled + Len(batch)
    BY Lengths, BatchPoints DEF TypeOK
  (* A step that leaves the points where they are. *)
  <2>same. ASSUME UNCHANGED <<writeQueue, batch, accepted, db, discarded>>,
                  worker' # "written" \/ worker' = worker
           PROVE  I'
    BY <2>same DEF InsideIsConsecutive, SettledIsStored, StoredInOrder, Settled
  (* The database stores the batch. *)
  <2>store. ASSUME UNCHANGED <<writeQueue, batch, accepted, discarded>>,
                   db' = db \cup PointsOf(batch)
            PROVE  I'
    <3>1. Settled' = Settled /\ InsideIsConsecutive'
      BY <2>store DEF InsideIsConsecutive, Settled
    <3>2. SettledIsStored'
      BY <2>store, <3>1 DEF SettledIsStored
    <3>3. ASSUME NEW p \in db' PROVE 1 .. p \subseteq db' \cup discarded'
      <4>1. CASE p \in db
        BY <2>store, <4>1 DEF StoredInOrder
      <4>2. CASE p \in PointsOf(batch)
        <5>1. 1 .. p \subseteq (1 .. Settled) \cup PointsOf(batch)
          BY <2>0, <4>2
        <5> QED
          BY <2>store, <5>1 DEF SettledIsStored
      <4> QED
        BY <2>store, <4>1, <4>2
    <3> QED
      BY <3>1, <3>2, <3>3 DEF StoredInOrder
  (* The batch, stored or given up, is settled. *)
  <2>settle. ASSUME UNCHANGED <<writeQueue, accepted, db>>, batch' = <<>>,
                    worker' # "written",
                    discarded \subseteq discarded',
                    PointsOf(batch) \subseteq db \cup discarded'
             PROVE  I'
    <3>1. Settled' = Settled + Len(batch) /\ Len(batch') = 0
      BY <2>0, <2>settle DEF Settled
    <3>2. InsideIsConsecutive'
      BY <2>0, <2>settle, <3>1 DEF InsideIsConsecutive
    <3>3. 1 .. Settled' = (1 .. Settled) \cup PointsOf(batch)
      BY <2>0, <3>1
    <3>4. SettledIsStored'
      BY <2>settle, <3>3 DEF SettledIsStored
    <3> QED
      BY <2>settle, <3>2, <3>4 DEF StoredInOrder
  (* The worker pops a batch. *)
  <2>pop. ASSUME LeaveOrPop, ~MayLeave, worker \in {"wait", "linger"},
                 UNCHANGED <<accepted, db, discarded>>, worker' # "written"
          PROVE  I'
    <3>1. Len(batch) = 0
      BY <2>0, <2>pop DEF WorkerHoldsBatch, WorkerSends
    <3>2. PICK n \in 0 .. Len(writeQueue) :
             /\ Len(batch') = n /\ Len(writeQueue') = Len(writeQueue) - n
             /\ \A i \in 1 .. n : batch'[i] = writeQueue[i]
             /\ \A i \in 1 .. Len(writeQueue') :
                  writeQueue'[i] = writeQueue[n + i]
      BY <2>pop, Pop
    <3>3. Settled' = Settled
      BY <2>0, <2>pop, <3>1, <3>2 DEF Settled
    <3>4. \A i \in 1 .. Len(batch') : batch'[i] = Settled' + i
      BY <2>0, <3>1, <3>2, <3>3 DEF InsideIsConsecutive
    <3>5. ASSUME NEW i \in 1 .. Len(writeQueue')
          PROVE  writeQueue'[i] = Settled' + Len(batch') + i
      <4>1. n + i \in 1 .. Len(writeQueue)
        BY <2>0, <3>2
      <4>2. writeQueue[n + i] = Settled + Len(batch) + (n + i)
        BY <4>1 DEF InsideIsConsecutive
      <4> QED
        BY <2>0, <3>1, <3>2, <3>3, <4>2
    <3>6. InsideIsConsecutive'
      BY <2>0, <3>3, <3>4, <3>5 DEF InsideIsConsecutive
    <3> QED
      BY <2>pop, <3>3, <3>6 DEF SettledIsStored, StoredInOrder
  <2>1. ASSUME NEW w \in Writers, CallWritePoint(w) PROVE I'
    BY <2>1, <2>same DEF CallWritePoint
  <2>2. ASSUME NEW w \in Writers, TestFailFast(w) PROVE I'
    BY <2>2, <2>same DEF TestFailFast
  <2>3. ASSUME NEW w \in Writers, EnqueueOrDrop(w) PROVE I'
    <3>1. UNCHANGED <<batch, worker, db, discarded>>
      BY <2>3 DEF EnqueueOrDrop
    <3>2. CASE UNCHANGED <<writeQueue, accepted>>
      BY <3>1, <3>2, <2>same
    <3>3. CASE /\ writeQueue' = Append(writeQueue, accepted + 1)
               /\ accepted' = accepted + 1
      <4>1. /\ Len(writeQueue') = Len(writeQueue) + 1
            /\ writeQueue'[Len(writeQueue) + 1] = accepted + 1
            /\ \A i \in 1 .. Len(writeQueue) : writeQueue'[i] = writeQueue[i]
        BY <2>0, <3>3, AppendProperties DEF TypeOK
      <4>2. Settled' = Settled
        BY <2>0, <3>1, <3>3, <4>1 DEF Settled
      <4>3. accepted = Settled + Len(batch) + Len(writeQueue)
        BY <2>0 DEF Settled
      <4>4. ASSUME NEW i \in 1 .. Len(writeQueue')
            PROVE  writeQueue'[i] = Settled' + Len(batch') + i
        <5>1. CASE i \in 1 .. Len(writeQueue)
          BY <3>1, <4>1, <4>2, <5>1 DEF InsideIsConsecutive
        <5>2. CASE i = Len(writeQueue) + 1
          BY <2>0, <3>1, <4>1, <4>2, <4>3, <5>2
        <5> QED
          BY <2>0, <4>1, <5>1, <5>2
      <4>5. InsideIsConsecutive'
        BY <2>0, <3>1, <4>2, <4>4 DEF InsideIsConsecutive
      <4> QED
        BY <3>1, <4>2, <4>5 DEF SettledIsStored, StoredInOrder
    <3> QED
      BY <2>3, <3>2, <3>3 DEF EnqueueOrDrop
  <2>4. CASE ReadFails
    BY <2>4, <2>same DEF ReadFails
  <2>5. CASE LoopTest
    <3>1. UNCHANGED <<writeQueue, batch, accepted, db, discarded>>
      BY <2>5 DEF LoopTest
    <3>2. worker' # "written"
      BY <2>5 DEF LoopTest
    <3> QED
      BY <3>1, <3>2, <2>same
  <2>6. CASE Wake
    <3>0. CASE ~LeaveOrPop
      <4>1. UNCHANGED <<writeQueue, batch, accepted, db, discarded>>
            /\ worker' # "written"
        BY <2>6, <3>0 DEF Wake
      <4> QED
        BY <4>1, <2>same
    <3>1. CASE LeaveOrPop /\ MayLeave
      <4>1. UNCHANGED <<writeQueue, batch, accepted, db, discarded>>
            /\ worker' # "written"
        BY <2>6, <3>1 DEF Wake, LeaveOrPop
      <4> QED
        BY <4>1, <2>same
    <3>2. CASE LeaveOrPop /\ ~MayLeave
      BY <2>6, <3>2, <2>pop DEF Wake, LeaveOrPop
    <3> QED
      BY <3>0, <3>1, <3>2
  <2>7. CASE Flush
    <3>1. CASE MayLeave
      <4>1. UNCHANGED <<writeQueue, batch, accepted, db, discarded>>
            /\ worker' # "written"
        BY <2>7, <3>1 DEF Flush, LeaveOrPop
      <4> QED
        BY <4>1, <2>same
    <3>2. CASE LeaveOrPop /\ ~MayLeave
      BY <2>7, <3>2, <2>pop DEF Flush, LeaveOrPop
    <3> QED
      BY <2>7, <3>1, <3>2 DEF Flush
  <2>8. CASE PostAccepted
    <3>1. /\ UNCHANGED <<writeQueue, batch, accepted, discarded>>
          /\ db' = db \cup PointsOf(batch)
      BY <2>8 DEF PostAccepted
    <3> QED
      BY <3>1, <2>store
  <2>9. CASE PostRefused
    <3>1. UNCHANGED <<writeQueue, batch, accepted, db, discarded>>
      BY <2>9 DEF PostRefused
    <3>2. worker' # "written"
      BY <2>9 DEF PostRefused
    <3> QED
      BY <3>1, <3>2, <2>same
  <2>10. CASE PostLost
    <3>1. /\ UNCHANGED <<writeQueue, batch, accepted, discarded>>
          /\ db' = db \/ db' = db \cup PointsOf(batch)
          /\ worker' # "written"
      BY <2>10 DEF PostLost
    <3> QED
      BY <3>1, <2>same, <2>store
  <2>11. CASE PostNotSent
    <3>1. UNCHANGED <<writeQueue, batch, accepted, db, discarded>>
      BY <2>11 DEF PostNotSent
    <3>2. worker' # "written"
      BY <2>11 DEF PostNotSent
    <3> QED
      BY <3>1, <3>2, <2>same
  <2>12. CASE Classify
    <3>1. UNCHANGED <<writeQueue, batch, accepted, db, discarded>>
      BY <2>12 DEF Classify
    <3>2. worker' # "written"
      BY <2>12 DEF Classify
    <3> QED
      BY <3>1, <3>2, <2>same
  <2>13. CASE RetryOrGiveUp
    <3>1. UNCHANGED <<writeQueue, batch, accepted, db, discarded>>
      BY <2>13 DEF RetryOrGiveUp
    <3>2. worker' # "written"
      BY <2>13 DEF RetryOrGiveUp
    <3> QED
      BY <3>1, <3>2, <2>same
  <2>14. CASE CountWritten
    <3>1. /\ UNCHANGED <<writeQueue, accepted, db, discarded>>
          /\ batch' = <<>> /\ worker' # "written"
      BY <2>14 DEF CountWritten
    <3>2. PointsOf(batch) \subseteq db
      BY <2>14 DEF CountWritten, SettledIsStored
    <3> QED
      BY <3>1, <3>2, <2>settle
  <2>15. CASE ClearAsyncWriteError
    <3>1. UNCHANGED <<writeQueue, batch, accepted, db, discarded>>
      BY <2>15 DEF ClearAsyncWriteError
    <3>2. worker' # "written"
      BY <2>15 DEF ClearAsyncWriteError
    <3> QED
      BY <3>1, <3>2, <2>same
  <2>16. CASE CountFailure
    <3>1. UNCHANGED <<writeQueue, batch, accepted, db, discarded>>
      BY <2>16 DEF CountFailure
    <3>2. worker' # "written"
      BY <2>16 DEF CountFailure
    <3> QED
      BY <3>1, <3>2, <2>same
  <2>17. CASE SetLastAsyncWriteError
    <3>1. UNCHANGED <<writeQueue, batch, accepted, db, discarded>>
      BY <2>17 DEF SetLastAsyncWriteError
    <3>2. worker' # "written"
      BY <2>17 DEF SetLastAsyncWriteError
    <3> QED
      BY <3>1, <3>2, <2>same
  <2>18. CASE RequeueOrDrop
    <3>1. UNCHANGED <<accepted, db, discarded>> /\ worker' # "written"
      BY <2>18 DEF RequeueOrDrop
    <3>2. CASE UNCHANGED <<writeQueue, batch>>
      BY <3>1, <3>2, <2>same
    <3>3. CASE writeQueue' = batch \o writeQueue /\ batch' = <<>>
      <4>1. /\ Len(writeQueue') = Len(batch) + Len(writeQueue)
            /\ \A i \in 1 .. Len(batch) + Len(writeQueue) :
                 writeQueue'[i] = IF i <= Len(batch) THEN batch[i]
                                  ELSE writeQueue[i - Len(batch)]
        BY <3>3, ConcatProperties DEF TypeOK
      <4>2. Settled' = Settled /\ Len(batch') = 0
        BY <2>0, <3>1, <3>3, <4>1 DEF Settled
      <4>3. ASSUME NEW i \in 1 .. Len(writeQueue')
            PROVE  writeQueue'[i] = Settled' + Len(batch') + i
        <5>1. CASE i <= Len(batch)
          BY <2>0, <4>1, <4>2, <5>1 DEF InsideIsConsecutive
        <5>2. CASE i > Len(batch)
          <6>1. i - Len(batch) \in 1 .. Len(writeQueue)
            BY <2>0, <4>1, <5>2
          <6>2. writeQueue[i - Len(batch)]
                  = Settled + Len(batch) + (i - Len(batch))
            BY <6>1 DEF InsideIsConsecutive
          <6> QED
            BY <2>0, <4>1, <4>2, <5>2, <6>2
        <5> QED
          BY <2>0, <4>1, <5>1, <5>2
      <4>4. InsideIsConsecutive'
        BY <2>0, <4>2, <4>3 DEF InsideIsConsecutive
      <4> QED
        BY <3>1, <4>2, <4>4 DEF SettledIsStored, StoredInOrder
    <3> QED
      BY <2>18, <3>2, <3>3 DEF RequeueOrDrop, GiveBack
  <2>19. CASE CountDropped
    <3>1. /\ UNCHANGED <<writeQueue, accepted, db>>
          /\ discarded' = discarded \cup PointsOf(batch)
          /\ batch' = <<>> /\ worker' # "written"
      BY <2>19 DEF CountDropped
    <3> QED
      BY <3>1, <2>settle
  <2>20. CASE StopWorker
    BY <2>20, <2>same DEF StopWorker, SettledIsStored
  <2>21. CASE JoinWorker
    BY <2>21, <2>same DEF JoinWorker, SettledIsStored
  <2>22. CASE UNCHANGED vars
    BY <2>22, <2>same
  <2> QED
    BY <2>1, <2>2, <2>3, <2>4, <2>5, <2>6, <2>7, <2>8, <2>9, <2>10, <2>11, <2>12,
       <2>13, <2>14, <2>15, <2>16, <2>17, <2>18, <2>19, <2>20, <2>21, <2>22
       DEF Next, WritePoint, Worker, Post, Destroyed
<1> QED
  BY <1>1, <1>2, TypeCorrect, QueueStaysBounded, PTL DEF Spec

-----------------------------------------------------------------------------
(* No accepted point vanishes: it is in the queue, in the worker's hands,  *)
(* in the database, or was given up.                                       *)
THEOREM NothingIsLost == Spec => []NoPointLost
<1>1. TypeOK /\ InsideIsConsecutive /\ SettledIsStored => NoPointLost
  <2> SUFFICES ASSUME TypeOK, InsideIsConsecutive, SettledIsStored,
                      NEW p \in 1 .. accepted
               PROVE  p \in PointsOf(writeQueue) \cup PointsOf(batch)
                              \cup db \cup discarded
    BY DEF NoPointLost
  <2>1. /\ Len(writeQueue) \in Nat /\ Len(batch) \in Nat
        /\ accepted \in Nat /\ Settled \in Nat
        /\ DOMAIN writeQueue = 1 .. Len(writeQueue)
        /\ PointsOf(batch) = Settled + 1 .. Settled + Len(batch)
    BY Lengths, BatchPoints, LenProperties DEF TypeOK
  <2>2. accepted = Settled + Len(batch) + Len(writeQueue)
    BY <2>1 DEF Settled
  <2>3. CASE p <= Settled + Len(batch)
    BY <2>1, <2>3 DEF SettledIsStored
  <2>4. CASE p > Settled + Len(batch)
    <3> DEFINE i == p - (Settled + Len(batch))
    <3>1. i \in 1 .. Len(writeQueue)
      BY <2>1, <2>2, <2>4
    <3>2. writeQueue[i] = p
      BY <2>1, <3>1 DEF InsideIsConsecutive
    <3> QED
      BY <2>1, <3>1, <3>2 DEF PointsOf
  <2> QED
    BY <2>1, <2>3, <2>4
<1> QED
  BY <1>1, TypeCorrect, PointsStayInOrder, PTL

(* A worker that no fundamental error ended leaves only when it was        *)
(* stopped, with every accepted point stored or given up.                  *)
THEOREM WorkerDrains == Spec => []StopDrains
<1>1. /\ TypeOK /\ WorkerHoldsBatch /\ InsideIsConsecutive
      /\ SettledIsStored /\ LeavesNothing
      => StopDrains
  <2> SUFFICES ASSUME TypeOK, WorkerHoldsBatch, InsideIsConsecutive,
                      SettledIsStored, LeavesNothing,
                      worker = "done", ~fundamentalErrorOccurred
               PROVE  /\ stopWriteWorker
                      /\ \A p \in 1 .. accepted : p \in db \cup discarded
    BY DEF StopDrains
  <2>1. stopWriteWorker /\ Len(writeQueue) = 0
    BY Lengths DEF LeavesNothing
  <2>2. Len(batch) = 0
    BY Lengths DEF WorkerHoldsBatch, WorkerSends
  <2>3. Settled = accepted
    BY <2>1, <2>2 DEF Settled, TypeOK
  <2> QED
    BY <2>1, <2>3 DEF SettledIsStored
<1> QED
  BY <1>1, TypeCorrect, QueueStaysBounded, PointsStayInOrder,
     FailFastAlwaysRecoverable, PTL

-----------------------------------------------------------------------------
(* The client implements the write buffer: a point enters when it is       *)
(* pushed, the batch is the run of oldest points that requests store, and  *)
(* the counters settle it.                                                 *)
THEOREM ClientImplementsBuffer == Spec => ImplementsBuffer
<1> DEFINE N == Buffer!BufferNext \/ UNCHANGED Buffer!bufferVars
<1>1. Init => Buffer!BufferInit
  <2>1. Len(<<>>) = 0
    BY EmptySeq
  <2> SUFFICES ASSUME Init PROVE Buffer!BufferInit
    OBVIOUS
  <2>2. Len(batch) = 0 /\ Len(writeQueue) = 0 /\ accepted = 0
    BY <2>1 DEF Init
  <2>3. Settled = 0
    BY <2>2 DEF Settled
  <2> QED
    BY <2>3 DEF Init, Buffer!BufferInit
<1>2. /\ TypeOK /\ QueueBounded /\ WorkerHoldsBatch /\ InsideIsConsecutive
      /\ SettledIsStored /\ [Next]_vars
      => N
  <2> SUFFICES ASSUME TypeOK, QueueBounded, WorkerHoldsBatch,
                      InsideIsConsecutive, SettledIsStored, [Next]_vars
               PROVE  N
    OBVIOUS
  <2> USE DEF vars, counters, callVars, errorVars, history, Buffer!bufferVars
  <2>0. /\ Len(writeQueue) \in Nat /\ Len(batch) \in Nat /\ Len(<<>>) = 0
        /\ Settled \in Nat /\ accepted \in Nat
        /\ maxBatchPoints \in Nat /\ maxQueuePoints \in Nat
        /\ PointsOf(batch) = Settled + 1 .. Settled + Len(batch)
        /\ accepted - Settled = Len(batch) + Len(writeQueue)
    BY Lengths, BatchPoints, ConfigAssumption DEF TypeOK, Settled
  (* A step that moves points inside the client, or moves none. *)
  <2>inside. ASSUME UNCHANGED <<accepted, db, discarded>>,
                    Len(batch') + Len(writeQueue')
                      = Len(batch) + Len(writeQueue),
                    Len(batch') \in Nat, Len(writeQueue') \in Nat
             PROVE  N
    BY <2>0, <2>inside DEF Settled
  <2>same. ASSUME UNCHANGED <<accepted, db, discarded, batch, writeQueue>>
           PROVE  N
    BY <2>same DEF Settled
  <2>store. ASSUME UNCHANGED <<accepted, discarded, batch, writeQueue>>,
                   db' = db \cup PointsOf(batch), Len(batch) > 0
            PROVE  N
    <3>1. Buffer!Store(Len(batch))
      BY <2>0, <2>store DEF Buffer!Store, Settled
    <3>2. Len(batch) \in 1 .. accepted - Settled
      BY <2>0, <2>store
    <3> QED
      BY <3>1, <3>2 DEF Buffer!BufferNext
  <2>settled. ASSUME UNCHANGED <<accepted, writeQueue>>, batch' = <<>>
              PROVE  Settled' = Settled + Len(batch)
    BY <2>0, <2>settled DEF Settled
  <2>pop. ASSUME LeaveOrPop, ~MayLeave, worker \in {"wait", "linger"},
                 UNCHANGED <<accepted, db, discarded>>
          PROVE  N
    <3>1. Len(batch) = 0
      BY <2>0, <2>pop DEF WorkerHoldsBatch, WorkerSends
    <3> QED
      BY <2>0, <2>inside, <2>pop, <3>1, Pop
  <2>1. ASSUME NEW w \in Writers, CallWritePoint(w) PROVE N
    BY <2>1, <2>same DEF CallWritePoint
  <2>2. ASSUME NEW w \in Writers, TestFailFast(w) PROVE N
    BY <2>2, <2>same DEF TestFailFast
  <2>3. ASSUME NEW w \in Writers, EnqueueOrDrop(w) PROVE N
    <3>1. UNCHANGED <<batch, db, discarded>>
      BY <2>3 DEF EnqueueOrDrop
    <3>2. CASE UNCHANGED <<writeQueue, accepted>>
      BY <3>1, <3>2, <2>same
    <3>3. CASE /\ Len(writeQueue) < maxQueuePoints
               /\ Len(writeQueue') = Len(writeQueue) + 1
               /\ accepted' = accepted + 1
      <4>1. accepted - Settled < maxBatchPoints + maxQueuePoints
        BY <2>0, <3>3 DEF WorkerHoldsBatch
      <4>2. Settled' = Settled
        BY <2>0, <3>1, <3>3 DEF Settled
      <4>3. Buffer!Accept
        BY <3>1, <3>3, <4>1, <4>2 DEF Buffer!Accept
      <4> QED
        BY <4>3 DEF Buffer!BufferNext
    <3> QED
      BY <2>3, <3>2, <3>3, EnqueueLengths
  <2>4. CASE ReadFails
    BY <2>4, <2>same DEF ReadFails
  <2>5. CASE LoopTest
    BY <2>5, <2>same DEF LoopTest
  <2>6. CASE Wake
    <3>1. CASE ~LeaveOrPop
      BY <2>6, <2>same, <3>1 DEF Wake
    <3>2. CASE LeaveOrPop /\ MayLeave
      BY <2>6, <2>same, <3>2 DEF Wake, LeaveOrPop
    <3>3. CASE LeaveOrPop /\ ~MayLeave
      BY <2>6, <2>pop, <3>3 DEF Wake
    <3> QED
      BY <3>1, <3>2, <3>3
  <2>7. CASE Flush
    <3>1. CASE MayLeave
      BY <2>7, <2>same, <3>1 DEF Flush, LeaveOrPop
    <3>2. CASE ~MayLeave
      BY <2>7, <2>pop, <3>2 DEF Flush
    <3> QED
      BY <3>1, <3>2
  <2>8. CASE PostAccepted
    <3>1. Len(batch) > 0
      BY <2>8 DEF PostAccepted, WorkerHoldsBatch, WorkerSends
    <3> QED
      BY <2>8, <2>store, <3>1 DEF PostAccepted
  <2>9. CASE PostRefused
    BY <2>9, <2>same DEF PostRefused
  <2>10. CASE PostLost
    <3>1. Len(batch) > 0
      BY <2>10 DEF PostLost, WorkerHoldsBatch, WorkerSends
    <3> QED
      BY <2>10, <2>same, <2>store, <3>1 DEF PostLost
  <2>11. CASE PostNotSent
    BY <2>11, <2>same DEF PostNotSent
  <2>12. CASE Classify
    BY <2>12, <2>same DEF Classify
  <2>13. CASE RetryOrGiveUp
    BY <2>13, <2>same DEF RetryOrGiveUp
  <2>14. CASE CountWritten
    <3>1. /\ UNCHANGED <<accepted, writeQueue, db, discarded>>
          /\ Settled' = Settled + Len(batch)
      BY <2>14, <2>settled DEF CountWritten
    <3>2. PointsOf(batch) \subseteq db
      BY <2>14 DEF CountWritten, SettledIsStored
    <3>3. Len(batch) \in 1 .. accepted - Settled
      BY <2>0, <2>14 DEF CountWritten, WorkerHoldsBatch, WorkerSends
    <3>4. Buffer!Confirm(Len(batch))
      BY <2>0, <3>1, <3>2 DEF Buffer!Confirm
    <3> QED
      BY <3>3, <3>4 DEF Buffer!BufferNext
  <2>15. CASE ClearAsyncWriteError
    BY <2>15, <2>same DEF ClearAsyncWriteError
  <2>16. CASE CountFailure
    BY <2>16, <2>same DEF CountFailure
  <2>17. CASE SetLastAsyncWriteError
    BY <2>17, <2>same DEF SetLastAsyncWriteError
  <2>18. CASE RequeueOrDrop
    BY <2>0, <2>18, <2>inside, RequeueLengths DEF RequeueOrDrop
  <2>19. CASE CountDropped
    <3>1. /\ UNCHANGED <<accepted, writeQueue, db>>
          /\ discarded' = discarded \cup PointsOf(batch)
          /\ Settled' = Settled + Len(batch)
      BY <2>19, <2>settled DEF CountDropped
    <3>2. Len(batch) \in 1 .. accepted - Settled
      BY <2>0, <2>19 DEF CountDropped, WorkerHoldsBatch, WorkerSends
    <3>3. Buffer!Discard(Len(batch))
      BY <2>0, <3>1 DEF Buffer!Discard
    <3> QED
      BY <3>2, <3>3 DEF Buffer!BufferNext
  <2>20. CASE StopWorker
    BY <2>20, <2>same DEF StopWorker
  <2>21. CASE JoinWorker
    BY <2>21, <2>same DEF JoinWorker
  <2>22. CASE UNCHANGED vars
    BY <2>22, <2>same
  <2> QED
    BY <2>1, <2>2, <2>3, <2>4, <2>5, <2>6, <2>7, <2>8, <2>9, <2>10, <2>11, <2>12,
       <2>13, <2>14, <2>15, <2>16, <2>17, <2>18, <2>19, <2>20, <2>21, <2>22
       DEF Next, WritePoint, Worker, Post, Destroyed
<1> QED
  BY <1>1, <1>2, TypeCorrect, QueueStaysBounded, PointsStayInOrder, PTL
     DEF Spec, ImplementsBuffer, Buffer!BufferSpec

-----------------------------------------------------------------------------
(* The health nodes beside the client.                                     *)

(* A fundamental error is for good: nothing the client does takes it back. *)
LEMMA FundamentalStays ==
  ASSUME Next, fundamentalErrorOccurred
  PROVE  fundamentalErrorOccurred'
<1>1. ASSUME NEW w \in Writers, WritePoint(w) PROVE fundamentalErrorOccurred'
  BY <1>1 DEF WritePoint, CallWritePoint, TestFailFast, EnqueueOrDrop, errorVars
<1>2. CASE Worker
  <2>1. CASE LoopTest \/ Wake \/ Flush
    BY <2>1 DEF LoopTest, Wake, Flush, errorVars
  <2>2. CASE Post
    BY <2>2 DEF Post, PostAccepted, PostRefused, PostLost, PostNotSent, errorVars
  <2>3. CASE Classify \/ RetryOrGiveUp \/ CountWritten \/ ClearAsyncWriteError
    BY <2>3 DEF Classify, RetryOrGiveUp, CountWritten, ClearAsyncWriteError, errorVars
  <2>4. CASE CountFailure \/ SetLastAsyncWriteError \/ RequeueOrDrop \/ CountDropped
    BY <2>4 DEF CountFailure, SetLastAsyncWriteError, RequeueOrDrop, CountDropped,
                errorVars
  <2> QED
    BY <1>2, <2>1, <2>2, <2>3, <2>4 DEF Worker
<1>3. CASE ReadFails \/ StopWorker \/ JoinWorker \/ Destroyed
  BY <1>3 DEF ReadFails, StopWorker, JoinWorker, Destroyed, vars, errorVars
<1> QED
  BY <1>1, <1>2, <1>3 DEF Next

(* A step with the health nodes is one of the client, which leaves them    *)
(* alone, or one of the callback or the server, which leaves the client    *)
(* alone.                                                                  *)
ClientStep == Next /\ UNCHANGED healthVars
HealthStep == (Update \/ EndServer) /\ UNCHANGED vars

(* There is no other step.                                                 *)
LEMMA HealthSteps == ASSUME HealthNext PROVE ClientStep \/ HealthStep
<1>1. CASE Update
  BY <1>1 DEF HealthStep, Update, BeginUpdate, LoadErrorCode, LoadFundamentalError,
              WriteNodes, WriteAsyncErrorActive, WriteLastAsyncError, Diagnose
<1>2. CASE EndServer
  BY <1>2 DEF HealthStep, EndServer
<1>3. CASE ServerReads \/ WorkerStep \/ Destruction
  BY <1>3 DEF ClientStep, ServerReads, WorkerStep, Destruction, Next
<1>4. ASSUME NEW w \in Writers, ServerWrites(w) PROVE ClientStep
  BY <1>4 DEF ClientStep, ServerWrites, Next
<1> QED
  BY <1>1, <1>2, <1>3, <1>4 DEF HealthNext

(* Monitoring does not disturb the client: with the callback reading its   *)
(* counters and flags at any time (ua_adapter.cpp, updateInfluxHealth) it  *)
(* does nothing it would not do alone, so that all that is proved of the   *)
(* client holds of the monitored one.                                      *)
THEOREM HealthImplementsClient == HealthSpec => Spec
<1>1. HealthInit => Init
  BY DEF HealthInit
<1>2. [HealthNext]_allVars => [Next]_vars
  <2>1. HealthNext => [Next]_vars
    BY HealthSteps DEF ClientStep, HealthStep
  <2>2. UNCHANGED allVars => UNCHANGED vars
    BY DEF allVars
  <2> QED
    BY <2>1, <2>2
<1> QED
  BY <1>1, <1>2, PTL DEF HealthSpec, Spec

(* What an update has loaded is true from then on, and when it writes the  *)
(* nodes, later than it loads, the node FundamentalError is no older than  *)
(* the loaded flag, which decides whether the updates end.                 *)
HealthIInv ==
  /\ DOMAIN nodes = {"stats", "fundamentalError", "asyncErrorActive", "lastAsyncError"}
  /\ UpdatesEndReported
  /\ update # "idle" => healthNodesAdded
  /\ update \in {"nodes", "async", "text", "diagnose"} /\ stats.fundamentalError
       => fundamentalErrorOccurred
  /\ update \in {"async", "text", "diagnose"} /\ stats.fundamentalError
       => nodes.fundamentalError

(* Every step of an update preserves it.                                   *)
LEMMA UpdateKeepsHealth ==
  ASSUME HealthIInv, Update \/ EndServer, DOMAIN stats = DOMAIN NoStats
  PROVE  HealthIInv'
<1> USE DEF HealthIInv, UpdatesEndReported
<1>1. CASE BeginUpdate \/ LoadErrorCode
  BY <1>1 DEF BeginUpdate, LoadErrorCode, ServerIdle, vars, errorVars
<1>2. CASE LoadFundamentalError
  <2>1. stats'.fundamentalError = fundamentalErrorOccurred
    BY <1>2 DEF LoadFundamentalError, NoStats
  <2> QED
    BY <1>2, <2>1 DEF LoadFundamentalError, vars, errorVars
<1>3. CASE WriteNodes
  <2>1. nodes'.fundamentalError = fundamentalErrorOccurred /\ DOMAIN nodes' = DOMAIN nodes
    BY <1>3 DEF WriteNodes
  <2> QED
    BY <1>3, <2>1 DEF WriteNodes, vars, errorVars
<1>4. CASE WriteAsyncErrorActive \/ WriteLastAsyncError
  <2>1. nodes'.fundamentalError = nodes.fundamentalError /\ DOMAIN nodes' = DOMAIN nodes
    BY <1>4 DEF WriteAsyncErrorActive, WriteLastAsyncError
  <2> QED
    BY <1>4, <2>1 DEF WriteAsyncErrorActive, WriteLastAsyncError, vars, errorVars
<1>5. CASE Diagnose
  BY <1>5 DEF Diagnose, EndsUpdates, vars, errorVars
<1>6. CASE EndServer
  BY <1>6 DEF EndServer, ServerIdle, vars, errorVars
<1> QED
  BY <1>1, <1>2, <1>3, <1>4, <1>5, <1>6 DEF Update

(* Whenever the worker and the history reads set the flag, the updates do  *)
(* not end before the node FundamentalError shows it.                      *)
THEOREM UpdatesAlwaysEndReported == HealthSpec => []UpdatesEndReported
<1> DEFINE I == HealthIInv /\ DOMAIN stats = DOMAIN NoStats
<1>1. HealthInit => I
  BY DEF HealthInit, HealthIInv, UpdatesEndReported
<1>2. ASSUME I, [HealthNext]_allVars PROVE I'
  <2>1. CASE ClientStep
    BY <1>2, <2>1, FundamentalStays
       DEF ClientStep, healthVars, HealthIInv, UpdatesEndReported
  <2>2. CASE HealthStep
    <3>1. DOMAIN stats' = DOMAIN stats
      BY <2>2 DEF HealthStep, Update, EndServer, BeginUpdate, LoadErrorCode,
                  LoadFundamentalError, WriteNodes, WriteAsyncErrorActive,
                  WriteLastAsyncError, Diagnose
    <3> QED
      BY <1>2, <2>2, <3>1, UpdateKeepsHealth DEF HealthStep
  <2>3. CASE UNCHANGED allVars
    BY <1>2, <2>3 DEF allVars, vars, errorVars, healthVars, HealthIInv,
                      UpdatesEndReported
  <2> QED
    BY <1>2, <2>1, <2>2, <2>3, HealthSteps
<1>3. I => UpdatesEndReported
  BY DEF HealthIInv
<1> QED
  BY <1>1, <1>2, <1>3, PTL DEF HealthSpec
=============================================================================
