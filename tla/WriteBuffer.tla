----------------------------- MODULE WriteBuffer -----------------------------
(***************************************************************************)
(* What the batching write path of the history backend promises, without   *)
(* queue, worker, retries or locks: points are numbered in the order the   *)
(* buffer accepts them, and leave it in that order, a run of them at a     *)
(* time, either because the database has stored them or because they were  *)
(* given up.  A run may be stored several times before it leaves.  So      *)
(* 1 .. settled is always a subset of db \cup discarded: delivery is in    *)
(* order, at least once, and every loss is a decision.                     *)
(***************************************************************************)
EXTENDS Naturals

CONSTANT Capacity  \* the most points that can be inside the buffer

VARIABLES accepted,  \* number of points the buffer has accepted
          settled,   \* number of them that have left it
          db,        \* the points the database has stored
          discarded  \* the points that left the buffer unwritten

bufferVars == <<accepted, settled, db, discarded>>

BufferInit ==
  /\ accepted = 0
  /\ settled = 0
  /\ db = {}
  /\ discarded = {}

Accept ==
  /\ accepted - settled < Capacity
  /\ accepted' = accepted + 1
  /\ UNCHANGED <<settled, db, discarded>>

(* The database stores the n oldest points; they stay in the buffer. *)
Store(n) ==
  /\ db' = db \cup (settled + 1 .. settled + n)
  /\ UNCHANGED <<accepted, settled, discarded>>

(* The n oldest points leave the buffer: all of them are stored. *)
Confirm(n) ==
  /\ settled + 1 .. settled + n \subseteq db
  /\ settled' = settled + n
  /\ UNCHANGED <<accepted, db, discarded>>

(* The n oldest points are given up. *)
Discard(n) ==
  /\ discarded' = discarded \cup (settled + 1 .. settled + n)
  /\ settled' = settled + n
  /\ UNCHANGED <<accepted, db>>

BufferNext ==
  \/ Accept
  \/ \E n \in 1 .. accepted - settled : Store(n) \/ Confirm(n) \/ Discard(n)

BufferSpec == BufferInit /\ [][BufferNext]_bufferVars

=============================================================================
