------------------------------ MODULE DelayLine ------------------------------
(***************************************************************************)
(* What bbox_buffer promises to the threads that share it, without time:   *)
(* a bounded first-in first-out queue under bbox_buffer_mutex.  A box set  *)
(* is put at the back, some of the oldest ones may be dropped by the same  *)
(* step, the oldest one may be taken, and the whole queue may be cleared.  *)
(* BBoxBuffer adds the timestamps and the ages and is shown to implement   *)
(* DelaySpec; BBoxSession uses these steps as parts of its own.            *)
(***************************************************************************)
EXTENDS Naturals, Sequences

CONSTANTS
  Items,      \* the box sets that can be queued
  MaxBuffer   \* the limit of update_bbox_buffer (50 in the code)

ASSUME MaxBufferAssumption == MaxBuffer \in Nat \ {0}

VARIABLE bbox_buffer   \* the queue, oldest first

\* The last MaxBuffer elements: "while (bbox_buffer.size() > 50) pop".
Trim(q) ==
  IF Len(q) > MaxBuffer THEN SubSeq(q, Len(q) - MaxBuffer + 1, Len(q)) ELSE q

\* What is left of q when its k oldest elements are dropped and it is trimmed.
Kept(q, k) == Trim(SubSeq(q, k + 1, Len(q)))

\* update_bbox_buffer: push, drop the k oldest (those over the age limit),
\* trim.  The element just pushed has age 0 and is never among the k.
Put(x) ==
  \E k \in 0..Len(bbox_buffer) : bbox_buffer' = Kept(Append(bbox_buffer, x), k)

\* send_bboxes_to_client takes at most the oldest element.
Take ==
  /\ bbox_buffer # <<>>
  /\ bbox_buffer' = Tail(bbox_buffer)

\* clear_bbox_buffer swaps the queue with an empty one.
Clear == bbox_buffer' = <<>>

DelayInit == bbox_buffer = <<>>

DelayNext == (\E x \in Items : Put(x)) \/ Take \/ Clear

DelaySpec == DelayInit /\ [][DelayNext]_bbox_buffer

=============================================================================
