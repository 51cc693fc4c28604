----------------------------- MODULE BBoxBuffer ------------------------------
(***************************************************************************)
(* The delay buffer between the parser threads and the push threads, with  *)
(* its clock: update_bbox_buffer, send_bboxes_to_client and                *)
(* clear_bbox_buffer of metadata_parser.cpp.  Each is one critical section *)
(* of bbox_buffer_mutex, so each is one action; the two readings of the    *)
(* clock inside an update fall into the same tick.  Any number of parser   *)
(* and push threads take the steps in any order.                           *)
(***************************************************************************)
EXTENDS DelayLine

CONSTANTS
  Delay,      \* bbox_buffer_delay_ms, in ticks
  MaxAge,     \* the age limit of update_bbox_buffer (10000 ms)
  MaxTime,    \* bound on the clock
  MaxPuts     \* bound on the number of updates

ASSUME TimingAssumption ==
  Delay \in Nat /\ MaxAge \in Nat /\ MaxTime \in Nat /\ MaxPuts \in Nat

\* A TimestampedBBox: the boxes themselves do not matter, only whether there
\* are any.  The id, its place among all updates, is not in the code.
Entries == [timestamp : 0..MaxTime, id : 0..MaxPuts, boxes : BOOLEAN]

ASSUME EntriesAssumption == Entries \subseteq Items

VARIABLES
  now,        \* steady_clock
  updates,    \* updates so far
  sent        \* what the last message to a client held, and when it was taken

vars == <<bbox_buffer, now, updates, sent>>

Init ==
  /\ DelayInit
  /\ now = 0
  /\ updates = 0
  /\ sent = [id |-> 0, at |-> 0]

Age(e) == now - e.timestamp

Tick ==
  /\ now < MaxTime
  /\ now' = now + 1
  /\ UNCHANGED <<bbox_buffer, updates, sent>>

NewEntry(time, boxes) == [timestamp |-> time, id |-> updates + 1, boxes |-> boxes]

\* Mutant: the clock is read before the mutex is taken.
StampOutsideLock(boxes) ==
  /\ updates < MaxPuts
  /\ \E t \in 0..now, k \in 0..Len(bbox_buffer) :
       /\ \A i \in 1..k : Age(bbox_buffer[i]) > MaxAge
       /\ k < Len(bbox_buffer) => Age(bbox_buffer[k + 1]) <= MaxAge
       /\ bbox_buffer' = Kept(Append(bbox_buffer, NewEntry(t, boxes)), k)
  /\ updates' = updates + 1
  /\ UNCHANGED <<now, sent>>

\* Mutant: at most one entry is dropped for its age.
DropOneOld(boxes) ==
  /\ updates < MaxPuts
  /\ \E k \in 0..Len(bbox_buffer) :
       /\ k = IF bbox_buffer # <<>> /\ Age(bbox_buffer[1]) > MaxAge THEN 1 ELSE 0
       /\ bbox_buffer' = Kept(Append(bbox_buffer, NewEntry(now, boxes)), k)
  /\ updates' = updates + 1
  /\ UNCHANGED <<now, sent>>

\* Mutant: entries that have waited for the delay count as old.
DropAfterDelay(boxes) ==
  /\ updates < MaxPuts
  /\ \E k \in 0..Len(bbox_buffer) :
       /\ \A i \in 1..k : Age(bbox_buffer[i]) > Delay
       /\ k < Len(bbox_buffer) => Age(bbox_buffer[k + 1]) <= Delay
       /\ bbox_buffer' = Kept(Append(bbox_buffer, NewEntry(now, boxes)), k)
  /\ updates' = updates + 1
  /\ UNCHANGED <<now, sent>>

\* update_bbox_buffer: push, drop from the front while the front is too old,
\* drop from the front while there are more than MaxBuffer.
UpdateBuffer(boxes) ==
  /\ updates < MaxPuts
  /\ \E k \in 0..Len(bbox_buffer) :
       /\ \A i \in 1..k : Age(bbox_buffer[i]) > MaxAge
       /\ k < Len(bbox_buffer) => Age(bbox_buffer[k + 1]) <= MaxAge
       /\ bbox_buffer' = Kept(Append(bbox_buffer, NewEntry(now, boxes)), k)
  /\ updates' = updates + 1
  /\ UNCHANGED <<now, sent>>

\* A message goes out when the entry taken holds a box.
Emit(e) == sent' = IF e.boxes THEN [id |-> e.id, at |-> now] ELSE sent

\* Mutant: the newest entry that is old enough is sent first.
SendNewest ==
  /\ \E i \in 1..Len(bbox_buffer) :
       /\ Age(bbox_buffer[i]) >= Delay
       /\ Emit(bbox_buffer[i])
       /\ bbox_buffer' = SubSeq(bbox_buffer, 1, i - 1)
  /\ UNCHANGED <<now, updates>>

\* Mutant: the entry stays in the queue.
SendWithoutPop ==
  /\ bbox_buffer # <<>>
  /\ Age(Head(bbox_buffer)) >= Delay
  /\ Emit(Head(bbox_buffer))
  /\ UNCHANGED <<bbox_buffer, now, updates>>

\* send_bboxes_to_client, up to the end of its critical section, when the
\* front has waited for the delay; otherwise the call changes nothing.
SendBBoxes ==
  /\ bbox_buffer # <<>>
  /\ Age(Head(bbox_buffer)) >= Delay
  /\ Emit(Head(bbox_buffer))
  /\ Take
  /\ UNCHANGED <<now, updates>>

\* clear_bbox_buffer, when a session stops.
ClearBuffer ==
  /\ Clear
  /\ UNCHANGED <<now, updates, sent>>

Next ==
  \/ Tick
  \/ \E boxes \in BOOLEAN : UpdateBuffer(boxes)
  \/ SendBBoxes
  \/ ClearBuffer

Spec == Init /\ [][Next]_vars

-----------------------------------------------------------------------------
(* Properties.                                                             *)

\* Types, and the limit on the queue.
TypeOK ==
  /\ bbox_buffer \in Seq(Entries)
  /\ Len(bbox_buffer) <= MaxBuffer
  /\ now \in 0..MaxTime
  /\ updates \in 0..MaxPuts
  /\ sent \in [id : 0..MaxPuts, at : 0..MaxTime]

\* The queue is in the order of its timestamps, and none is in the future.
\* The two loops that look only at the front rely on it: when the front is
\* not old enough to send, or not too old to keep, no other entry is.
TimeOrdered ==
  /\ \A i, j \in 1..Len(bbox_buffer) :
       i < j => bbox_buffer[i].timestamp <= bbox_buffer[j].timestamp
  /\ \A i \in 1..Len(bbox_buffer) : bbox_buffer[i].timestamp <= now

\* Box sets are taken for sending in the order they were parsed and each at most
\* once, across any number of push threads, drops and clears.  The writing comes after
\* the lock: two push threads, which have different clients, may write in either order.
DeliveredInOrder == [][sent' # sent => sent'.id > sent.id]_vars

\* After an update nothing older than the age limit is left anywhere in the
\* queue, although only the front is inspected.
UpdateForgetsOld ==
  [][updates' # updates
       => \A i \in 1..Len(bbox_buffer') : now - bbox_buffer'[i].timestamp <= MaxAge]_vars

\* An update drops an entry only when it is too old or when MaxBuffer newer
\* entries are left: no box set is lost while there is room for it.
DropsJustified ==
  [][updates' # updates
       => \A i \in 1..Len(bbox_buffer) :
            \/ \E j \in 1..Len(bbox_buffer') : bbox_buffer'[j] = bbox_buffer[i]
            \/ Age(bbox_buffer[i]) > MaxAge
            \/ Len(bbox_buffer') = MaxBuffer]_vars

\* The buffer with its clock implements the timeless queue BBoxSession uses.
ImplementsDelayLine == DelaySpec

=============================================================================
