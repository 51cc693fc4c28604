--------------------------- MODULE BBoxBufferProofs --------------------------
(***************************************************************************)
(* The delay buffer for every limit, delay, age limit and length of run.   *)
(* The inductive invariant is TypeOK, TimeOrdered and IdsOrdered: entries  *)
(* carry strictly increasing places among the updates, all above the one   *)
(* of the last message.                                                    *)
(***************************************************************************)
EXTENDS BBoxBuffer, DelayLineProofs

IdsOrdered ==
  /\ \A i, j \in 1..Len(bbox_buffer) : i < j => bbox_buffer[i].id < bbox_buffer[j].id
  /\ \A i \in 1..Len(bbox_buffer) : sent.id < bbox_buffer[i].id /\ bbox_buffer[i].id <= updates
  /\ sent.id <= updates

Inv == TypeOK /\ TimeOrdered /\ IdsOrdered

\* What update_bbox_buffer leaves: the m oldest entries are gone, for an m
\* that reaches the limit or goes just past the entries that are too old; the
\* others follow in order and the new entry is the last.
Updated(m, e) ==
  /\ m \in 0..Len(bbox_buffer)
  /\ bbox_buffer' \in Seq(Entries)
  /\ Len(bbox_buffer') = Len(bbox_buffer) + 1 - m
  /\ Len(bbox_buffer') <= MaxBuffer
  /\ \A i \in 1..(Len(bbox_buffer) - m) : bbox_buffer'[i] = bbox_buffer[m + i]
  /\ bbox_buffer'[Len(bbox_buffer')] = e

\* An update by the code's three steps has that effect, and m relates to the
\* age limit as the loops say.
LEMMA UpdateLemma ==
  ASSUME TypeOK, NEW boxes \in BOOLEAN, UpdateBuffer(boxes)
  PROVE  \E m \in 0..Len(bbox_buffer) :
           /\ Updated(m, NewEntry(now, boxes))
           /\ m < Len(bbox_buffer) => Age(bbox_buffer[m + 1]) <= MaxAge
                                      \/ \E i \in 1..m : Age(bbox_buffer[i]) <= MaxAge
           /\ \/ \A i \in 1..m : Age(bbox_buffer[i]) > MaxAge
              \/ Len(bbox_buffer') = MaxBuffer
<1> DEFINE e == NewEntry(now, boxes)
           a == Append(bbox_buffer, e)
<1>1. e \in Entries
  BY TimingAssumption DEF TypeOK, UpdateBuffer, NewEntry, Entries
<1> HIDE DEF e
<1>2. /\ a \in Seq(Entries)
      /\ Len(a) = Len(bbox_buffer) + 1
      /\ \A i \in 1..Len(bbox_buffer) : a[i] = bbox_buffer[i]
      /\ a[Len(bbox_buffer) + 1] = e
  BY <1>1, AppendProperties DEF TypeOK
<1>3. PICK k \in 0..Len(bbox_buffer) :
         /\ \A i \in 1..k : Age(bbox_buffer[i]) > MaxAge
         /\ k < Len(bbox_buffer) => Age(bbox_buffer[k + 1]) <= MaxAge
         /\ bbox_buffer' = Kept(a, k)
  BY DEF UpdateBuffer, e
<1> HIDE DEF a
<1>4. k \in 0..Len(a)
  BY <1>2, <1>3
<1>5. KeptOf(Entries, a, k, bbox_buffer')
  <2>1. a \in Seq(Entries)
    BY <1>2
  <2>2. KeptOf(Entries, a, k, Kept(a, k))
    BY <1>4, <2>1, KeptLemma, Zenon
  <2>3. QED
    BY <1>3, <2>2, Zenon
<1>6. PICK m \in k..Len(a) :
        /\ Len(bbox_buffer') = Len(a) - m
        /\ m = k \/ Len(bbox_buffer') = MaxBuffer
        /\ \A i \in 1..Len(bbox_buffer') : m + i \in 1..Len(a) /\ bbox_buffer'[i] = a[m + i]
  BY <1>5, Zenon DEF KeptOf
<1>7. /\ bbox_buffer' \in Seq(Entries)
      /\ Len(bbox_buffer') <= MaxBuffer
  BY <1>5, Zenon DEF KeptOf
<1>8. m \in 0..Len(bbox_buffer)
  <2>1. m = k \/ Len(bbox_buffer') > 0
    BY <1>6, MaxBufferAssumption
  <2>2. Len(bbox_buffer) \in Nat
    BY DEF TypeOK
  <2>3. QED
    BY <2>1, <2>2, <1>2, <1>3, <1>6
<1>9. Updated(m, e)
  <2>1. Len(bbox_buffer) \in Nat
    BY DEF TypeOK
  <2>2. Len(bbox_buffer') = Len(bbox_buffer) + 1 - m
    BY <1>2, <1>6
  <2>3. ASSUME NEW i \in 1..(Len(bbox_buffer) - m) PROVE bbox_buffer'[i] = bbox_buffer[m + i]
    <3>1. i \in 1..Len(bbox_buffer') /\ m + i \in 1..Len(bbox_buffer)
      BY <2>1, <2>2, <1>8
    <3>2. QED
      BY <3>1, <1>2, <1>6
  <2>4. bbox_buffer'[Len(bbox_buffer')] = e
    <3>1. Len(bbox_buffer') \in 1..Len(bbox_buffer') /\ m + Len(bbox_buffer') = Len(bbox_buffer) + 1
      BY <2>1, <2>2, <1>8
    <3>2. QED
      BY <3>1, <1>2, <1>6
  <2>5. QED
    BY <1>7, <1>8, <2>2, <2>3, <2>4 DEF Updated
<1>10. QED
  <2>1. m < Len(bbox_buffer) => Age(bbox_buffer[m + 1]) <= MaxAge
                                 \/ \E i \in 1..m : Age(bbox_buffer[i]) <= MaxAge
    <3>1. CASE m = k
      BY <3>1, <1>3
    <3>2. CASE m # k
      <4>1. k + 1 \in 1..m
        BY <3>2, <1>3, <1>6
      <4>2. ASSUME m < Len(bbox_buffer) PROVE k < Len(bbox_buffer)
        BY <4>2, <1>3, <1>6, <1>8
      <4>3. QED
        BY <4>1, <4>2, <1>3
    <3>3. QED
      BY <3>1, <3>2
  <2>2. \/ \A i \in 1..m : Age(bbox_buffer[i]) > MaxAge
        \/ Len(bbox_buffer') = MaxBuffer
    BY <1>3, <1>6
  <2>3. QED
    BY <1>8, <1>9, <2>1, <2>2 DEF e

\* What the invariant says of one entry, with the arithmetic facts about it.
LEMMA EntryFacts ==
  ASSUME Inv, NEW i \in 1..Len(bbox_buffer)
  PROVE  /\ bbox_buffer[i] \in Entries
         /\ bbox_buffer[i].timestamp \in Nat /\ bbox_buffer[i].timestamp <= now
         /\ bbox_buffer[i].id \in Nat /\ bbox_buffer[i].id <= updates
         /\ sent.id < bbox_buffer[i].id
<1>1. bbox_buffer[i] \in Entries
  BY DEF Inv, TypeOK
<1>2. QED
  BY <1>1, TimingAssumption DEF Inv, TimeOrdered, IdsOrdered, Entries

\* Every step of the buffer preserves the invariant.
LEMMA InvStep == Inv /\ [Next]_vars => Inv'
<1> SUFFICES ASSUME Inv, [Next]_vars PROVE Inv'
  OBVIOUS
<1>0. /\ now \in Nat /\ now \in 0..MaxTime /\ updates \in Nat /\ updates \in 0..MaxPuts
      /\ sent.id \in Nat /\ sent.id <= updates
      /\ bbox_buffer \in Seq(Entries) /\ Len(bbox_buffer) \in Nat
      /\ sent \in [id : 0..MaxPuts, at : 0..MaxTime]
  BY TimingAssumption DEF Inv, TypeOK, IdsOrdered
<1>1. CASE Tick
  <2>1. now' \in 0..MaxTime
    BY <1>0, <1>1, TimingAssumption DEF Tick
  <2>2. UNCHANGED <<bbox_buffer, updates, sent>> /\ now < now'
    BY <1>0, <1>1 DEF Tick
  <2>3. TypeOK'
    BY <2>1, <2>2 DEF Inv, TypeOK
  <2>4. \A i \in 1..Len(bbox_buffer) : bbox_buffer[i].timestamp <= now'
    BY <1>0, <2>1, <2>2, EntryFacts
  <2>5. TimeOrdered' /\ IdsOrdered'
    BY <2>2, <2>4 DEF Inv, TimeOrdered, IdsOrdered
  <2>6. QED
    BY <2>3, <2>5 DEF Inv
<1>2. ASSUME NEW boxes \in BOOLEAN, UpdateBuffer(boxes) PROVE Inv'
  <2>1. PICK m \in 0..Len(bbox_buffer) : Updated(m, NewEntry(now, boxes))
    BY <1>2, UpdateLemma DEF Inv
  <2>2. /\ updates' = updates + 1 /\ updates' \in 0..MaxPuts
        /\ UNCHANGED <<now, sent>>
    BY <1>0, <1>2, TimingAssumption DEF UpdateBuffer
  <2> DEFINE n == Len(bbox_buffer')
  <2>3. /\ n = Len(bbox_buffer) + 1 - m /\ n \in Nat /\ n >= 1
        /\ bbox_buffer'[n].timestamp = now /\ bbox_buffer'[n].id = updates'
    BY <1>0, <2>1, <2>2 DEF Updated, NewEntry
  <2>4. ASSUME NEW i \in 1..n, i # n
        PROVE  m + i \in 1..Len(bbox_buffer) /\ bbox_buffer'[i] = bbox_buffer[m + i]
    <3>1. i \in 1..(Len(bbox_buffer) - m) /\ m + i \in 1..Len(bbox_buffer)
      BY <1>0, <2>3, <2>4
    <3>2. QED
      BY <3>1, <2>1 DEF Updated
  <2>5. TypeOK'
    BY <2>1, <2>2 DEF Inv, TypeOK, Updated
  <2> HIDE DEF n
  <2>6. ASSUME NEW i \in 1..n
        PROVE  /\ bbox_buffer'[i].timestamp <= now'
               /\ sent'.id < bbox_buffer'[i].id /\ bbox_buffer'[i].id <= updates'
    <3>1. CASE i = n
      BY <3>1, <1>0, <2>2, <2>3
    <3>2. CASE i # n
      <4>1. m + i \in 1..Len(bbox_buffer) /\ bbox_buffer'[i] = bbox_buffer[m + i]
        BY <2>4, <3>2
      <4>2. QED
        BY <4>1, <1>0, <2>2, EntryFacts
    <3>3. QED
      BY <3>1, <3>2
  <2>7. ASSUME NEW i \in 1..n, NEW j \in 1..n, i < j
        PROVE  /\ bbox_buffer'[i].timestamp <= bbox_buffer'[j].timestamp
               /\ bbox_buffer'[i].id < bbox_buffer'[j].id
    <3>1. i # n
      BY <2>3, <2>7
    <3>2. m + i \in 1..Len(bbox_buffer) /\ bbox_buffer'[i] = bbox_buffer[m + i]
      BY <2>4, <3>1
    <3>3. CASE j = n
      <4>1. /\ bbox_buffer[m + i].timestamp <= now
            /\ bbox_buffer[m + i].id \in Nat /\ bbox_buffer[m + i].id <= updates
        BY <3>2, EntryFacts
      <4>2. bbox_buffer[m + i].id < updates'
        BY <4>1, <1>0, <2>2
      <4>3. QED
        BY <3>2, <3>3, <4>1, <4>2, <2>3
    <3>4. CASE j # n
      <4>1. m + j \in 1..Len(bbox_buffer) /\ bbox_buffer'[j] = bbox_buffer[m + j]
        BY <2>4, <3>4
      <4>2. m + i < m + j
        BY <2>3, <2>7
      <4>3. QED
        BY <3>2, <4>1, <4>2 DEF Inv, TimeOrdered, IdsOrdered
    <3>5. QED
      BY <3>3, <3>4
  <2>8. TimeOrdered' /\ IdsOrdered'
    BY <1>0, <2>2, <2>6, <2>7 DEF TimeOrdered, IdsOrdered, n
  <2>9. QED
    BY <2>5, <2>8 DEF Inv
<1>3. CASE SendBBoxes
  <2>1. /\ bbox_buffer # <<>> /\ bbox_buffer' = Tail(bbox_buffer)
        /\ UNCHANGED <<now, updates>>
    BY <1>3 DEF SendBBoxes, Take
  <2>2. /\ bbox_buffer' \in Seq(Entries)
        /\ Len(bbox_buffer') = Len(bbox_buffer) - 1
        /\ \A i \in 1..Len(bbox_buffer') : bbox_buffer'[i] = bbox_buffer[i + 1]
        /\ Head(bbox_buffer) = bbox_buffer[1]
    BY <1>0, <2>1, HeadTailProperties
  <2>3. 1 \in 1..Len(bbox_buffer)
    BY <1>0, <2>1, EmptySeq
  <2>4. ASSUME NEW i \in 1..Len(bbox_buffer')
        PROVE  i + 1 \in 1..Len(bbox_buffer) /\ 1 < i + 1
    BY <1>0, <2>2
  <2>5. /\ sent' \in [id : 0..MaxPuts, at : 0..MaxTime]
        /\ sent'.id <= updates
        /\ sent'.id <= bbox_buffer[1].id
    <3>1. bbox_buffer[1] \in Entries
      BY <2>3, EntryFacts
    <3>2. sent' = IF bbox_buffer[1].boxes THEN [id |-> bbox_buffer[1].id, at |-> now] ELSE sent
      BY <1>3, <2>2 DEF SendBBoxes, Emit
    <3>3. QED
      BY <1>0, <2>3, <3>1, <3>2, EntryFacts DEF Entries
  <2>6. TypeOK'
    BY <1>0, <2>1, <2>2, <2>5, MaxBufferAssumption DEF Inv, TypeOK
  <2>7. TimeOrdered'
    <3>1. \A i, j \in 1..Len(bbox_buffer') : i < j => i + 1 < j + 1
      BY <1>0, <2>2
    <3>2. QED
      BY <2>1, <2>2, <2>4, <3>1 DEF Inv, TimeOrdered
  <2>8. IdsOrdered'
    <3>1. \A i, j \in 1..Len(bbox_buffer') : i < j => i + 1 < j + 1
      BY <1>0, <2>2
    <3>2. \A i, j \in 1..Len(bbox_buffer') : i < j => bbox_buffer'[i].id < bbox_buffer'[j].id
      BY <2>2, <2>4, <3>1 DEF Inv, IdsOrdered
    <3>3. ASSUME NEW i \in 1..Len(bbox_buffer')
          PROVE  sent'.id < bbox_buffer'[i].id /\ bbox_buffer'[i].id <= updates
      <4>1. bbox_buffer[1].id < bbox_buffer[i + 1].id /\ bbox_buffer'[i] = bbox_buffer[i + 1]
        BY <2>2, <2>3, <2>4 DEF Inv, IdsOrdered
      <4>2. /\ bbox_buffer[i + 1].id \in Nat /\ bbox_buffer[i + 1].id <= updates
            /\ bbox_buffer[1].id \in Nat /\ sent'.id \in Nat
        BY <2>3, <2>4, <2>5, EntryFacts
      <4>3. QED
        BY <4>1, <4>2, <2>5
    <3>4. QED
      BY <2>1, <2>5, <3>2, <3>3 DEF IdsOrdered
  <2>9. QED
    BY <2>6, <2>7, <2>8 DEF Inv
<1>4. CASE ClearBuffer
  <2>1. bbox_buffer' = <<>> /\ UNCHANGED <<now, updates, sent>>
    BY <1>4 DEF ClearBuffer, Clear
  <2>2. bbox_buffer' \in Seq(Entries) /\ Len(bbox_buffer') = 0
    BY <2>1, EmptySeq
  <2>3. QED
    BY <1>0, <2>1, <2>2, MaxBufferAssumption DEF Inv, TypeOK, TimeOrdered, IdsOrdered
<1>5. CASE UNCHANGED vars
  BY <1>5 DEF vars, Inv, TypeOK, TimeOrdered, IdsOrdered
<1>6. QED
  BY <1>1, <1>2, <1>3, <1>4, <1>5 DEF Next


\* The invariant holds of the empty buffer.
LEMMA InvInit == Init => Inv
<1> SUFFICES ASSUME Init PROVE Inv
  OBVIOUS
<1>1. bbox_buffer \in Seq(Entries) /\ Len(bbox_buffer) = 0
  BY EmptySeq DEF Init, DelayInit
<1>2. QED
  BY <1>1, TimingAssumption, MaxBufferAssumption
     DEF Init, Inv, TypeOK, TimeOrdered, IdsOrdered

LEMMA InvAlways == Spec => []Inv
  BY InvInit, InvStep, PTL DEF Spec

\* The buffer never holds more than MaxBuffer entries and every variable keeps
\* its type, whatever the order of updates, sends and clears.
THEOREM TypeCorrect == Spec => []TypeOK
  BY InvAlways, PTL DEF Inv

\* The timestamps in bbox_buffer are in order and not in the future: looking
\* at the front is enough for update_bbox_buffer and send_bboxes_to_client.
THEOREM AlwaysTimeOrdered == Spec => []TimeOrdered
  BY InvAlways, PTL DEF Inv

\* Messages carry box sets in parsing order, none twice.
THEOREM AlwaysDeliveredInOrder == Spec => DeliveredInOrder
<1>1. Inv /\ [Next]_vars => [sent' # sent => sent'.id > sent.id]_vars
  <2> SUFFICES ASSUME Inv, Next, sent' # sent PROVE sent'.id > sent.id
    OBVIOUS
  <2>1. SendBBoxes
    BY DEF Next, Tick, UpdateBuffer, ClearBuffer
  <2>2. bbox_buffer \in Seq(Entries) /\ bbox_buffer # <<>>
    BY <2>1 DEF Inv, TypeOK, SendBBoxes
  <2>3. Head(bbox_buffer) = bbox_buffer[1] /\ 1 \in 1..Len(bbox_buffer)
    BY <2>2, HeadTailProperties, EmptySeq
  <2>4. sent' = [id |-> bbox_buffer[1].id, at |-> now]
    BY <2>1, <2>3 DEF SendBBoxes, Emit
  <2>5. sent.id < bbox_buffer[1].id /\ bbox_buffer[1].id \in Nat /\ sent.id \in Nat
    BY <2>3, EntryFacts DEF Inv, TypeOK
  <2>6. QED
    BY <2>4, <2>5
<1>2. QED
  BY <1>1, InvAlways, PTL DEF Spec, DeliveredInOrder

\* Only update_bbox_buffer counts as an update.
LEMMA OnlyUpdateUpdates ==
  ASSUME Next, updates' # updates
  PROVE  \E boxes \in BOOLEAN : UpdateBuffer(boxes)
  BY DEF Next, Tick, SendBBoxes, ClearBuffer

\* What has a later timestamp is no older.
LEMMA YoungerLemma ==
  \A t, a, b, limit \in Nat : a <= b /\ t - a <= limit => t - b <= limit
  OBVIOUS

\* The loop of update_bbox_buffer that stops at the first entry young enough
\* leaves no entry over the age limit.
THEOREM AlwaysForgetsOld == Spec => UpdateForgetsOld
<1>1. Inv /\ [Next]_vars
        => [updates' # updates
              => \A i \in 1..Len(bbox_buffer') : now - bbox_buffer'[i].timestamp <= MaxAge]_vars
  <2> SUFFICES ASSUME Inv, Next, updates' # updates, NEW i \in 1..Len(bbox_buffer')
               PROVE  now - bbox_buffer'[i].timestamp <= MaxAge
    OBVIOUS
  <2>1. PICK boxes \in BOOLEAN : UpdateBuffer(boxes)
    BY OnlyUpdateUpdates
  <2>2. PICK m \in 0..Len(bbox_buffer) :
           /\ Updated(m, NewEntry(now, boxes))
           /\ m < Len(bbox_buffer) => Age(bbox_buffer[m + 1]) <= MaxAge
                                      \/ \E k \in 1..m : Age(bbox_buffer[k]) <= MaxAge
    BY <2>1, UpdateLemma DEF Inv
  <2>3. Len(bbox_buffer) \in Nat /\ now \in Nat /\ Len(bbox_buffer') = Len(bbox_buffer) + 1 - m
    BY <2>2 DEF Inv, TypeOK, Updated
  <2>4. CASE i = Len(bbox_buffer')
    <3>1. bbox_buffer'[i].timestamp = now
      BY <2>2, <2>4 DEF Updated, NewEntry
    <3>2. QED
      BY <3>1, <2>3, TimingAssumption
  <2>5. CASE i # Len(bbox_buffer')
    <3>1. i \in 1..(Len(bbox_buffer) - m) /\ m + i \in 1..Len(bbox_buffer) /\ m < Len(bbox_buffer)
      BY <2>3, <2>5
    <3>2. bbox_buffer'[i] = bbox_buffer[m + i]
      BY <3>1, <2>2 DEF Updated
    <3>3. PICK k \in 1..(m + 1) : k \in 1..Len(bbox_buffer) /\ Age(bbox_buffer[k]) <= MaxAge
      <4>1. m + 1 \in 1..(m + 1) /\ \A x \in 1..(m + 1) : x \in 1..Len(bbox_buffer)
        BY <2>3, <3>1
      <4>2. \A x \in 1..m : x \in 1..(m + 1)
        OBVIOUS
      <4>3. QED
        BY <4>1, <4>2, <2>2, <3>1
    <3>4. k = m + i \/ k < m + i
      BY <3>1
    <3>5. bbox_buffer[k].timestamp <= bbox_buffer[m + i].timestamp
      BY <3>1, <3>3, <3>4, EntryFacts DEF Inv, TimeOrdered
    <3>6. bbox_buffer[k].timestamp \in Nat /\ bbox_buffer[m + i].timestamp \in Nat
      BY <3>1, <3>3, EntryFacts
    <3>7. now - bbox_buffer[k].timestamp <= MaxAge
      BY <3>3 DEF Age
    <3>8. now \in Nat /\ MaxAge \in Nat
      BY <2>3, TimingAssumption
    <3>9. now - bbox_buffer[m + i].timestamp <= MaxAge
      BY <3>5, <3>6, <3>7, <3>8, YoungerLemma
    <3>10. QED
      BY <3>2, <3>9
  <2>6. QED
    BY <2>4, <2>5
<1>2. QED
  BY <1>1, InvAlways, PTL DEF Spec, UpdateForgetsOld

\* update_bbox_buffer drops an entry only for its age or for want of room.
THEOREM DropsAlwaysJustified == Spec => DropsJustified
<1>1. Inv /\ [Next]_vars
        => [updates' # updates
              => \A i \in 1..Len(bbox_buffer) :
                   \/ \E j \in 1..Len(bbox_buffer') : bbox_buffer'[j] = bbox_buffer[i]
                   \/ Age(bbox_buffer[i]) > MaxAge
                   \/ Len(bbox_buffer') = MaxBuffer]_vars
  <2> SUFFICES ASSUME Inv, Next, updates' # updates, NEW i \in 1..Len(bbox_buffer),
                      Len(bbox_buffer') # MaxBuffer, ~(Age(bbox_buffer[i]) > MaxAge)
               PROVE  \E j \in 1..Len(bbox_buffer') : bbox_buffer'[j] = bbox_buffer[i]
    OBVIOUS
  <2>1. PICK boxes \in BOOLEAN : UpdateBuffer(boxes)
    BY OnlyUpdateUpdates
  <2>2. PICK m \in 0..Len(bbox_buffer) :
           /\ Updated(m, NewEntry(now, boxes))
           /\ \A k \in 1..m : Age(bbox_buffer[k]) > MaxAge
    BY <2>1, UpdateLemma DEF Inv
  <2>3. Len(bbox_buffer) \in Nat /\ Len(bbox_buffer') = Len(bbox_buffer) + 1 - m
    BY <2>2 DEF Inv, TypeOK, Updated
  <2>4. i \notin 1..m
    BY <2>2
  <2>5. /\ i - m \in 1..(Len(bbox_buffer) - m) /\ i - m \in 1..Len(bbox_buffer')
        /\ m + (i - m) = i
    BY <2>3, <2>4
  <2>6. bbox_buffer'[i - m] = bbox_buffer[m + (i - m)]
    BY <2>2, <2>5 DEF Updated
  <2>7. QED
    BY <2>5, <2>6
<1>2. QED
  BY <1>1, InvAlways, PTL DEF Spec, DropsJustified

\* The buffer with timestamps and ages implements the timeless queue.
THEOREM RefinesDelayLine == Spec => ImplementsDelayLine
<1>1. Init => DelayInit
  BY DEF Init
<1>2. Inv /\ [Next]_vars => [DelayNext]_bbox_buffer
  <2> SUFFICES ASSUME Inv, [Next]_vars PROVE DelayNext \/ bbox_buffer' = bbox_buffer
    OBVIOUS
  <2>1. CASE Tick \/ UNCHANGED vars
    BY <2>1 DEF Tick, vars
  <2>2. ASSUME NEW boxes \in BOOLEAN, UpdateBuffer(boxes) PROVE DelayNext
    <3>1. NewEntry(now, boxes) \in Items
      <4>1. now \in 0..MaxTime /\ updates + 1 \in 0..MaxPuts
        BY <2>2, TimingAssumption DEF Inv, TypeOK, UpdateBuffer
      <4>2. NewEntry(now, boxes) \in Entries
        BY <4>1 DEF NewEntry, Entries
      <4>3. QED
        BY <4>2, EntriesAssumption
    <3>2. Put(NewEntry(now, boxes))
      BY <2>2 DEF UpdateBuffer, Put
    <3>3. QED
      BY <3>1, <3>2 DEF DelayNext
  <2>3. CASE SendBBoxes \/ ClearBuffer
    BY <2>3 DEF SendBBoxes, ClearBuffer, DelayNext
  <2>4. QED
    BY <2>1, <2>2, <2>3 DEF Next
<1>3. QED
  BY <1>1, <1>2, InvAlways, PTL DEF Spec, ImplementsDelayLine, DelaySpec

=============================================================================
