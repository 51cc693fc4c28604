--------------------------- MODULE DelayLineProofs ---------------------------
(***************************************************************************)
(* What the operations on bbox_buffer do to a queue of any length: the     *)
(* facts the proofs about BBoxSession and BBoxBuffer share.                *)
(***************************************************************************)
EXTENDS DelayLine, SequenceTheorems, TLAPS

\* What is left when the k oldest elements are dropped: the rest, in order.
LEMMA DropLemma ==
  ASSUME NEW S, NEW q \in Seq(S), NEW k \in 0..Len(q)
  PROVE  LET r == SubSeq(q, k + 1, Len(q))
         IN  /\ r \in Seq(S)
             /\ Len(r) = Len(q) - k
             /\ \A i \in 1..Len(r) : k + i \in 1..Len(q) /\ r[i] = q[k + i]
<1> DEFINE r == SubSeq(q, k + 1, Len(q))
<1>1. \A i \in (k + 1)..Len(q) : q[i] \in S
  OBVIOUS
<1>2. /\ r \in Seq(S)
      /\ Len(r) = Len(q) - k
      /\ \A i \in 1..(Len(q) - k) : r[i] = q[k + 1 + i - 1]
  BY <1>1, SubSeqProperties
<1> HIDE DEF r
<1>3. \A i \in 1..Len(r) : k + i \in 1..Len(q) /\ k + 1 + i - 1 = k + i
  BY <1>2
<1>4. /\ r \in Seq(S)
      /\ Len(r) = Len(q) - k
      /\ \A i \in 1..Len(r) : k + i \in 1..Len(q) /\ r[i] = q[k + i]
  BY <1>2, <1>3
<1>5. QED
  BY <1>4 DEF r

\* r is what an update keeps of q: all but the m oldest elements, in order, for
\* the m that is the number dropped for their age or what brings the queue to
\* its limit.
KeptOf(S, q, k, r) ==
  /\ r \in Seq(S)
  /\ Len(r) <= MaxBuffer
  /\ \E m \in k..Len(q) :
       /\ Len(r) = Len(q) - m
       /\ m = k \/ Len(r) = MaxBuffer
       /\ \A i \in 1..Len(r) : m + i \in 1..Len(q) /\ r[i] = q[m + i]

\* Dropping k elements and trimming to the limit, as update_bbox_buffer does.
LEMMA KeptLemma ==
  ASSUME NEW S, NEW q \in Seq(S), NEW k \in 0..Len(q)
  PROVE  KeptOf(S, q, k, Kept(q, k))
<1> DEFINE s == SubSeq(q, k + 1, Len(q))
<1>0. Kept(q, k) = Trim(s)
  BY DEF Kept
<1>1. /\ s \in Seq(S)
      /\ Len(s) = Len(q) - k
      /\ \A i \in 1..Len(s) : k + i \in 1..Len(q) /\ s[i] = q[k + i]
  BY DropLemma
<1> HIDE DEF s
<1>2. CASE Len(s) > MaxBuffer
  <2> DEFINE j == Len(s) - MaxBuffer
             r == SubSeq(s, j + 1, Len(s))
  <2>1. j \in 0..Len(s) /\ j = Len(s) - MaxBuffer
    BY <1>1, <1>2, MaxBufferAssumption
  <2>2. Kept(q, k) = r
    BY <1>0, <1>2 DEF Trim
  <2> HIDE DEF j
  <2>3. /\ r \in Seq(S)
        /\ Len(r) = Len(s) - j
        /\ \A i \in 1..Len(r) : j + i \in 1..Len(s) /\ r[i] = s[j + i]
    BY <1>1, <2>1, DropLemma
  <2> HIDE DEF r
  <2>4. k + j \in k..Len(q) /\ Len(r) = Len(q) - (k + j) /\ Len(r) = MaxBuffer
    <3>1. Len(s) = Len(q) - k /\ Len(r) = Len(s) - j
      BY <1>1, <2>3
    <3>2. Len(q) \in Nat /\ Len(s) \in Nat
      BY <1>1
    <3>3. QED
      BY <3>1, <3>2, <2>1, MaxBufferAssumption
  <2>5. ASSUME NEW i \in 1..Len(r) PROVE k + j + i \in 1..Len(q) /\ r[i] = q[k + j + i]
    <3>1. j + i \in 1..Len(s) /\ r[i] = s[j + i]
      BY <2>3
    <3>2. k + (j + i) \in 1..Len(q) /\ s[j + i] = q[k + (j + i)]
      BY <1>1, <3>1
    <3>3. k + (j + i) = k + j + i
      BY <2>1, <1>1
    <3>4. QED
      BY <3>1, <3>2, <3>3
  <2>6. \E m \in k..Len(q) :
          /\ Len(r) = Len(q) - m
          /\ m = k \/ Len(r) = MaxBuffer
          /\ \A i \in 1..Len(r) : m + i \in 1..Len(q) /\ r[i] = q[m + i]
    BY <2>4, <2>5, Zenon
  <2>7. Len(r) <= MaxBuffer
    BY <2>4, MaxBufferAssumption
  <2>8. KeptOf(S, q, k, r)
    BY <2>3, <2>6, <2>7, Zenon DEF KeptOf
  <2>9. QED
    BY <2>2, <2>8
<1>3. CASE ~(Len(s) > MaxBuffer)
  <2>1. Kept(q, k) = s
    BY <1>0, <1>3 DEF Trim
  <2>2. Len(s) <= MaxBuffer
    BY <1>1, <1>3, MaxBufferAssumption
  <2>3. k \in k..Len(q)
    OBVIOUS
  <2>4. KeptOf(S, q, k, s)
    BY <1>1, <2>2, <2>3, Zenon DEF KeptOf
  <2>5. QED
    BY <2>1, <2>4
<1>4. QED
  BY <1>2, <1>3

\* An update keeps the queue within its limit and adds only the new element.
LEMMA PutLemma ==
  ASSUME NEW S, NEW q \in Seq(S), NEW x \in S, NEW k \in 0..Len(q),
         NEW r, r = Kept(Append(q, x), k)
  PROVE  /\ r \in Seq(S)
         /\ Len(r) <= MaxBuffer
         /\ \A i \in 1..Len(r) : r[i] = x \/ \E j \in 1..Len(q) : r[i] = q[j]
<1> DEFINE a == Append(q, x)
<1>1. /\ a \in Seq(S)
      /\ Len(a) = Len(q) + 1
      /\ \A i \in 1..Len(q) : a[i] = q[i]
      /\ a[Len(q) + 1] = x
  BY AppendProperties
<1>0. r = Kept(a, k)
  OBVIOUS
<1> HIDE DEF a
<1>2. a \in Seq(S) /\ k \in 0..Len(a)
  BY <1>1
<1>3. KeptOf(S, a, k, r)
  BY <1>0, <1>2, KeptLemma, Zenon
<1>4. PICK m \in k..Len(a) :
        \A i \in 1..Len(r) : m + i \in 1..Len(a) /\ r[i] = a[m + i]
  BY <1>3, Zenon DEF KeptOf
<1>5. ASSUME NEW i \in 1..Len(r) PROVE r[i] = x \/ \E j \in 1..Len(q) : r[i] = q[j]
  <2>1. m + i \in 1..Len(a) /\ r[i] = a[m + i]
    BY <1>4
  <2>2. CASE m + i = Len(q) + 1
    BY <2>1, <2>2, <1>1
  <2>3. CASE m + i # Len(q) + 1
    <3>0. Len(a) = Len(q) + 1 /\ Len(q) \in Nat
      BY <1>1
    <3>1. m + i \in 1..Len(q)
      BY <2>1, <2>3, <3>0
    <3>2. QED
      BY <2>1, <3>1, <1>1
  <2>4. QED
    BY <2>2, <2>3
<1>6. QED
  BY <1>3, <1>5 DEF KeptOf

=============================================================================
