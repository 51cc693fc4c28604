-------------------------- MODULE TrafficWatchProofs -------------------------
(***************************************************************************)
(* Proofs about TrafficWatch, for all frames, tables and sizes.  The        *)
(* invariant Inv says that a tracked vehicle's history is the end of all    *)
(* its sightings, place by place (Latest), so that dropping the oldest      *)
(* position keeps it so; and that a complete load of a table left what the  *)
(* table was then (LinesCurrent, DotsCurrent), since an edit may undo       *)
(* another.  That the nearest dot exists rests on the order of the natural  *)
(* numbers.                                                                 *)
(***************************************************************************)
EXTENDS TrafficWatch, SequenceTheorems, WellFoundedInduction, TLAPS

-----------------------------------------------------------------------------
(* Queues of bounded length.                                                *)

\* h holds the latest of s, at most n of them.
Latest(h, s, n) ==
  /\ Len(h) = IF Len(s) < n THEN Len(s) ELSE n
  /\ \A i \in 1..Len(h) : h[i] = s[Len(s) - Len(h) + i]

\* What push_back followed by pop_front leaves: a queue with room has the new
\* element at its end; a full one has lost its first element for it.
LEMMA PushLemma ==
  ASSUME NEW S, NEW q \in Seq(S), NEW x \in S, NEW n \in Nat, Len(q) <= n
  PROVE  LET p == Push(q, x, n)
         IN  /\ p \in Seq(S)
             /\ Len(q) < n => /\ Len(p) = Len(q) + 1
                              /\ \A i \in 1..Len(q) : p[i] = q[i]
                              /\ p[Len(q) + 1] = x
             /\ ~(Len(q) < n) => /\ Len(p) = n
                                 /\ \A i \in 1..(n - 1) : p[i] = q[i + 1]
                                 /\ n > 0 => p[n] = x
<1> DEFINE a == Append(q, x)
           p == Push(q, x, n)
<1>1. /\ Len(q) \in Nat
      /\ a \in Seq(S) /\ Len(a) = Len(q) + 1
      /\ \A i \in 1..Len(q) : a[i] = q[i]
      /\ a[Len(q) + 1] = x
  OBVIOUS
<1>2. CASE Len(q) < n
  <2>1. p = a
    BY <1>2 DEF Push
  <2> HIDE DEF a, p
  <2>2. QED
    BY <1>1, <1>2, <2>1 DEF p
<1>3. CASE ~(Len(q) < n)
  <2>1. a # <<>> /\ Len(q) = n /\ p = Tail(a)
    BY <1>1, <1>3 DEF Push
  <2> HIDE DEF a, p
  <2>2. /\ p \in Seq(S) /\ Len(p) = n
        /\ \A i \in 1..n : p[i] = a[i + 1]
    BY <1>1, <2>1, HeadTailProperties
  <2>3. (\A i \in 1..(n - 1) : p[i] = q[i + 1]) /\ (n > 0 => p[n] = x)
    BY <1>1, <2>1, <2>2
  <2>4. QED
    BY <1>3, <2>2, <2>3 DEF p
<1>4. QED
  BY <1>2, <1>3

\* A queue of the latest stays one.
LEMMA LatestLemma ==
  ASSUME NEW S, NEW h \in Seq(S), NEW s \in Seq(S), NEW x \in S, NEW n \in Nat,
         Latest(h, s, n)
  PROVE  Latest(Push(h, x, n), Append(s, x), n)
<1> DEFINE p == Push(h, x, n)
           a == Append(s, x)
<1>1. Len(s) \in Nat /\ Len(h) \in Nat
  OBVIOUS
<1>2. /\ Len(h) = IF Len(s) < n THEN Len(s) ELSE n
      /\ \A i \in 1..Len(h) : h[i] = s[Len(s) - Len(h) + i]
  BY Zenon DEF Latest
<1>3. /\ Len(h) <= n
      /\ Len(h) < n => Len(s) = Len(h)
      /\ ~(Len(h) < n) => Len(h) = n /\ n <= Len(s)
  BY <1>1, <1>2
<1>4. /\ Len(h) < n => /\ Len(p) = Len(h) + 1
                       /\ \A i \in 1..Len(h) : p[i] = h[i]
                       /\ p[Len(h) + 1] = x
      /\ ~(Len(h) < n) => /\ Len(p) = n
                          /\ \A i \in 1..(n - 1) : p[i] = h[i + 1]
                          /\ n > 0 => p[n] = x
  BY <1>3, PushLemma
<1>5. /\ Len(a) = Len(s) + 1
      /\ \A i \in 1..Len(s) : a[i] = s[i]
      /\ a[Len(s) + 1] = x
  OBVIOUS
<1> HIDE DEF p, a
<1>6. CASE Len(h) < n
  <2>1. Len(p) = Len(a) /\ Len(a) <= n /\ Len(a) = Len(h) + 1
    BY <1>1, <1>3, <1>4, <1>5, <1>6
  <2>2. \A i \in 1..Len(h) : p[i] = a[i]
    <3> SUFFICES ASSUME NEW i \in 1..Len(h) PROVE p[i] = a[i]
      OBVIOUS
    <3>1. p[i] = h[i]
      BY <1>4, <1>6, Zenon
    <3>2. h[i] = s[Len(s) - Len(h) + i]
      BY <1>2, Zenon
    <3>3. Len(s) - Len(h) + i = i
      BY <1>1, <1>3, <1>6
    <3>4. a[i] = s[i]
      BY <1>3, <1>5, <1>6
    <3>5. QED
      BY <3>1, <3>2, <3>3, <3>4
  <2>3. \A i \in 1..Len(p) : p[i] = a[i]
    BY <1>1, <1>3, <1>4, <1>5, <1>6, <2>1, <2>2
  <2>4. QED
    BY <1>1, <2>1, <2>3 DEF Latest, p, a
<1>7. CASE ~(Len(h) < n)
  <2>1. Len(p) = n /\ Len(h) = n /\ n <= Len(s) /\ Len(a) = Len(s) + 1
    BY <1>3, <1>4, <1>5, <1>7
  <2>2. \A i \in 1..(n - 1) : p[i] = a[Len(a) - n + i]
    <3> SUFFICES ASSUME NEW i \in 1..(n - 1) PROVE p[i] = a[Len(s) + 1 - n + i]
      BY <2>1
    <3>1. p[i] = h[i + 1] /\ i + 1 \in 1..n
      BY <1>4, <1>7
    <3>2. h[i + 1] = s[Len(s) - n + (i + 1)]
      BY <1>2, <2>1, <3>1
    <3>3. Len(s) - n + (i + 1) = Len(s) + 1 - n + i /\ Len(s) + 1 - n + i \in 1..Len(s)
      BY <1>1, <2>1
    <3>4. QED
      BY <1>5, <3>1, <3>2, <3>3
  <2>3. n > 0 => p[n] = a[Len(a) - n + n]
    BY <1>1, <1>4, <1>5, <1>7, <2>1
  <2>4. \A i \in 1..Len(p) : p[i] = a[Len(a) - Len(p) + i]
    BY <2>1, <2>2, <2>3
  <2>5. Len(p) = IF Len(a) < n THEN Len(a) ELSE n
    BY <1>1, <2>1
  <2>6. QED
    BY <2>4, <2>5, Zenon DEF Latest, p, a
<1>8. QED
  BY <1>6, <1>7

\* The same as HistoryIsLatest says it.
LEMMA LatestIsSuffix ==
  ASSUME NEW S, NEW h \in Seq(S), NEW s \in Seq(S), NEW n \in Nat, Latest(h, s, n)
  PROVE  LET m == IF Len(s) < n THEN Len(s) ELSE n
         IN  h = SubSeq(s, Len(s) - m + 1, Len(s))
<1> DEFINE m == IF Len(s) < n THEN Len(s) ELSE n
           l == Len(s) - m + 1
           q == SubSeq(s, l, Len(s))
<1>1. /\ Len(s) \in Nat /\ Len(h) = m /\ m \in 0..Len(s) /\ l \in Int
      /\ \A i \in 1..m : h[i] = s[Len(s) - m + i]
  <2>1. Len(s) \in Nat /\ m \in 0..Len(s) /\ l \in Int
    OBVIOUS
  <2> HIDE DEF m
  <2>2. Len(h) = m /\ \A i \in 1..Len(h) : h[i] = s[Len(s) - Len(h) + i]
    BY Zenon DEF Latest, m
  <2>3. QED
    BY <2>1, <2>2
<1>2. \A i \in l..Len(s) : s[i] \in S
  BY <1>1
<1>3. /\ q \in Seq(S)
      /\ Len(q) = IF l <= Len(s) THEN Len(s) - l + 1 ELSE 0
      /\ \A i \in 1..(Len(s) - l + 1) : q[i] = s[l + i - 1]
  <2> HIDE DEF l, m
  <2>1. Len(s) \in Int /\ l \in Int
    BY <1>1
  <2>2. Len(s) - l + 1 \in Nat
    BY <1>1 DEF l
  <2>3. Len(q) = Len(s) - l + 1 /\ \A i \in 1..(Len(s) - l + 1) : q[i] = s[l + i - 1]
    BY <2>1, <2>2
  <2>4. QED
    BY <1>2, <2>1, <2>2, <2>3
<1> HIDE DEF q, m
<1>4. Len(q) = m /\ \A i \in 1..m : q[i] = s[Len(s) - m + i]
  <2>1. Len(s) - l + 1 = m /\ Len(q) = m
    BY <1>1, <1>3
  <2>2. ASSUME NEW i \in 1..m PROVE q[i] = s[Len(s) - m + i]
    <3>1. l + i - 1 = Len(s) - m + i
      BY <1>1
    <3> HIDE DEF l
    <3>2. q[i] = s[l + i - 1]
      BY <1>3, <2>1
    <3>3. QED
      BY <3>1, <3>2
  <2>3. QED
    BY <2>1, <2>2
<1> HIDE DEF l
<1>5. h = q
  BY <1>1, <1>3, <1>4, SeqEqual
<1>6. QED
  BY <1>5 DEF q, l, m
-----------------------------------------------------------------------------
(* The nearest dot.                                                         *)

\* A set of natural numbers that is not empty has a least element.
LEMMA LeastLemma ==
  ASSUME NEW T, T \subseteq Nat, T # {}
  PROVE  \E x \in T : \A y \in T : x <= y
<1>1. PICK x \in T : \A y \in T : <<y, x>> \notin OpToRel(<, Nat)
  BY NatLessThanWellFounded, WFMin, Zenon
<1>2. \A y \in T : ~(y < x)
  BY <1>1, Zenon DEF OpToRel
<1>3. \A y \in T : x <= y
  BY <1>2
<1>4. QED
  BY <1>3

\* The square of a distance is a natural number.
LEMMA DistLemma ==
  ASSUME NEW p \in Point, NEW q \in Point
  PROVE  DistSq(p, q) \in Nat
<1>1. \A n \in Int : Sq(n) \in Nat
  <2> SUFFICES ASSUME NEW n \in Int PROVE n * n \in Nat
    BY DEF Sq
  <2>1. CASE n >= 0
    BY <2>1
  <2>2. CASE n < 0
    BY <2>2
  <2>3. QED
    BY <2>1, <2>2
<1>2. p[1] - q[1] \in Int /\ p[2] - q[2] \in Int
  BY DEF Point
<1>3. QED
  BY <1>1, <1>2 DEF DistSq


\* Scaling maps base lines to base lines.
LEMMA PairLemma ==
  ASSUME NEW r \in Pairs
  PROVE  [r EXCEPT !.p1 = Scaled(@), !.p2 = Scaled(@)] \in Pairs
<1>1. Scaled(r.p1) \in Point /\ Scaled(r.p2) \in Point
  BY ScaleAssumption DEF Pairs, Point, Scaled
<1>2. QED
  BY <1>1 DEF Pairs

\* board faces a dot of the pairs that no other is nearer to pos than.
Facing(pairs, pos, board) ==
  \E pair \in {pairs[i] : i \in DOMAIN pairs} :
    \E near \in {<<pair.p1, pair.id2>>, <<pair.p2, pair.id1>>} :
      /\ near[2] = board
      /\ \A i \in DOMAIN pairs : \A q \in {pairs[i].p1, pairs[i].p2} :
           DistSq(pos, near[1]) <= DistSq(pos, q)

\* Of finitely many distances one is least, and of the places where it occurs one
\* is first: what the loop of analyze_risk_and_alert stops with.
LEMMA FirstLeastLemma ==
  ASSUME NEW n \in Nat \ {0}, NEW f \in [1..n -> Nat]
  PROVE  \E i \in 1..n : \A j \in (1..n) \ {i} :
           f[i] < f[j] \/ (i < j /\ ~(f[j] < f[i]))
<1> DEFINE T == {f[i] : i \in 1..n}
<1>1. T \subseteq Nat /\ T # {}
  <2>1. 1 \in 1..n
    OBVIOUS
  <2>2. QED
    BY <2>1
<1>2. PICK m \in T : \A y \in T : m <= y
  BY <1>1, LeastLemma, Zenon
<1> DEFINE U == {i \in 1..n : f[i] = m}
<1>3. U \subseteq Nat /\ U # {}
  <2>1. PICK i \in 1..n : f[i] = m
    BY <1>2
  <2>2. QED
    BY <2>1
<1>4. PICK k \in U : \A y \in U : k <= y
  BY <1>3, LeastLemma, Zenon
<1>5. k \in 1..n /\ f[k] = m
  OBVIOUS
<1>6. ASSUME NEW j \in (1..n) \ {k}
      PROVE  f[k] < f[j] \/ (k < j /\ ~(f[j] < f[k]))
  <2>1. m <= f[j] /\ f[j] \in Nat /\ m \in Nat
    BY <1>1, <1>2
  <2>2. CASE f[j] = m
    <3>1. k <= j
      BY <1>4, <2>2
    <3>2. QED
      BY <1>5, <2>1, <2>2, <3>1
  <2>3. CASE f[j] # m
    BY <1>5, <2>1, <2>3
  <2>4. QED
    BY <2>2, <2>3
<1>7. QED
  BY <1>5, <1>6

\* Which dots come from pair k.
LEMMA HalfLemma ==
  ASSUME NEW k \in Int
  PROVE  /\ (2 * k - 1) % 2 = 1 /\ ((2 * k - 1) + 1) \div 2 = k
         /\ (2 * k) % 2 # 1 /\ (2 * k + 1) \div 2 = k
<1>1. (2 * k - 1) % 2 = 1
  OBVIOUS
<1>2. ((2 * k - 1) + 1) \div 2 = k
  OBVIOUS
<1>3. (2 * k) % 2 = 0
  OBVIOUS
<1>4. (2 * k + 1) \div 2 = k
  OBVIOUS
<1>5. QED
  BY <1>1, <1>2, <1>3, <1>4

\* The dots of the pairs, and where each of them is.
LEMMA DotsLemma ==
  ASSUME NEW pairs \in Seq(Pairs)
  PROVE  /\ DOMAIN Dots(pairs) = 1..(2 * Len(pairs))
         /\ \A i \in 1..(2 * Len(pairs)) :
              /\ Dots(pairs)[i].at \in Point
              /\ \E k \in DOMAIN pairs :
                   \/ Dots(pairs)[i] = [at |-> pairs[k].p1, opposite |-> pairs[k].id2]
                   \/ Dots(pairs)[i] = [at |-> pairs[k].p2, opposite |-> pairs[k].id1]
         /\ \A k \in DOMAIN pairs :
              /\ 2 * k - 1 \in 1..(2 * Len(pairs)) /\ Dots(pairs)[2 * k - 1].at = pairs[k].p1
              /\ 2 * k \in 1..(2 * Len(pairs)) /\ Dots(pairs)[2 * k].at = pairs[k].p2
<1> DEFINE n == 2 * Len(pairs)
           P(i) == [at |-> pairs[i].p1, opposite |-> pairs[i].id2]
           Q(i) == [at |-> pairs[i].p2, opposite |-> pairs[i].id1]
<1>1. Len(pairs) \in Nat /\ DOMAIN pairs = 1..Len(pairs)
  OBVIOUS
<1>2. /\ DOMAIN Dots(pairs) = 1..n
      /\ \A i \in 1..n : Dots(pairs)[i] =
           IF i % 2 = 1 THEN P((i + 1) \div 2) ELSE Q((i + 1) \div 2)
  BY DEF Dots
<1>3. \A k \in DOMAIN pairs : pairs[k] \in Pairs
  OBVIOUS
<1>4. \A k \in DOMAIN pairs : pairs[k].p1 \in Point /\ pairs[k].p2 \in Point
  BY <1>3 DEF Pairs
<1>5. \A k \in DOMAIN pairs : P(k).at = pairs[k].p1 /\ Q(k).at = pairs[k].p2
  OBVIOUS
<1> HIDE DEF P, Q
<1>6. ASSUME NEW i \in 1..n
      PROVE  /\ Dots(pairs)[i].at \in Point
             /\ \E k \in DOMAIN pairs : Dots(pairs)[i] = P(k) \/ Dots(pairs)[i] = Q(k)
  <2>1. (i + 1) \div 2 \in DOMAIN pairs
    BY <1>1
  <2>2. PICK k \in DOMAIN pairs : Dots(pairs)[i] = P(k) \/ Dots(pairs)[i] = Q(k)
    BY <1>2, <2>1
  <2>3. QED
    BY <1>4, <1>5, <2>2
<1>7. ASSUME NEW k \in DOMAIN pairs
      PROVE  /\ 2 * k - 1 \in 1..n /\ Dots(pairs)[2 * k - 1].at = pairs[k].p1
             /\ 2 * k \in 1..n /\ Dots(pairs)[2 * k].at = pairs[k].p2
  <2>1. /\ 2 * k - 1 \in 1..n /\ (2 * k - 1) % 2 = 1 /\ ((2 * k - 1) + 1) \div 2 = k
        /\ 2 * k \in 1..n /\ (2 * k) % 2 # 1 /\ (2 * k + 1) \div 2 = k
    <3>1. k \in Int /\ 1 <= k /\ k <= Len(pairs)
      BY <1>1
    <3>2. 2 * k - 1 \in 1..n /\ 2 * k \in 1..n
      BY <1>1, <3>1
    <3>3. QED
      BY <3>1, <3>2, HalfLemma
  <2>2. Dots(pairs)[2 * k - 1] = P(k) /\ Dots(pairs)[2 * k] = Q(k)
    BY <1>2, <2>1
  <2>3. QED
    BY <1>5, <2>1, <2>2
<1>8. QED
  BY <1>2, <1>6, <1>7, Zenon DEF P, Q

\* The board NearestDot gives faces a nearest dot.
LEMMA NearestLemma ==
  ASSUME NEW pairs \in Seq(Pairs), pairs # <<>>, NEW pos \in Point
  PROVE  Facing(pairs, pos, NearestDot(pairs, pos).opposite)
<1> DEFINE dots == Dots(pairs)
           n == 2 * Len(pairs)
           f == [i \in 1..n |-> DistSq(pos, dots[i].at)]
           First(i) == \A j \in DOMAIN dots \ {i} :
                         \/ DistSq(pos, dots[i].at) < DistSq(pos, dots[j].at)
                         \/ i < j /\ ~(DistSq(pos, dots[j].at) < DistSq(pos, dots[i].at))
           c == CHOOSE i \in DOMAIN dots : First(i)
<1>1. NearestDot(pairs, pos) = dots[c]
  BY DEF NearestDot
<1>2. n \in Nat \ {0}
  OBVIOUS
<1>3. DOMAIN dots = 1..n /\ \A i \in 1..n : dots[i].at \in Point
  BY DotsLemma
<1> HIDE DEF dots, n
<1>4. f \in [1..n -> Nat]
  BY <1>3, DistLemma
<1>5. \E i \in DOMAIN dots : First(i)
  <2>1. PICK i \in 1..n : \A j \in (1..n) \ {i} : f[i] < f[j] \/ (i < j /\ ~(f[j] < f[i]))
    <3> HIDE DEF f
    <3>1. QED
      BY <1>2, <1>4, FirstLeastLemma
  <2>2. First(i)
    BY <1>3, <2>1
  <2>3. QED
    BY <1>3, <2>2
<1> HIDE DEF First
<1>6. c \in DOMAIN dots /\ First(c)
  BY <1>5
<1> HIDE DEF c
<1>7. ASSUME NEW j \in 1..n
      PROVE  DistSq(pos, dots[c].at) <= DistSq(pos, dots[j].at)
  <2>1. DistSq(pos, dots[c].at) \in Nat /\ DistSq(pos, dots[j].at) \in Nat
    BY <1>3, <1>6, DistLemma
  <2>2. QED
    BY <1>3, <1>6, <2>1 DEF First
<1>8. \A k \in DOMAIN pairs : \A q \in {pairs[k].p1, pairs[k].p2} :
        DistSq(pos, dots[c].at) <= DistSq(pos, q)
  <2>1. \A k \in DOMAIN pairs : /\ 2 * k - 1 \in 1..n /\ dots[2 * k - 1].at = pairs[k].p1
                                /\ 2 * k \in 1..n /\ dots[2 * k].at = pairs[k].p2
    BY DotsLemma, Zenon DEF dots, n
  <2>2. QED
    BY <1>7, <2>1, Zenon
<1>9. PICK k \in DOMAIN pairs : \/ dots[c] = [at |-> pairs[k].p1, opposite |-> pairs[k].id2]
                                \/ dots[c] = [at |-> pairs[k].p2, opposite |-> pairs[k].id1]
  <2>1. \A i \in 1..n : \E k \in DOMAIN pairs :
          \/ dots[i] = [at |-> pairs[k].p1, opposite |-> pairs[k].id2]
          \/ dots[i] = [at |-> pairs[k].p2, opposite |-> pairs[k].id1]
    BY DotsLemma, Zenon DEF dots, n
  <2>2. c \in 1..n
    BY <1>3, <1>6
  <2>3. QED
    BY <2>1, <2>2, Zenon
<1>10. \E near \in {<<pairs[k].p1, pairs[k].id2>>, <<pairs[k].p2, pairs[k].id1>>} :
         near[1] = dots[c].at /\ near[2] = dots[c].opposite
  BY <1>9
<1>11. QED
  BY <1>1, <1>8, <1>10, Zenon DEF Facing
-----------------------------------------------------------------------------
(* The inductive invariant.                                                 *)

\* The two parts of SettingsCurrent, said of any rows of their tables.
LinesCurrent(rows) ==
  \A i \in 1..RowsRead(rows) :
    LET line == rows[i]
    IN  line.name \in DOMAIN rule_lines /\ rule_lines[line.name] = Vector(line)

DotsCurrent(rows) ==
  /\ base_line_pairs = ScaledRows(rows, Len(rows))
  /\ rows # <<>> => dot_center = CentreOf(base_line_pairs)

\* What is loaded of a table is what the table was at its last load, if that was
\* complete: an edit may bring the table back to what it was then.
SettingsInv ==
  /\ loaded \in [lines : {t.lines : t \in Tables}, baseLines : {t.baseLines : t \in Tables}]
  /\ clean \in [lines : BOOLEAN, baseLines : BOOLEAN]
  /\ base_line_pairs \in Seq(Pairs) /\ Len(base_line_pairs) <= Len(loaded.baseLines)
  /\ DOMAIN rule_lines \subseteq Names
  /\ clean.lines => LinesCurrent(loaded.lines)
  /\ clean.baseLines => DotsCurrent(loaded.baseLines)

\* A tracked vehicle has a history, which is the end of its sightings.
Tracked(v) ==
  /\ history[v] \in Seq(Point) /\ sightings[v] \in Seq(Point)
  /\ Latest(history[v], sightings[v], HistorySize)

TracksInv ==
  /\ frame_cache \in Seq(Frames) /\ Len(frame_cache) <= FrameCacheSize
  /\ DOMAIN history \subseteq Ids /\ DOMAIN sightings = DOMAIN history
  /\ \A v \in DOMAIN history : Tracked(v)
  /\ TrackedSeenLately

Inv ==
  /\ running \in {"starting", "load_rule_lines", "running", "ended"}
  /\ tables \in Tables /\ edits \in 0..MaxEdits /\ arrived \in 0..MaxFrames
  /\ event \in Events \cup {NoEvent}
  /\ SettingsInv
  /\ TracksInv
  /\ AlertsJustified

\* The invariant holds when the program starts.
LEMMA InitLemma == Init => Inv
<1> SUFFICES ASSUME Init PROVE Inv
  OBVIOUS
<1>1. DOMAIN Empty = {}
  BY DEF Empty
<1>2. tables.baseLines \in Seq(Pairs)
  BY TablesAssumption DEF Init
<1>3. SettingsInv
  <2>1. Len(<<>>) <= Len(tables.baseLines) /\ <<>> \in Seq(Pairs)
    BY <1>2
  <2>2. QED
    BY <1>1, <2>1 DEF Init, SettingsInv
<1>4. TracksInv
  BY <1>1, SizesAssumption DEF Init, TracksInv, TrackedSeenLately
<1>5. AlertsJustified
  BY DEF Init, AlertsJustified
<1>6. QED
  BY <1>3, <1>4, <1>5, BoundsAssumption DEF Init, Inv

\* A load of the base lines, complete or cut short, keeps the invariant of the
\* settings.
LEMMA DotsLoadLemma ==
  ASSUME SettingsInv, tables \in Tables, LoadDotsAndCenter
  PROVE  SettingsInv'
<1> DEFINE rows == tables.baseLines
           Pair(i) == [rows[i] EXCEPT !.p1 = Scaled(@), !.p2 = Scaled(@)]
<1>1. rows \in Seq(Pairs)
  BY TablesAssumption
<1>2. PICK n \in 0..Len(rows) :
        /\ LoadDots(n)
        /\ clean' = [clean EXCEPT !.baseLines = (n = Len(rows))]
  BY Zenon DEF LoadDotsAndCenter
<1>3. loaded' = [loaded EXCEPT !.baseLines = rows] /\ rule_lines' = rule_lines
  BY DEF LoadDotsAndCenter
<1>4. /\ loaded' \in [lines : {t.lines : t \in Tables}, baseLines : {t.baseLines : t \in Tables}]
      /\ loaded'.lines = loaded.lines /\ loaded'.baseLines = rows
  BY <1>3 DEF SettingsInv
<1>5. /\ clean' \in [lines : BOOLEAN, baseLines : BOOLEAN]
      /\ clean'.lines = clean.lines /\ clean'.baseLines = (n = Len(rows))
  <2>1. (n = Len(rows)) \in BOOLEAN
    OBVIOUS
  <2>2. QED
    BY <1>2, <2>1, Zenon DEF SettingsInv
<1>6. base_line_pairs' = [i \in 1..n |-> Pair(i)]
  BY <1>2, Zenon DEF LoadDots, ScaledRows
<1>7. base_line_pairs' \in Seq(Pairs) /\ Len(base_line_pairs') <= Len(rows)
  <2>1. \A i \in 1..n : Pair(i) \in Pairs
    <3> SUFFICES ASSUME NEW i \in 1..n PROVE Pair(i) \in Pairs
      OBVIOUS
    <3>1. rows[i] \in Pairs
      BY <1>1
    <3>2. QED
      BY <3>1, PairLemma, Zenon
  <2> HIDE DEF Pair
  <2>2. n \in Nat /\ n <= Len(rows)
    BY <1>1
  <2>3. base_line_pairs' \in Seq(Pairs) /\ Len(base_line_pairs') = n
    BY <1>6, <2>1, <2>2
  <2>4. QED
    BY <2>2, <2>3
<1>8. ASSUME clean'.baseLines PROVE DotsCurrent(rows)'
  <2>1. n = Len(rows)
    BY <1>5, <1>8
  <2>2. base_line_pairs' = ScaledRows(rows, Len(rows))
    BY <1>2, <2>1, Zenon DEF LoadDots
  <2>3. ASSUME rows # <<>> PROVE dot_center' = CentreOf(base_line_pairs')
    <3>1. n > 0
      BY <1>1, <2>1, <2>3
    <3>2. QED
      BY <1>2, <2>1, <3>1, Zenon DEF LoadDots
  <2>4. tables' = tables
    BY DEF LoadDotsAndCenter, database
  <2>5. QED
    BY <2>2, <2>3, <2>4, Zenon DEF DotsCurrent
<1>9. ASSUME clean'.lines PROVE LinesCurrent(loaded.lines)'
  <2>1. LinesCurrent(loaded.lines)
    BY <1>5, <1>9 DEF SettingsInv
  <2>2. loaded'.lines = loaded.lines
    BY <1>4
  <2>3. QED
    BY <1>3, <2>1, <2>2, Zenon DEF LinesCurrent
<1>10. DotsCurrent(rows)' => DotsCurrent(loaded.baseLines)'
  <2>1. tables' = tables
    BY DEF LoadDotsAndCenter, database
  <2>2. QED
    BY <1>4, <2>1, Zenon DEF DotsCurrent
<1>11. QED
  BY <1>3, <1>4, <1>5, <1>7, <1>8, <1>9, <1>10 DEF SettingsInv

\* So does a load of the rule lines.
LEMMA LinesLoadLemma ==
  ASSUME SettingsInv, tables \in Tables, LoadRuleLines
  PROVE  SettingsInv'
<1> DEFINE rows == tables.lines
<1>1. /\ rows \in Seq(RuleLine)
      /\ \A i, j \in DOMAIN rows : rows[i].name = rows[j].name => i = j
  BY TablesAssumption
<1>2. PICK k \in 0..RowsRead(rows) :
        /\ rule_lines' = LinesLoaded(k)
        /\ clean' = [clean EXCEPT !.lines = (k = RowsRead(rows))]
  BY Zenon DEF LoadRuleLines
<1>3. /\ loaded' = [loaded EXCEPT !.lines = rows] /\ tables' = tables
      /\ base_line_pairs' = base_line_pairs /\ dot_center' = dot_center
  BY DEF LoadRuleLines, database
<1>4. /\ loaded' \in [lines : {t.lines : t \in Tables}, baseLines : {t.baseLines : t \in Tables}]
      /\ loaded'.lines = rows /\ loaded'.baseLines = loaded.baseLines
  BY <1>3 DEF SettingsInv
<1>5. /\ clean' \in [lines : BOOLEAN, baseLines : BOOLEAN]
      /\ clean'.lines = (k = RowsRead(rows)) /\ clean'.baseLines = clean.baseLines
  <2>1. (k = RowsRead(rows)) \in BOOLEAN
    OBVIOUS
  <2>2. QED
    BY <1>2, <2>1, Zenon DEF SettingsInv
<1> DEFINE names == {rows[i].name : i \in 1..k}
           RowOf(name) == rows[CHOOSE i \in 1..k : rows[i].name = name]
<1>6. rule_lines' = [name \in DOMAIN rule_lines \cup names |->
                       IF name \in names THEN Vector(RowOf(name)) ELSE rule_lines[name]]
  BY <1>2, Zenon DEF LinesLoaded
<1>7. 1..k \subseteq DOMAIN rows
  <2>1. RowsRead(rows) \in 0..Len(rows)
    BY <1>1, BoundsAssumption DEF RowsRead
  <2>2. QED
    BY <1>1, <2>1
<1>8. DOMAIN rule_lines' \subseteq Names
  <2>1. names \subseteq Names
    <3> SUFFICES ASSUME NEW i \in 1..k PROVE rows[i].name \in Names
      OBVIOUS
    <3>1. rows[i].name \in {rows[j].name : j \in DOMAIN rows}
      BY <1>7
    <3>2. QED
      BY <3>1 DEF Names
  <2> HIDE DEF names, RowOf
  <2>2. DOMAIN rule_lines' = DOMAIN rule_lines \cup names
    BY <1>6
  <2>3. QED
    BY <2>1, <2>2 DEF SettingsInv
<1>9. ASSUME NEW i \in 1..k
      PROVE  LET line == rows[i]
             IN  line.name \in DOMAIN rule_lines' /\ rule_lines'[line.name] = Vector(line)
  <2> DEFINE name == rows[i].name
  <2>1. name \in names
    OBVIOUS
  <2>2. RowOf(name) = rows[i]
    <3>1. (CHOOSE j \in 1..k : rows[j].name = name) = i
      BY <1>1, <1>7
    <3>2. QED
      BY <3>1
  <2> HIDE DEF names, RowOf
  <2>3. name \in DOMAIN rule_lines' /\ rule_lines'[name] = Vector(RowOf(name))
    BY <1>6, <2>1
  <2>4. QED
    BY <2>2, <2>3
<1>10. ASSUME clean'.lines PROVE LinesCurrent(loaded.lines)'
  <2>1. k = RowsRead(rows)
    BY <1>5, <1>10
  <2>2. \A i \in 1..RowsRead(rows) :
          LET line == rows[i]
          IN  line.name \in DOMAIN rule_lines' /\ rule_lines'[line.name] = Vector(line)
    BY <1>9, <2>1, Zenon
  <2>3. loaded'.lines = rows
    BY <1>4
  <2>4. QED
    BY <2>2, <2>3, Zenon DEF LinesCurrent
<1>11. ASSUME clean'.baseLines PROVE DotsCurrent(loaded.baseLines)'
  <2>1. DotsCurrent(loaded.baseLines)
    BY <1>5, <1>11 DEF SettingsInv
  <2>2. loaded'.baseLines = loaded.baseLines
    BY <1>4
  <2>3. QED
    BY <1>3, <2>1, <2>2, Zenon DEF DotsCurrent
<1>12. QED
  BY <1>3, <1>4, <1>5, <1>8, <1>10, <1>11 DEF SettingsInv

\* A frame keeps the invariant of the cache and the tracks.
LEMMA FrameLemma ==
  ASSUME TracksInv, NEW frame \in Frames, frame # NoFrame, HandleFrame(frame)
  PROVE  TracksInv'
<1> DEFINE seen == SeenIn(frame)
           kept == Kept(frame, frame_cache')
<1>1. frame \in Seq(Object) /\ \A i, j \in DOMAIN frame : frame[i].id = frame[j].id => i = j
  BY FramesAssumption, Zenon
<1>2. frame_cache' = Push(frame_cache, frame, FrameCacheSize)
  BY Zenon DEF HandleFrame
<1>3. /\ history' = [id \in kept |->
           IF id \in seen THEN Push(Get(history, id), PosIn(frame, id), HistorySize)
                          ELSE history[id]]
      /\ sightings' = [id \in kept |->
           IF id \in seen THEN Append(Get(sightings, id), PosIn(frame, id))
                          ELSE sightings[id]]
  BY Zenon DEF HandleFrame, UpdateVehiclePositions
<1>4. /\ frame_cache' \in Seq(Frames) /\ Len(frame_cache') <= FrameCacheSize
      /\ \E i \in DOMAIN frame_cache' : frame_cache'[i] = frame
  <2> DEFINE p == Push(frame_cache, frame, FrameCacheSize)
  <2>1. FrameCacheSize \in Nat /\ FrameCacheSize > 0
    BY SizesAssumption
  <2>2. frame_cache \in Seq(Frames) /\ Len(frame_cache) \in Nat /\ Len(frame_cache) <= FrameCacheSize
    BY DEF TracksInv
  <2>3. /\ p \in Seq(Frames)
        /\ Len(frame_cache) < FrameCacheSize =>
             Len(p) = Len(frame_cache) + 1 /\ p[Len(frame_cache) + 1] = frame
        /\ ~(Len(frame_cache) < FrameCacheSize) => Len(p) = FrameCacheSize /\ p[FrameCacheSize] = frame
    BY <2>1, <2>2, PushLemma
  <2> HIDE DEF p
  <2>4. Len(p) <= FrameCacheSize /\ Len(p) \in 1..Len(p) /\ p[Len(p)] = frame /\ DOMAIN p = 1..Len(p)
    BY <2>1, <2>2, <2>3
  <2>5. QED
    BY <1>2, <2>3, <2>4, Zenon DEF p
<1>5. ASSUME NEW v \in seen
      PROVE  v \in Ids /\ Mentions(frame, v) /\ PosIn(frame, v) \in Point
  <2>1. PICK i \in DOMAIN frame : frame[i].id = v /\ IsSighting(frame[i])
    BY DEF SeenIn
  <2>2. frame[i] \in Object
    BY <1>1
  <2>3. v \in Ids /\ frame[i].pos \in Point
    BY <2>1, <2>2 DEF Object, IsSighting
  <2>4. (CHOOSE j \in DOMAIN frame : frame[j].id = v) = i
    BY <1>1, <2>1
  <2>5. QED
    BY <2>1, <2>3, <2>4 DEF Mentions, PosIn
<1>6. /\ kept \subseteq seen \cup DOMAIN history
      /\ \A v \in kept : v \in seen \/ \E i \in DOMAIN frame_cache' : Mentions(frame_cache'[i], v)
  BY Zenon DEF Kept
<1> HIDE DEF seen, kept
<1>7. DOMAIN history' = kept /\ DOMAIN sightings' = kept
  BY <1>3
<1>8. kept \subseteq Ids
  BY <1>5, <1>6 DEF TracksInv
<1>9. ASSUME NEW v \in kept PROVE Tracked(v)'
  <2>1. CASE v \in seen
    <3> DEFINE h == Get(history, v)
               s == Get(sightings, v)
               x == PosIn(frame, v)
    <3>1. h \in Seq(Point) /\ s \in Seq(Point) /\ Latest(h, s, HistorySize)
      <4>1. CASE v \in DOMAIN history
        BY <4>1 DEF TracksInv, Tracked, Get
      <4>2. CASE v \notin DOMAIN history
        <5>1. h = <<>> /\ s = <<>>
          BY <4>2 DEF TracksInv, Get
        <5>2. Latest(<<>>, <<>>, HistorySize)
          BY SizesAssumption DEF Latest
        <5>3. QED
          BY <5>1, <5>2
      <4>3. QED
        BY <4>1, <4>2
    <3>2. x \in Point
      BY <1>5, <2>1
    <3>3. history'[v] = Push(h, x, HistorySize) /\ sightings'[v] = Append(s, x)
      BY <1>3, <2>1
    <3> HIDE DEF h, s, x
    <3>4. HistorySize \in Nat /\ Len(h) <= HistorySize
      <4>1. Len(h) = IF Len(s) < HistorySize THEN Len(s) ELSE HistorySize
        BY <3>1, Zenon DEF Latest
      <4>2. QED
        BY <3>1, <4>1, SizesAssumption
    <3>5. Latest(Push(h, x, HistorySize), Append(s, x), HistorySize)
      BY <3>1, <3>2, <3>4, LatestLemma, Zenon
    <3>6. Push(h, x, HistorySize) \in Seq(Point)
      BY <3>1, <3>2, <3>4, PushLemma
    <3>7. Append(s, x) \in Seq(Point)
      BY <3>1, <3>2
    <3>8. QED
      BY <3>3, <3>5, <3>6, <3>7, Zenon DEF Tracked
  <2>2. CASE v \notin seen
    <3>1. v \in DOMAIN history /\ history'[v] = history[v] /\ sightings'[v] = sightings[v]
      BY <1>3, <1>6, <2>2
    <3>2. Tracked(v)
      BY <3>1 DEF TracksInv
    <3>3. QED
      BY <3>1, <3>2, Zenon DEF Tracked
  <2>3. QED
    BY <2>1, <2>2
<1>10. TrackedSeenLately'
  BY <1>4, <1>5, <1>6, <1>7, Zenon DEF TrackedSeenLately
<1>11. QED
  BY <1>4, <1>7, <1>8, <1>9, <1>10, Zenon DEF TracksInv

\* In the frame the object is a person, or has no type and is followed by one.
Person(frame, id) ==
  \E k \in DOMAIN frame :
    /\ frame[k].id = id
    /\ \/ frame[k].type = "Human"
       \/ /\ frame[k].type = ""
          /\ \E m \in DOMAIN frame : m > k /\ frame[m].type = "Human"

\* That is all is_human goes by.
LEMMA PersonLemma ==
  ASSUME NEW frame \in Frames, NEW id, IsHuman(frame, id)
  PROVE  Person(frame, id)
<1>1. PICK i, k \in DOMAIN frame :
        /\ frame[i].id = id /\ i <= k
        /\ frame[k].type = "Human"
        /\ \A j \in i..(k - 1) : frame[j].type = ""
  BY Zenon DEF IsHuman
<1>2. i \in Nat /\ k \in Nat
  BY FramesAssumption
<1>3. CASE i = k
  BY <1>1, <1>3, Zenon DEF Person
<1>4. CASE i # k
  <2>1. i <= k
    BY <1>1, Zenon
  <2>2. k > i /\ i \in i..(k - 1)
    BY <1>2, <1>4, <2>1
  <2>3. frame[i].type = ""
    BY <1>1, <2>2, Zenon
  <2>4. QED
    BY <1>1, <2>2, <2>3, Zenon DEF Person
<1>5. QED
  BY <1>3, <1>4

\* AlertsJustified, said of one alert a and what justifies it.
Justified(a, seen, cache, id, pairs, centre) ==
  LET s == seen[a.vehicle]
      last == Len(s)
  IN  /\ \E i \in DOMAIN cache : Person(cache[i], id)
      /\ \E j \in 1..(last - 1) :
           /\ j > last - HistorySize
           /\ Approaches(s[j], s[last], centre, DistThreshold)
           /\ IF pairs = <<>> THEN a.board = -1 ELSE Facing(pairs, s[j], a.board)

\* The two say the same.
LEMMA JustifiedLemma ==
  AlertsJustified <=> \A a \in alerts :
    Justified(a, sightings, frame_cache, event.id, base_line_pairs, dot_center)
BY Zenon DEF AlertsJustified, Justified, Facing, Person

\* They also do after a step.
LEMMA JustifiedNext ==
  AlertsJustified' <=> \A a \in alerts' :
    Justified(a, sightings', frame_cache', event'.id, base_line_pairs', dot_center')
BY Zenon DEF AlertsJustified, Justified, Facing, Person

\* The alerts of a block are justified by the tracks as the block leaves them.
LEMMA AlertLemma ==
  ASSUME TracksInv', SettingsInv, UNCHANGED settings, NEW e, event' = e, HandleEvent(e)
  PROVE  AlertsJustified'
<1>1. base_line_pairs' = base_line_pairs /\ dot_center' = dot_center /\ base_line_pairs \in Seq(Pairs)
  BY DEF settings, SettingsInv
<1> SUFFICES ASSUME NEW a \in alerts'
             PROVE  Justified(a, sightings', frame_cache', e.id, base_line_pairs, dot_center)
  <2>1. AlertsJustified' <=> \A a \in alerts' :
          Justified(a, sightings', frame_cache', event'.id, base_line_pairs', dot_center')
    BY JustifiedNext
  <2>2. QED
    BY <1>1, <2>1
<1>2. /\ \E i \in DOMAIN frame_cache' : IsHuman(frame_cache'[i], e.id)
      /\ AnalyzeRisk(history', e.rule)
  BY DEF HandleEvent
<1>3. \E i \in DOMAIN frame_cache' : Person(frame_cache'[i], e.id)
  <2>1. \A i \in DOMAIN frame_cache' : frame_cache'[i] \in Frames
    BY DEF TracksInv
  <2>2. QED
    BY <1>2, <2>1, PersonLemma, Zenon
<1> DEFINE v == a.vehicle
           h == history'[v]
           s == sightings'[v]
           j == Len(s) - Len(h) + 1
<1>4. /\ v \in Approaching(history')
      /\ IF base_line_pairs = <<>> THEN a.board = -1
           ELSE a.board = NearestDot(base_line_pairs, h[1]).opposite
  <2>1. CASE base_line_pairs = <<>>
    <3>1. PICK V \in SUBSET Approaching(history') :
            alerts' = {[vehicle |-> u, board |-> -1] : u \in V}
      BY <1>2, <2>1, Zenon DEF AnalyzeRisk
    <3>2. QED
      BY <2>1, <3>1
  <2>2. CASE base_line_pairs # <<>>
    <3> DEFINE Alongside(u) == Parallel(WayToCentre(history'[u][1]), rule_lines[e.rule],
                                        ParallelNum, ParallelDen)
    <3>1. alerts' = {[vehicle |-> u, board |-> NearestDot(base_line_pairs, history'[u][1]).opposite] :
                       u \in {w \in Approaching(history') : Alongside(w)}}
      BY <1>2, <2>2, Zenon DEF AnalyzeRisk
    <3> HIDE DEF Alongside
    <3>2. QED
      BY <2>2, <3>1
  <2>3. QED
    BY <2>1, <2>2
<1>5. /\ v \in DOMAIN history' /\ Len(h) >= 2
      /\ Approaches(h[1], h[Len(h)], dot_center, DistThreshold)
  BY <1>4 DEF Approaching
<1>6. h \in Seq(Point) /\ s \in Seq(Point) /\ Latest(h, s, HistorySize)
  BY <1>5, Zenon DEF TracksInv, Tracked
<1> HIDE DEF h, s, v
<1>7. /\ Len(h) = IF Len(s) < HistorySize THEN Len(s) ELSE HistorySize
      /\ \A i \in 1..Len(h) : h[i] = s[Len(s) - Len(h) + i]
  BY <1>6, Zenon DEF Latest
<1>8. Len(h) \in Nat /\ Len(s) \in Nat /\ HistorySize \in Nat
  BY <1>6, SizesAssumption
<1>9. j \in 1..(Len(s) - 1) /\ j > Len(s) - HistorySize
  <2>1. Len(h) <= Len(s) /\ Len(h) <= HistorySize
    BY <1>7, <1>8
  <2>2. QED
    BY <1>5, <1>8, <2>1
<1>10. h[1] = s[j] /\ h[Len(h)] = s[Len(s)]
  <2>1. 1 \in 1..Len(h) /\ Len(h) \in 1..Len(h) /\ Len(s) - Len(h) + Len(h) = Len(s)
    BY <1>5, <1>8
  <2>2. h[1] = s[Len(s) - Len(h) + 1] /\ h[Len(h)] = s[Len(s) - Len(h) + Len(h)]
    BY <1>7, <2>1, Zenon
  <2>3. QED
    BY <2>1, <2>2
<1>11. IF base_line_pairs = <<>> THEN a.board = -1
         ELSE Facing(base_line_pairs, s[j], a.board)
  <2>1. CASE base_line_pairs = <<>>
    BY <1>4, <2>1
  <2>2. CASE base_line_pairs # <<>>
    <3>1. h[1] \in Point
      BY <1>5, <1>6
    <3>2. Facing(base_line_pairs, h[1], a.board)
      BY <1>1, <1>4, <2>2, <3>1, NearestLemma
    <3>3. QED
      BY <1>10, <2>2, <3>2
  <2>3. QED
    BY <2>1, <2>2
<1> HIDE DEF j
<1>12. Approaches(s[j], s[Len(s)], dot_center, DistThreshold)
  BY <1>5, <1>10
<1>13. QED
  BY <1>3, <1>9, <1>11, <1>12, Zenon DEF Justified, s, v

\* Steps that raise nothing leave nothing to justify.
LEMMA NoAlertsLemma == alerts' = {} => AlertsJustified'
BY DEF AlertsJustified

\* A step that does not touch the settings keeps their invariant.
LEMMA SameSettings == SettingsInv /\ UNCHANGED settings => SettingsInv'
<1> SUFFICES ASSUME SettingsInv, UNCHANGED settings PROVE SettingsInv'
  OBVIOUS
<1>1. /\ base_line_pairs' = base_line_pairs /\ dot_center' = dot_center
      /\ rule_lines' = rule_lines /\ clean' = clean /\ loaded' = loaded
  BY DEF settings
<1>2. /\ LinesCurrent(loaded.lines) => LinesCurrent(loaded.lines)'
      /\ DotsCurrent(loaded.baseLines) => DotsCurrent(loaded.baseLines)'
  BY <1>1, Zenon DEF LinesCurrent, DotsCurrent
<1>3. QED
  BY <1>1, <1>2 DEF SettingsInv

\* The same for the tracks.
LEMMA SameTracks == TracksInv /\ UNCHANGED tracks => TracksInv'
BY DEF TracksInv, Tracked, TrackedSeenLately, tracks

\* Every step keeps the invariant.
LEMMA InvStep == Inv /\ [Next]_vars => Inv'
<1> SUFFICES ASSUME Inv, [Next]_vars PROVE Inv'
  OBVIOUS
<1>1. ASSUME LoadDotsAndCenter \/ LoadRuleLines PROVE Inv'
  <2>1. SettingsInv'
    BY <1>1, DotsLoadLemma, LinesLoadLemma DEF Inv
  <2>2. TracksInv'
    BY <1>1, SameTracks DEF LoadDotsAndCenter, LoadRuleLines, Inv
  <2>3. AlertsJustified'
    BY <1>1, NoAlertsLemma DEF LoadDotsAndCenter, LoadRuleLines
  <2>4. QED
    BY <1>1, <2>1, <2>2, <2>3 DEF LoadDotsAndCenter, LoadRuleLines, Inv, database, tracks
<1>2. ASSUME StartFails \/ StreamEnds PROVE Inv'
  <2>1. SettingsInv' /\ TracksInv' /\ AlertsJustified'
    BY <1>2, SameSettings, SameTracks, NoAlertsLemma DEF StartFails, StreamEnds, Inv
  <2>2. QED
    BY <1>2, <2>1 DEF StartFails, StreamEnds, Inv, database, tracks
<1>3. ASSUME EditTables PROVE Inv'
  <2>1. SettingsInv' /\ TracksInv' /\ AlertsJustified'
    BY <1>3, SameSettings, SameTracks, NoAlertsLemma DEF EditTables, Inv
  <2>2. QED
    BY <1>3, <2>1, BoundsAssumption DEF EditTables, Inv, tracks
<1>4. ASSUME NEW frame \in Frames \cup {NoFrame}, NEW e \in Events \cup {NoEvent},
             HandleBlock(frame, e)
      PROVE  Inv'
  <2>1. SettingsInv'
    BY <1>4, SameSettings DEF HandleBlock, Inv
  <2>2. TracksInv' /\ arrived' \in 0..MaxFrames
    <3>1. CASE frame = NoFrame
      BY <1>4, <3>1, SameTracks DEF HandleBlock, HandleFrame, Inv, tracks
    <3>2. CASE frame # NoFrame
      <4>1. TracksInv'
        BY <1>4, <3>2, FrameLemma DEF HandleBlock, Inv
      <4>2. arrived < MaxFrames /\ arrived' = arrived + 1
        BY <1>4, <3>2, Zenon DEF HandleBlock, HandleFrame
      <4>3. QED
        BY <4>1, <4>2, BoundsAssumption DEF Inv
    <3>3. QED
      BY <3>1, <3>2
  <2>3. AlertsJustified'
    BY <1>4, <2>2, AlertLemma DEF HandleBlock, Inv
  <2>4. QED
    BY <1>4, <2>1, <2>2, <2>3 DEF HandleBlock, Inv, database
<1>5. ASSUME UNCHANGED vars PROVE Inv'
  <2>1. SettingsInv' /\ TracksInv'
    BY <1>5, SameSettings, SameTracks DEF vars, Inv
  <2>2. AlertsJustified'
    <3>1. /\ alerts' = alerts /\ event' = event /\ base_line_pairs' = base_line_pairs
          /\ dot_center' = dot_center /\ frame_cache' = frame_cache /\ sightings' = sightings
      BY <1>5 DEF vars, settings, tracks
    <3>2. AlertsJustified' <=> \A a \in alerts' :
            Justified(a, sightings', frame_cache', event'.id, base_line_pairs', dot_center')
      BY JustifiedNext
    <3>3. QED
      BY <3>1, <3>2, JustifiedLemma DEF Inv
  <2>3. QED
    BY <1>5, <2>1, <2>2 DEF vars, Inv, database, tracks
<1>6. QED
  BY <1>1, <1>2, <1>3, <1>4, <1>5, Zenon DEF Next

\* The invariant always holds.
LEMMA InvAlways == Spec => []Inv
<1>1. QED
  BY InitLemma, InvStep, PTL DEF Spec
-----------------------------------------------------------------------------
(* The theorems.                                                            *)

\* The program's state always has its type: the cache and the histories stay
\* within their configured sizes whatever arrives (handle_metadata_block,
\* update_vehicle_positions).
THEOREM TypeCorrect == Spec => []TypeOK
<1>1. Inv => TypeOK
  <2> SUFFICES ASSUME Inv PROVE TypeOK
    OBVIOUS
  <2>1. ASSUME NEW v \in DOMAIN history PROVE Len(history[v]) <= HistorySize
    <3> DEFINE h == history[v]
               s == sightings[v]
    <3>1. s \in Seq(Point) /\ Len(h) = IF Len(s) < HistorySize THEN Len(s) ELSE HistorySize
      BY Zenon DEF Inv, TracksInv, Tracked, Latest
    <3>2. QED
      BY <3>1, SizesAssumption
  <2>2. QED
    BY <2>1, Zenon DEF Inv, SettingsInv, TracksInv, TypeOK
<1>2. QED
  BY <1>1, InvAlways, PTL

\* update_vehicle_positions keeps, for every vehicle it tracks, exactly the latest
\* positions it was seen at, in order and without gaps.
THEOREM HistoryAlwaysLatest == Spec => []HistoryIsLatest
<1>1. Inv => HistoryIsLatest
  <2> SUFFICES ASSUME Inv PROVE HistoryIsLatest
    OBVIOUS
  <2>1. ASSUME NEW v \in DOMAIN history
        PROVE  LET s == sightings[v]
                   n == IF Len(s) < HistorySize THEN Len(s) ELSE HistorySize
               IN  history[v] = SubSeq(s, Len(s) - n + 1, Len(s))
    <3>1. /\ history[v] \in Seq(Point) /\ sightings[v] \in Seq(Point)
          /\ Latest(history[v], sightings[v], HistorySize)
      BY Zenon DEF Inv, TracksInv, Tracked
    <3>2. HistorySize \in Nat
      BY SizesAssumption
    <3>3. QED
      BY <3>1, <3>2, LatestIsSuffix, Zenon
  <2>2. QED
    BY <2>1, Zenon DEF Inv, TracksInv, HistoryIsLatest
<1>2. QED
  BY <1>1, InvAlways, PTL

\* A vehicle that is in none of the last frames is never tracked any more: the
\* clean-up at the end of update_vehicle_positions forgets it.
THEOREM TrackedAlwaysSeenLately == Spec => []TrackedSeenLately
<1>1. Inv => TrackedSeenLately
  BY DEF Inv, TracksInv
<1>2. QED
  BY <1>1, InvAlways, PTL

\* After a complete load of its table (load_dots_and_center, load_rule_lines), and
\* until the table changes, the lines read, or the pairs and the centre, are the
\* table's: however many loads were cut short before, and also when the tables are
\* edited between the two SELECTs of a load.
THEOREM SettingsAlwaysCurrent == Spec => []SettingsCurrent
<1>1. Inv => SettingsCurrent
  BY Zenon DEF Inv, SettingsInv, LinesCurrent, DotsCurrent, SettingsCurrent
<1>2. QED
  BY <1>1, InvAlways, PTL

\* analyze_risk_and_alert never raises an alert without an object that is_human
\* takes for a person, itself one or untyped and followed by one, a vehicle that
\* has come nearer and a board that faces a dot nearest to it.
THEOREM AlertsAlwaysJustified == Spec => []AlertsJustified
<1>1. Inv => AlertsJustified
  BY DEF Inv
<1>2. QED
  BY <1>1, InvAlways, PTL

=============================================================================
