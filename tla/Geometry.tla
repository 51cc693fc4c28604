------------------------------ MODULE Geometry -------------------------------
(***************************************************************************)
(* The geometry of the control program: calculate_intersection, the        *)
(* nearest dot, the approach test and compute_cosine_similarity.           *)
(*                                                                         *)
(* Points have integer coordinates and a centre is a point with a common   *)
(* denominator, so every comparison the code makes on floats is made here  *)
(* exactly, on squares instead of square roots; rounding is not modelled.  *)
(***************************************************************************)
EXTENDS Integers, Sequences

Sq(n) == n * n

Abs(n) == IF n < 0 THEN -n ELSE n

\* The point <<x / d, y / d>>.
Centre(x, y, d) == [x |-> x, y |-> y, d |-> d]

\* The line through p and q as A * x + B * y = C.
LineThrough(p, q) ==
  LET A == q[2] - p[2]
      B == p[1] - q[1]
  IN  [A |-> A, B |-> B, C |-> A * p[1] + B * p[2]]

\* Zero when the lines are parallel (or when two points are one).
Det(l, m) == l.A * m.B - m.A * l.B

Intersection(l, m) ==
  Centre(m.B * l.C - l.B * m.C, l.A * m.C - m.A * l.C, Det(l, m))

Midpoint(p, q) == Centre(p[1] + q[1], p[2] + q[2], 2)

\* dot_center for the loaded pairs of dots (records with p1 and p2).
CentreOf(pairs) ==
  LET l == LineThrough(pairs[1].p1, pairs[1].p2)
      m == LineThrough(pairs[2].p1, pairs[2].p2)
  IN  IF Len(pairs) >= 2 /\ Det(l, m) # 0
        THEN Intersection(l, m)
        ELSE Midpoint(pairs[1].p1, pairs[1].p2)

DistSq(p, q) == Sq(p[1] - q[1]) + Sq(p[2] - q[2])

\* The dots of all pairs in the order the loop visits them, each with the board
\* at the other end of its pair.
Dots(pairs) ==
  [i \in 1..(2 * Len(pairs)) |->
     LET pair == pairs[(i + 1) \div 2]
     IN  IF i % 2 = 1 THEN [at |-> pair.p1, opposite |-> pair.id2]
                      ELSE [at |-> pair.p2, opposite |-> pair.id1]]

\* The first of the dots nearest to pos (the loop replaces on strictly less).
NearestDot(pairs, pos) ==
  LET dots == Dots(pairs)
      Nearer(i, j) == DistSq(pos, dots[i].at) < DistSq(pos, dots[j].at)
  IN  dots[CHOOSE i \in DOMAIN dots :
             \A j \in DOMAIN dots \ {i} : Nearer(i, j) \/ (i < j /\ ~Nearer(j, i))]

\* The square of the distance between pos and centre c, times the square of c.d.
CentreDistSq(pos, c) == Sq(pos[1] * c.d - c.x) + Sq(pos[2] * c.d - c.y)

\* dist_new <= dist_old - threshold, with sqrt(a) - sqrt(b) >= t written without
\* square roots.
Approaches(old, new, c, threshold) ==
  LET a == CentreDistSq(old, c)
      b == CentreDistSq(new, c)
      t == threshold * Abs(c.d)
      gain == a - b - Sq(t)
  IN  gain >= 0 /\ Sq(gain) >= 4 * Sq(t) * b

\* abs(compute_cosine_similarity(a, b)) >= num / den.  For a zero vector the
\* similarity is -2, whose absolute value passes every threshold up to 2.
Parallel(a, b, num, den) ==
  LET dot == a[1] * b[1] + a[2] * b[2]
      magsq == (Sq(a[1]) + Sq(a[2])) * (Sq(b[1]) + Sq(b[2]))
  IN  IF magsq = 0 THEN 2 * den >= num ELSE Sq(dot) * Sq(den) >= Sq(num) * magsq

=============================================================================
