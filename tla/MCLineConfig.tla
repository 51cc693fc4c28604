---------------------------- MODULE MCLineConfig -----------------------------
(* LineConfig for TLC: connections are interchangeable.  The clients send   *)
(* two lines that can both be in the table and one that has the index of    *)
(* the first and the name of the second; a line that no client sent can be  *)
(* drawn on the camera.                                                     *)
EXTENDS LineConfig, TLC

Sent(i, n) == [index |-> i, name |-> n, at |-> 1]

TwoLines == {Sent(1, "a"), Sent(2, "b")}

ThreeLines == TwoLines \cup {Sent(1, "b")}

DrawnLine == {[index |-> 1, name |-> "a", at |-> 8]}

ConnSymmetry == Permutations(Conns)

=============================================================================
