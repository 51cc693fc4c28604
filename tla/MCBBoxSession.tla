---------------------------- MODULE MCBBoxSession ----------------------------
(* BBoxSession for TLC: connections are interchangeable.                     *)
EXTENDS BBoxSession, TLC

ConnSymmetry == Permutations(Conns)

=============================================================================
