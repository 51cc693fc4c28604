---------------------------- MODULE MCBoardLink ------------------------------
(* BoardLink for TLC: alerts are interchangeable.                           *)
EXTENDS BoardLink, TLC

AlertSymmetry == Permutations(Alerts)

=============================================================================
