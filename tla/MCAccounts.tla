----------------------------- MODULE MCAccounts ------------------------------
(* Accounts for TLC: connections are interchangeable.                       *)
EXTENDS Accounts, TLC

ConnSymmetry == Permutations(Conns)

=============================================================================
