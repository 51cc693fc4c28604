------------------------------- MODULE Inputs --------------------------------
(***************************************************************************)
(* Inputs for algorithms: an input grows symbol by symbol from a seed, so  *)
(* that every sequence up to a length is tried; kind says which algorithm  *)
(* it is meant for.                                                        *)
(***************************************************************************)
EXTENDS Naturals, Sequences

CONSTANTS
  Seeds,     \* per kind: the inputs to begin with
  Symbols,   \* per kind: the symbols of its inputs
  MaxLen     \* per kind: the length of its longest input

VARIABLES kind, input

vars == <<kind, input>>

Init == kind \in DOMAIN MaxLen /\ input \in Seeds[kind]

Grow ==
  /\ Len(input) < MaxLen[kind]
  /\ \E s \in Symbols[kind] : input' = Append(input, s)
  /\ UNCHANGED kind

Spec == Init /\ [][Grow]_vars

=============================================================================
