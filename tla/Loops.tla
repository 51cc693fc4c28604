-------------------------------- MODULE Loops --------------------------------
(***************************************************************************)
(* Loops over sequences as the codecs have many of them, the first half of *)
(* the sequence before the second one: like FoldLeft and FlattenSeq, but   *)
(* with calls nested as deep as the logarithm of the length.               *)
(***************************************************************************)
EXTENDS Integers, Sequences

\* What a loop makes of a state, one of States, with Step for each element of s.
Through(Step(_, _), start, s, States) ==
  LET part[x \in States, from \in 1..(Len(s) + 1), to \in 0..Len(s)] ==
        CASE from > to -> x
          [] from = to -> Step(x, s[from])
          [] from < to -> LET mid == (from + to) \div 2
                          IN  part[part[x, from, mid], mid + 1, to]
  IN  part[start, 1, Len(s)]

\* The parts one after the other.
RECURSIVE Joined(_)
Joined(parts) ==
  LET half == Len(parts) \div 2
  IN  CASE Len(parts) = 0 -> <<>>
        [] Len(parts) = 1 -> parts[1]
        [] OTHER -> Joined(SubSeq(parts, 1, half)) \o Joined(SubSeq(parts, half + 1, Len(parts)))

=============================================================================
