--------------------------- MODULE MCTrafficWatch ----------------------------
(* TrafficWatch for TLC: a crossing of two streets with a board on each side. *)
EXTENDS TrafficWatch

Pair(id1, p1, id2, p2) == [id1 |-> id1, p1 |-> p1, id2 |-> id2, p2 |-> p2]

WestEast == Pair(1, <<0, 0>>, 2, <<4, 0>>)
SouthNorth == Pair(3, <<1, -2>>, 4, <<1, 2>>)

Along == [name |-> "a", p1 |-> <<0, 0>>, p2 |-> <<2, 1>>]
AlongMoved == [name |-> "a", p1 |-> <<0, 0>>, p2 |-> <<0, 3>>]
Across == [name |-> "b", p1 |-> <<1, 1>>, p2 |-> <<1, 3>>]

Contents == {[lines |-> <<Along, Across>>, baseLines |-> <<WestEast, SouthNorth>>],
             [lines |-> <<AlongMoved>>, baseLines |-> <<WestEast>>],
             [lines |-> <<Across>>, baseLines |-> <<>>]}

Car(x) == [id |-> 1, type |-> "Vehicle", pos |-> <<x, 0>>]
Walker == [id |-> 2, type |-> "Human", pos |-> <<1, 1>>]
Unknown(id) == [id |-> id, type |-> "", pos |-> <<>>]

Pictures == {<<Walker>>, <<Unknown(1), Walker>>, <<Unknown(2), Car(1)>>, <<Car(4), Walker>>}

=============================================================================
