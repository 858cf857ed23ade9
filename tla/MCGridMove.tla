----------------------------- MODULE MCGridMove -----------------------------
(***************************************************************************)
(* Instances of GridMove: a corridor of seven cells with a wall at each    *)
(* end and two players who touch each other, one of them near the right    *)
(* wall.  A cell has 60 units, three to the sixth decimal: a player goes   *)
(* 11 in a move, which is rounded to 12 (4 / 20 of a cell, as without      *)
(* tools), and with a SpeedBuff 27; after two moves to the left the first  *)
(* player is on a border of cells, and the gate leads to just before it.   *)
(***************************************************************************)
EXTENDS GridMove, TLC

CONSTANTS a, b, i

TwoPlayers == {a, b}
OneItem == {i}
Nobody == {}
BothEnds == {0, 6}
NearTheWall == (a :> 264) @@ (b :> 324)
Half == {-1, 0}
Exact == {0}
Walk == {11}
Run == {27}
NoGate == {}
Gates == {239}
Unevenly == (a :> 3) @@ (b :> 1) @@ (i :> 1)
Twice == (a :> 2) @@ (b :> 2)
=============================================================================
