------------------------------- MODULE Walk79 -------------------------------
(***************************************************************************)
(* player_codes/79, moveto: how the two members of team 79 walk, by a map  *)
(* they have learnt by heart (mapmatrix), among the walls of the real map. *)
(* They walk to the column of their aim and then to its row; at a wall     *)
(* they go along it until the way is clear, "or it is a dead loop".        *)
(*                                                                         *)
(* The corner (48.5, 48.5) is not in Born: there half a cell aside is the *)
(* wall, no way is clear, and the program walks Up for ever.               *)
(*                                                                         *)
(* A position is the middle of the player in tenths of a cell.  The aims   *)
(* follow one another as in play of the two programs (Player79).           *)
(***************************************************************************)
EXTENDS Integers, FiniteSets

CONSTANTS
  Obstacles, mapmatrix,   \* sets of cells, see Players
  Born,      \* positions where a player is born
  Strides    \* tenths of a cell it goes in 100 ms, more or fewer frames

VARIABLES pc, my, world

Unit == [Up |-> <<0, 1>>, Down |-> <<0, -1>>, Right |-> <<1, 0>>, Left |-> <<-1, 0>>]
Opposite == [Up |-> "Down", Down |-> "Up", Right |-> "Left", Left |-> "Right"]
Along(p, d, n) == <<p[1] + n * Unit[d][1], p[2] + n * Unit[d][2]>>
CellOf(p) == <<p[1] \div 10, p[2] \div 10>>

\* The server: a player is a cell wide, and a move ends at a wall.
Free(p) ==
  \A x \in {(p[1] - 5) \div 10, (p[1] + 4) \div 10},
     y \in {(p[2] - 5) \div 10, (p[2] + 4) \div 10} : <<x, y>> \notin Obstacles
MoveTo(p, d, n) ==
  Along(p, d, Cardinality({k \in 1 .. n : \A i \in 1 .. k : Free(Along(p, d, i))}))

-----------------------------------------------------------------------------
\* Aims of the runner (player1) and of the cook (player2), each with those that
\* may be next; the cook goes Up for a second before its first.
FirstAims == [runner |-> {<<25, 5>>}, cook |-> {<<5, 5>>, <<7, 41>>, <<4, 24>>, <<42, 40>>, <<25, 24>>}]
RunnersNext(aim) ==
  CASE aim = <<25, 5>> -> {<<8, 24>>}
    [] aim = <<8, 24>> -> {<<5, 5>>, <<25, 24>>, <<7, 41>>}
    [] aim = <<5, 5>> -> {<<25, 38>>}
    [] aim = <<25, 38>> -> {<<25, 38>>, <<25, 24>>, <<8, 24>>}
    [] aim = <<25, 24>> -> {<<8, 24>>, <<7, 41>>, <<25, 5>>}
    [] aim = <<7, 41>> -> {<<25, 24>>}
CooksNext(aim) ==
  CASE aim = <<25, 24>> -> FirstAims["cook"]
    [] aim = <<41, 28>> ->
         {<<25, 5>>, <<42, 28>>, <<31, 41>>, <<42, 40>>, <<43, 6>>, <<43, 25>>, <<25, 24>>}
    [] aim = <<42, 28>> -> {<<4, 24>>, <<41, 28>>}
    [] OTHER -> {<<41, 28>>}

Init ==
  /\ pc = "walk"
  /\ \E who \in {"runner", "cook"}, born \in Born :
       /\ world = [at |-> IF who = "cook" THEN MoveTo(born, "Up", 40) ELSE born, facing |-> "Up"]
       /\ \E aim \in FirstAims[who] : my = [who |-> who, aim |-> aim, along |-> <<>>]

-----------------------------------------------------------------------------
\* Where it stands at a thing, and which way it then turns: the first of the
\* four sides that is free.
Stand(aim) ==
  IF aim \notin mapmatrix THEN [cell |-> aim, turn |-> "none"]
  ELSE LET side == <<"Up", "Down", "Right", "Left">>
           beside(i) == Along(aim, side[i], 1)
           i == CHOOSE i \in 1 .. 4 : /\ beside(i) \notin mapmatrix
                                      /\ \A j \in 1 .. i - 1 : beside(j) \in mapmatrix
       IN [cell |-> beside(i), turn |-> Opposite[side[i]]]

\* A cell ahead, in the middle and half a cell aside, there is nothing.
Clear(p, d) ==
  \A o \in {-5, 0, 5} :
    CellOf(Along(IF Unit[d][1] = 0 THEN <<p[1] + o, p[2]>> ELSE <<p[1], p[2] + o>>, d, 10))
      \notin mapmatrix

\* First to the column, then to the row.
Heading(at, to) ==
  CASE at[1] < to[1] -> "Right"
    [] at[1] > to[1] -> "Left"
    [] at[1] = to[1] /\ at[2] < to[2] -> "Up"
    [] at[1] = to[1] /\ at[2] > to[2] -> "Down"
    [] OTHER -> "there"

\* At a wall: towards the row of the aim (Up on it), Right where it goes by rows;
\* the other way if something is there.
Aside(d, to) ==
  LET first == IF d \in {"Up", "Down"} THEN "Right"
               ELSE IF CellOf(world.at)[2] > to[2] THEN "Down" ELSE "Up"
  IN IF Clear(world.at, first) THEN first ELSE Opposite[first]

Steps(d) == \E n \in Strides : world' = [at |-> MoveTo(world.at, d, n), facing |-> d]
To == Stand(my.aim).cell

Step ==
  /\ pc = "walk" /\ my.along = <<>>
  /\ \E d \in {Heading(CellOf(world.at), To)} :
       /\ d # "there" /\ Clear(world.at, d)
       /\ Steps(d) /\ UNCHANGED <<pc, my>>
AtWall ==
  /\ pc = "walk" /\ my.along = <<>>
  /\ \E d \in {Heading(CellOf(world.at), To)} :
       /\ d # "there" /\ ~ Clear(world.at, d)
       /\ my' = [my EXCEPT !.along = <<Aside(d, To), d>>]
       /\ Steps(Aside(d, To)) /\ UNCHANGED pc
AlongWall ==
  /\ pc = "walk" /\ my.along # <<>> /\ ~ Clear(world.at, my.along[2])
  /\ Steps(my.along[1]) /\ UNCHANGED <<pc, my>>
PastWall ==
  /\ pc = "walk" /\ my.along # <<>> /\ Clear(world.at, my.along[2])
  /\ Steps(my.along[2]) /\ my' = [my EXCEPT !.along = <<>>] /\ UNCHANGED pc

\* It faces the thing: the runner until it sees that it does, the cook by one move.
There == pc = "walk" /\ my.along = <<>> /\ CellOf(world.at) = To
Turn ==
  /\ There /\ my.who = "runner" /\ Stand(my.aim).turn \notin {"none", world.facing}
  /\ Steps(Stand(my.aim).turn) /\ UNCHANGED <<pc, my>>
TurnOnce ==
  /\ There /\ my.who = "cook" /\ Stand(my.aim).turn # "none"
  /\ Steps(Stand(my.aim).turn) /\ pc' = "there" /\ UNCHANGED my
Arrive ==
  /\ There
  /\ Stand(my.aim).turn \in {"none"} \cup (IF my.who = "runner" THEN {world.facing} ELSE {})
  /\ pc' = "there" /\ UNCHANGED <<my, world>>

\* play goes on to its next aim.
NextAim ==
  /\ pc = "there" /\ pc' = "walk"
  /\ \E aim \in (IF my.who = "runner" THEN RunnersNext(my.aim) ELSE CooksNext(my.aim)) :
       my' = [my EXCEPT !.aim = aim]
  /\ UNCHANGED world

Next ==
  Step \/ AtWall \/ AlongWall \/ PastWall \/ Turn \/ TurnOnce \/ Arrive \/ NextAim

-----------------------------------------------------------------------------
\* Infinitely often: it arrives, wherever it was when it set out and however
\* far each move took it ("moveto will be a dead loop" where walls are not
\* rectangles: 79/player1.cpp:19, 158, 688).
Arrives == pc = "there"

\* What it takes for a wall it never walks into, though the player could.
StaysOnItsMap == CellOf(world.at) \notin mapmatrix
=============================================================================
