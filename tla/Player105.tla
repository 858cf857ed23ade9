----------------------------- MODULE Player105 -----------------------------
(***************************************************************************)
(* player_codes/105/player1.cpp: walk to every food point and pick, to     *)
(* every cooker and use it, to the task point and use it.                  *)
(*                                                                         *)
(* A coordinate is counted in halves of a cell: a player that lies against *)
(* a wall has an odd one, and no truncated number is equal to it.  Walls   *)
(* and other players may end a move early, at any place on its way.  A     *)
(* player that moves faster than five cells a second (or is stopped a      *)
(* frame late) runs past its aim: then the duration it computes next is    *)
(* negative, and Sleep of a negative number does not end in this game.     *)
(***************************************************************************)
EXTENDS Integers, Sequences

CONSTANTS
  Edge,         \* the coordinates are 0 .. Edge
  Foods, Cookers, \* the places of the food points and cookers, in the order taken
  Centre        \* of the task point, both coordinates

VARIABLES pc, my, world

vars == <<pc, my, world>>

Coordinates == 0 .. Edge
Within(a, b) == Coordinates \cap (a .. b \cup b .. a)

\* What a list of places to go to becomes, with what is done at each.
Visits(places, act) == [i \in DOMAIN places |-> [place |-> places[i], act |-> act]]
MoveToFood == Visits(Foods, "pick")
MoveToCook == Visits(Cookers, "use")

Init ==
  /\ pc = "cin"
  /\ my = [todo |-> <<>>, to |-> <<0, 0>>, act |-> "pick", h |-> 1, v |-> 1, at0 |-> <<0, 0>>]
  /\ \E x, y \in Coordinates, fast \in BOOLEAN :
       world = [x |-> x, y |-> y, fast |-> fast]

\* play waits for a key, which may move the player; the cell asked for is printed.
Key ==
  /\ pc = "cin" /\ pc' = "decide"
  /\ \E x, y \in Coordinates : x \in world.x - 1 .. world.x + 1 /\ y \in world.y - 1 .. world.y + 1
       /\ world' = [world EXCEPT !.x = x, !.y = y]
  /\ UNCHANGED my

\* A raw or cooked dish for which there is a task goes to the cookers, garbage
\* never is one; a is not initialised: whether the dish is put away is open.
DecideToDo ==
  /\ pc = "decide" /\ pc' = "next"
  /\ \E list \in {<<>>, MoveToFood, MoveToCook} :
       my' = [my EXCEPT !.todo = list \o MoveToFood \o MoveToCook]
  /\ UNCHANGED world

\* The quadrant is chosen once, where the player stands when MoveTo begins.
Begin(visit) ==
  /\ pc' = "right"
  /\ my' = [my EXCEPT !.todo = Tail(@), !.to = visit.place, !.act = visit.act,
              !.h = IF visit.place[1] >= world.x THEN 1 ELSE -1,
              !.v = IF visit.place[2] >= world.y THEN 1 ELSE -1]
  /\ UNCHANGED world

MoveTo == pc = "next" /\ my.todo # <<>> /\ Head(my.todo).act = "pick" /\ Begin(Head(my.todo))
MoveTo1 == pc = "next" /\ my.todo # <<>> /\ Head(my.todo).act = "use" /\ Begin(Head(my.todo))

\* Where a move may end that is meant to end at the aim.
Ends(from, aim, dir) ==
  Within(from, aim) \cup
  (IF world.fast /\ aim + dir \in Coordinates THEN {aim + dir} ELSE {})

Past(from, aim, dir) == (aim - from) * dir < 0

\* move and Sleep, first along x and then along y, from (x0, y0) on.
Right ==
  /\ pc = "right"
  /\ my' = [my EXCEPT !.at0 = <<world.x, world.y>>]
  /\ IF Past(world.x, my.to[1], my.h)
     THEN pc' = "asleep" /\ UNCHANGED world
     ELSE /\ pc' = "up"
          /\ \E x \in Ends(world.x, my.to[1], my.h) : world' = [world EXCEPT !.x = x]

Up ==
  /\ pc = "up"
  /\ UNCHANGED my
  /\ IF Past(world.y, my.to[2], my.v)
     THEN pc' = "asleep" /\ UNCHANGED world
     ELSE /\ pc' = "stuck?"
          /\ \E y \in Ends(world.y, my.to[2], my.v) : world' = [world EXCEPT !.y = y]

\* Mutant of SamePlace: the coordinates now are truncated, too.
SamePlaceTruncated ==
  world.x \div 2 = my.at0[1] \div 2 /\ world.y \div 2 = my.at0[2] \div 2

\* int x0 is compared to a double.
SamePlace == world.x = 2 * (my.at0[1] \div 2) /\ world.y = 2 * (my.at0[2] \div 2)

\* Until it can move no more; then, if both coordinates are far, it is blocked.
Far(at, aim, dir) == (aim - at) * dir > 2
Stuck ==
  /\ pc = "stuck?"
  /\ pc' = IF ~ SamePlace THEN "right"
           ELSE IF Far(world.x, my.to[1], my.h) /\ Far(world.y, my.to[2], my.v) THEN "back"
           ELSE "act"
  /\ UNCHANGED <<my, world>>

\* Mutant of Onward: as far as in the other quadrants.
OnwardFar(h, v) == 6

\* Back along x and on along y, in each quadrant for a time of its own.
Back(h) == IF h = 1 THEN 4 ELSE IF my.v = 1 THEN 8 ELSE 4
Onward(h, v) == IF v = 1 THEN (IF h = 1 THEN 2 ELSE 6) ELSE IF h = 1 THEN 4 ELSE 6
BackOff ==
  /\ pc = "back" /\ pc' = "right"
  /\ \E x \in Within(world.x, world.x - my.h * Back(my.h)),
        y \in Within(world.y, world.y + my.v * Onward(my.h, my.v)) :
       world' = [world EXCEPT !.x = x, !.y = y]
  /\ UNCHANGED my

\* pick or use, face the side, pick or use.
Act ==
  /\ pc = "act" /\ pc' = "next"
  /\ UNCHANGED <<my, world>>

\* No sleep: the position read after the command is nearly always the old one,
\* and then the next command is away from the centre.
NearTask == {world.x, world.y} \subseteq Centre - 3 .. Centre + 3
MoveToTask ==
  /\ pc = "next" /\ my.todo = <<>>
  /\ UNCHANGED my
  /\ IF NearTask THEN pc' = "cin" /\ UNCHANGED world
     ELSE /\ pc' = pc
          /\ \E dx, dy \in {-1, 0, 1} :
               /\ dx # 0 => dx = IF world.x > Centre + 3 THEN -1 ELSE 1
               /\ dx # 0 /\ dy # 0 => dy = IF world.y > Centre + 3 THEN -1 ELSE 1
               /\ dx = 0 /\ dy # 0 => dy = IF world.y > Centre + 3 THEN 1 ELSE -1
               /\ {world.x + dx, world.y + dy} \subseteq Coordinates
               /\ world' = [world EXCEPT !.x = @ + dx, !.y = @ + dy]

Next ==
  \/ Key \/ DecideToDo \/ MoveTo \/ MoveTo1 \/ Right \/ Up \/ Stuck \/ BackOff \/ Act
  \/ MoveToTask

-----------------------------------------------------------------------------
\* The program picks or uses only where both coordinates are whole numbers of
\* cells: held by a wall it goes on moving on the spot instead (21, 34).
ActsOnWholeCells == pc = "act" => world.x % 2 = 0 /\ world.y % 2 = 0

\* A player that is not too fast runs past its aim only by the steps that lead
\* it round an obstacle: upwards to the right they are short enough.
NeverPastItsAim == pc = "asleep" => world.fast \/ ~ (my.h = 1 /\ my.v = 1)

\* The strengthening: there the aim stays ahead, by more than the step up on
\* the way round is long.
Typed ==
  /\ my \in [todo : Seq([place : Int \X Int, act : {"pick", "use"}]), to : Int \X Int,
             act : {"pick", "use"}, h : {1, -1}, v : {1, -1}, at0 : Int \X Int]
  /\ world \in [x : Coordinates, y : Coordinates, fast : BOOLEAN]

AimAhead ==
  ~ world.fast /\ my.h = 1 /\ my.v = 1 =>
    /\ pc \in {"right", "up", "stuck?", "back"} => world.x <= my.to[1] /\ world.y <= my.to[2]
    /\ pc = "back" => world.y + 2 < my.to[2]

AimInv == Typed /\ AimAhead /\ ActsOnWholeCells /\ NeverPastItsAim
=============================================================================
