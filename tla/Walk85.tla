------------------------------- MODULE Walk85 -------------------------------
(***************************************************************************)
(* player_codes/85, GoTo: how the members of team 85 walk to a place.      *)
(* Each call takes the step that looks shortest among those to cells where *)
(* it has not been, and when it did not move, a step at random.  Member 2, *)
(* until it has thrown something, is drawn to the cookers that it did not  *)
(* choose (cookers; none for member 1).                                    *)
(*                                                                         *)
(* A position is the middle of the player in halves of a cell; that of     *)
(* cell k is 2 * k + 1.  What GoTo keeps from call to call is in my; one   *)
(* walk, among walls that stay, is a behaviour.                            *)
(***************************************************************************)
EXTENDS Integers, FiniteSets

CONSTANTS
  Columns, Rows,   \* of the map
  Mazes,           \* sets of walls
  Standing,        \* cells where another player may stand, <<-1, -1>> for nowhere
  max_go_time      \* bound: 20 steps after which it forgets where it has been

VARIABLES pc, my, world

Unit == [Up |-> <<0, 1>>, Right |-> <<1, 0>>, Down |-> <<0, -1>>, Left |-> <<-1, 0>>,
         RightUp |-> <<1, 1>>, LeftUp |-> <<-1, 1>>, RightDown |-> <<1, -1>>,
         LeftDown |-> <<-1, -1>>]
Along(p, v, n) == <<p[1] + n * v[1], p[2] + n * v[2]>>
Magnitude(n) == IF n < 0 THEN -n ELSE n

CellOf(p) == <<p[1] \div 2, p[2] \div 2>>
Cells == (0 .. Columns - 1) \X (0 .. Rows - 1)
isBlock(c) == c \notin Cells \ world.walls

\* Where the player touches cells: it is a cell wide, and its rim touches none.
Covered(p) == ({(p[1] - 1) \div 2, p[1] \div 2}) \X ({(p[2] - 1) \div 2, p[2] \div 2})
Free(p) == \A c \in Covered(p) : ~ isBlock(c) /\ c # world.person

\* The server: a move ends where the player meets a wall.
MoveTo(p, v, n) ==
  Along(p, v, Cardinality({k \in 1 .. n : \A i \in 1 .. k : Free(Along(p, v, i))}))

\* initializeRandomDirection: the queue goes round by one in every call.
Then == [Up |-> "Left", Left |-> "Down", Down |-> "Right", Right |-> "Up"]

max_stop_time == 1
max_random_time == 5
random_go_time == 3   \* 1.5 cells

Init ==
  /\ \E walls \in Mazes, person \in Standing, to \in Cells, at \in Cells :
       /\ to \in walls /\ at \notin walls \cup {person}
       /\ \E cookers \in SUBSET (walls \ {to}) :
            world = [walls |-> walls, person |-> person, to |-> to, cookers |-> cookers,
                     at |-> <<2 * at[1] + 1, 2 * at[2] + 1>>]
  /\ my = [been |-> {}, last |-> <<0, 0>>, lastlast |-> <<0, 0>>, next |-> "Up",
           go_time |-> 0, stop_time |-> 0, random_time |-> 0, nudged |-> FALSE]
  /\ pc = "call"

-----------------------------------------------------------------------------
\* What GoTo looks at before a step: the cells of the points barrier (0.9) ahead
\* and volumn (0.5) aside.  As 0.5 beside the middle of a cell is the next cell,
\* what lies above or right of the way has to be free as well.
barrier(x, d) == IF d > 0 THEN (x + 1) \div 2 ELSE (x - 2) \div 2
volumn(x) == {(x - 1) \div 2, (x + 1) \div 2}
Ahead(p, v) ==
  (IF v[1] = 0 THEN {} ELSE {barrier(p[1], v[1])} \X volumn(p[2]))
  \cup (IF v[2] = 0 THEN {} ELSE volumn(p[1]) \X {barrier(p[2], v[2])})
  \cup (IF v[1] = 0 \/ v[2] = 0 THEN {} ELSE {<<barrier(p[1], v[1]), barrier(p[2], v[2])>>})

\* Before a step to the left it looks for players on the right (1341-1342).
Peopled(d) == world.person \in Ahead(world.at, Unit[IF d = "Left" THEN "Right" ELSE d])

Ways(mine) ==
  {d \in DOMAIN Unit : /\ Along(CellOf(world.at), Unit[d], 1) \notin mine.been
                       /\ \A c \in Ahead(world.at, Unit[d]) : ~ isBlock(c)
                       /\ ~ Peopled(d)}
\* A distance in thousandths of half a cell: the root is taken in integers.
Root(n) ==
  LET from[r \in 1 .. n] == IF r <= n \div r THEN r ELSE from[(r + n \div r) \div 2] IN from[n]
euclideanDistance(p, c) ==
  LET x == p[1] - 2 * c[1] - 1
      y == p[2] - 2 * c[2] - 1
      n == 1000000 * (x * x + y * y)
  IN IF n = 0 THEN 0 ELSE Root(n)

mahattanDistance(c) ==
  Magnitude(CellOf(world.at)[1] - c[1]) + Magnitude(CellOf(world.at)[2] - c[2])
findMin(cells) == CHOOSE c \in cells : \A e \in cells : mahattanDistance(c) <= mahattanDistance(e)

\* In tenths; g_factor is 0.9.
g(p) == IF world.cookers = {} THEN 0 ELSE 9 * euclideanDistance(p, findMin(world.cookers))
Cost(d) == LET p == Along(world.at, Unit[d], 2) IN 10 * euclideanDistance(p, world.to) + g(p)

\* The first of those that cost least.
Order == [Up |-> 1, Right |-> 2, Down |-> 3, Left |-> 4, RightUp |-> 5, LeftUp |-> 6,
          RightDown |-> 7, LeftDown |-> 8]
Best(ways) ==
  CHOOSE d \in ways : \A e \in ways \ {d} :
    Cost(d) < Cost(e) \/ (Cost(d) = Cost(e) /\ Order[d] < Order[e])

-----------------------------------------------------------------------------
\* The callers go on until the cells are near.
Walking == pc = "call" /\ mahattanDistance(world.to) > 1

Arrive == pc = "call" /\ mahattanDistance(world.to) <= 1 /\ pc' = "there" /\ UNCHANGED <<my, world>>

\* It forgets where it has been.
Called ==
  LET m == [my EXCEPT !.next = Then[@]]
      n == IF m.go_time >= max_go_time THEN [m EXCEPT !.go_time = 0, !.been = {}] ELSE m
  IN IF n.random_time >= max_random_time
     THEN [n EXCEPT !.random_time = 0, !.been = {}] ELSE n

Goes(mine, at) == my' = mine /\ world' = [world EXCEPT !.at = at]
Random(mine, n) == Goes(mine, MoveTo(world.at, Unit[my.next], n)) /\ pc' = "call"

\* The last step did not move it.
Tripped ==
  /\ Walking /\ my.stop_time >= max_stop_time
  /\ Random([Called EXCEPT !.stop_time = 0, !.random_time = @ + 1], random_go_time)

\* Nor did the one before, and it goes at random until it is somewhere else; or
\* without any reason, as in one call of 500 (here once in a walk).
RandomMove ==
  /\ Walking /\ my.stop_time < max_stop_time
  /\ world.at = my.lastlast \/ ~ my.nudged
  /\ \E move_time \in 0 .. 4 : Random([Called EXCEPT !.nudged = TRUE], 2 * move_time)

Step ==
  /\ Walking /\ my.stop_time < max_stop_time /\ world.at # my.lastlast
  /\ LET m == [Called EXCEPT !.lastlast = IF world.at = my.last THEN world.at ELSE my.last,
                             !.last = world.at,
                             !.stop_time = IF world.at = my.last THEN @ + 1 ELSE 0]
         ways == Ways(m)
     IN IF ways = {}
        THEN \E move_time \in 0 .. 4 : Random([m EXCEPT !.been = {}], 2 * move_time)
        ELSE \E at \in {MoveTo(world.at, Unit[Best(ways)], 1)} :
               /\ pc' = "call"
               /\ Goes([m EXCEPT !.been = @ \cup {CellOf(at)}, !.go_time = @ + 1], at)

GoTo == Arrive \/ Tripped \/ RandomMove \/ Step

-----------------------------------------------------------------------------
\* What it takes to be free is free: no step ends at a wall, nor at another
\* player, but for one on the left.
StepsAreFree ==
  \A d \in Ways(my) : \/ MoveTo(world.at, Unit[d], 1) # world.at
                      \/ d = "Left" /\ world.person \in Ahead(world.at, Unit[d])
=============================================================================
