------------------------------- MODULE Walk84 -------------------------------
(***************************************************************************)
(* player_codes/84/player1.cpp, gotoxy1 and gotoxy0: how the program walks *)
(* to a block, a cell that is a wall.  Each call walks half a cell towards *)
(* a side of the block; when the player did not move it follows a wall,    *)
(* and when that does not lead anywhere it walks at random.                *)
(*                                                                         *)
(* A position is counted in halves of a cell, and a player is two halves   *)
(* wide.  What the static variables of gotoxy0 hold from call to call is   *)
(* in my; one walk, among walls that stay, is a behaviour.                 *)
(***************************************************************************)
EXTENDS Integers, FiniteSets

CONSTANTS
  Columns, Rows,   \* of the map
  Mazes,           \* sets of walls
  Patience         \* 20: how often it goes along a wall (dir_time)

VARIABLES pc, my, world

Sides == {"Right", "Up", "Left", "Down"}
Unit == [Right |-> <<1, 0>>, Up |-> <<0, 1>>, Left |-> <<-1, 0>>, Down |-> <<0, -1>>]
Opposite == [Right |-> "Left", Up |-> "Down", Left |-> "Right", Down |-> "Up"]
Along(p, v, n) == <<p[1] + n * v[1], p[2] + n * v[2]>>
Magnitude(n) == IF n < 0 THEN -n ELSE n

Cells == (0 .. Columns - 1) \X (0 .. Rows - 1)
Covered(p) == {p[1] \div 2, (p[1] + 1) \div 2} \X {p[2] \div 2, (p[2] + 1) \div 2}
Free(p) == Covered(p) \subseteq Cells \ world.walls

\* The server: a move ends where the player meets a wall.
MoveTo(p, v, n) ==
  Along(p, v, Cardinality({k \in 1 .. n : \A i \in 1 .. k : Free(Along(p, v, i))}))

Nowhere == <<-1, -1>>
Cleared == [last |-> "Up", aim |-> "Up", jk |-> Nowhere, trytime |-> 0, _trytime |-> 0,
            count |-> 0, stuck |-> FALSE, first |-> TRUE, dir_time |-> 0]

-----------------------------------------------------------------------------
\* gotoxy1: the nearest side of the block that is free, where there is one.
Beside(d) == Along(<<2 * world.to[1], 2 * world.to[2]>>, Unit[d], 2)
Open == {d \in Sides : Free(Beside(d))}
Distance2(p, q) == (p[1] - q[1]) * (p[1] - q[1]) + (p[2] - q[2]) * (p[2] - q[2])
Nearest(at, cells) ==
  CHOOSE p \in cells : \A q \in cells : Distance2(at, p) <= Distance2(at, q)
gotoxy1(at) == Nearest(at, {Beside(d) : d \in Open})

Init ==
  /\ \E walls \in Mazes, to \in Cells, at \in (0 .. 2 * Columns - 2) \X (0 .. 2 * Rows - 2) :
       world = [walls |-> walls, to |-> to, at |-> at]
  /\ world.to \in world.walls /\ Free(world.at)
  /\ my = [walk |-> Cleared, goal |-> gotoxy1(world.at), gaveUp |-> FALSE]
  /\ pc = "call"

East == my.goal[1] - world.at[1]
North == my.goal[2] - world.at[2]
Sign(n) == IF n > 0 THEN 1 ELSE IF n < 0 THEN -1 ELSE 0

\* Check0: the sides on which a wall is met at once.
Check0 == {d \in Sides : ~ Free(Along(world.at, Unit[d], 1))}

Moves(walk, ends, gaveUp) ==
  \E at \in ends :
    /\ my' = [walk |-> walk, goal |-> gotoxy1(at), gaveUp |-> gaveUp]
    /\ world' = [world EXCEPT !.at = at]
Goes(walk, at) == Moves(walk, {at}, FALSE) /\ pc' = "call"

\* REALRAN: two moves at random, the second across the first.
RealRandom(walk) ==
  /\ pc' = "call"
  /\ Moves([walk EXCEPT !.trytime = 0, !.count = 0],
        UNION {{MoveTo(p, Unit[e], n) : p \in {MoveTo(world.at, Unit[d], n)},
                                        e \in Sides \ {d, Opposite[d]}}
               : d \in Sides, n \in 1 .. 4}, TRUE)

\* Ran: four times it only starts anew, the first time after a nudge.
Ran(walk, special) ==
  LET reset == [walk EXCEPT !.stuck = FALSE, !.first = TRUE, !.dir_time = 0] IN
  IF special \/ walk.trytime > 4
  THEN RealRandom(reset)
  ELSE /\ pc' = "call"
       /\ Moves([reset EXCEPT !.jk = Nowhere, !.trytime = @ + 1,
                   !.count = IF @ > 0 THEN @ - 1 ELSE -1],
                {world.at} \cup
                (IF walk.trytime = 0
                 THEN {MoveTo(world.at, Unit[IF East < 0 THEN "Left" ELSE "Right"], 1)}
                 ELSE {}), FALSE)

-----------------------------------------------------------------------------
\* At the side it goes to the middle and faces the block; whether it is there
\* is not told when something is in the way: no value is returned then.
Arrive ==
  /\ pc = "call" /\ Magnitude(East) < 2 /\ Magnitude(North) < 2
  /\ \E x \in {MoveTo(world.at, <<Sign(East), 0>>, Magnitude(East))} :
       Moves(Cleared, {MoveTo(x, <<0, Sign(North)>>, Magnitude(North))}, FALSE)
  /\ pc' \in IF world'.at = my.goal THEN {"there"} ELSE {"there", "call"}

Walking == pc = "call" /\ ~ (Magnitude(East) < 2 /\ Magnitude(North) < 2)

\* Straight in a row or a column with the side, else at an angle.
Heading ==
  IF Magnitude(North) < 2 THEN <<Sign(East), 0>>
  ELSE IF Magnitude(East) < 2 THEN <<0, Sign(North)>>
  ELSE <<Sign(East), Sign(North)>>

March ==
  /\ Walking /\ world.at # my.walk.jk /\ ~ my.walk.stuck
  /\ LET at == MoveTo(world.at, Heading, 1) IN
     Goes([my.walk EXCEPT !.jk = world.at,
             !.trytime = IF my.walk.count >= 4 THEN 0 ELSE @,
             !.count = IF @ < 4 /\ at # world.at THEN @ + 1 ELSE @], at)

Stopped == Walking /\ world.at = my.walk.jk /\ ~ my.walk.stuck

\* Nothing is seen in the way: look again, then start anew.
LookAgain ==
  /\ Stopped /\ Check0 = {}
  /\ IF my.walk._trytime >= 1
     THEN Ran([my.walk EXCEPT !._trytime = 0], FALSE)
     ELSE Goes([my.walk EXCEPT !._trytime = @ + 1], world.at)

\* Where the way on is blocked, along the wall until it is not; else across.
TurnAside ==
  /\ Stopped /\ Check0 # {}
  /\ LET walk == [my.walk EXCEPT !._trytime = 0, !.stuck = TRUE, !.count = 0]
         ahead == IF East > 0 THEN "Right" ELSE "Left"
         across == IF North > 0 THEN "Up" ELSE "Down"
     IN IF ahead \notin Check0
        THEN Goes([walk EXCEPT !.aim = across, !.last = ahead], world.at)
        ELSE IF {across, Opposite[across]} \subseteq Check0 THEN Ran(walk, TRUE)
        ELSE Goes([walk EXCEPT !.aim = ahead,
                     !.last = IF across \in Check0 THEN Opposite[across] ELSE across],
                  world.at)

-----------------------------------------------------------------------------
\* Following a wall: jk is where that began.
Following == Walking /\ my.walk.stuck
Begun == IF my.walk.first THEN [my.walk EXCEPT !.jk = world.at, !.first = FALSE] ELSE my.walk

NoWall == Following /\ my.walk.first /\ Check0 = {} /\ Ran([my.walk EXCEPT !.jk = world.at], FALSE)
AtWall == Following /\ (my.walk.first => Check0 # {})

\* The way on is free again; more than one and a half cells on it is past.
Past(at, walk) ==
  Magnitude(IF walk.aim \in {"Right", "Left"} THEN at[1] - walk.jk[1] ELSE at[2] - walk.jk[2]) > 3

GoOn ==
  /\ AtWall /\ Begun.aim \notin Check0
  /\ LET at == MoveTo(world.at, Unit[Begun.aim], 1)
         walk == [Begun EXCEPT !.count = IF @ >= 2 THEN @ - 2 ELSE 0, !.dir_time = 0]
     IN IF Past(at, walk) THEN Goes([walk EXCEPT !.stuck = FALSE, !.first = TRUE], at)
        ELSE IF walk.trytime >= 4 THEN Ran(walk, TRUE)
        ELSE Goes([walk EXCEPT !.trytime = @ + 1], at)

AlongWall ==
  /\ pc = "back" \/ (AtWall /\ Begun.aim \in Check0)
  /\ Begun.last \notin Check0
  /\ LET walk == [Begun EXCEPT !.count = IF @ <= 4 THEN @ + 1 ELSE @] IN
     IF walk.dir_time >= Patience THEN Ran(walk, TRUE)
     ELSE Goes([walk EXCEPT !.dir_time = @ + 1], MoveTo(world.at, Unit[walk.last], 1))

\* Blocked there, too: two steps away from the aim, if that is free.
Corner ==
  /\ pc = "back" \/ (AtWall /\ Begun.aim \in Check0)
  /\ Begun.last \in Check0
  /\ LET walk == [Begun EXCEPT !.trytime = @ + 1]
         away == Opposite[walk.aim]
     IN IF Begun.trytime >= 4 THEN Ran(Begun, TRUE)
        ELSE IF away \in Check0 THEN Ran(walk, FALSE)
        ELSE /\ Moves([walk EXCEPT !.count = 0], {MoveTo(world.at, Unit[away], 2)}, FALSE)
             /\ pc' = "back"

gotoxy0 ==
  \/ Arrive \/ March \/ LookAgain \/ TurnAside \/ NoWall \/ GoOn \/ AlongWall \/ Corner

-----------------------------------------------------------------------------
\* Infinitely often: it is there, or it walks at random; no wall is followed
\* round and round.
ArrivesOrTries == pc = "there" \/ my.gaveUp
=============================================================================
