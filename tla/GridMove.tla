------------------------------ MODULE GridMove ------------------------------
(***************************************************************************)
(* logic/THUnity2D: how objects move on the grid of a Map.  Every object   *)
(* has a thread of its own that runs the operations queued for it, one at  *)
(* a time (GameObject.cs); the threads of different objects meet in the    *)
(* cells of the grid (Map.cs).                                             *)
(*                                                                         *)
(* Move writes the aim into _position and OnChildrenMove then locks the    *)
(* cells around, in their order, collecting in each what stands in the     *)
(* way; it corrects _position, lists the object in its new cell and gives  *)
(* the locks back, one by one.  The Position setter (SpaceGate) takes no   *)
(* cell lock.  Putting an item on the map or taking it off takes one.      *)
(*                                                                         *)
(* A corridor is modelled: a row of cells, bodies as wide as a cell, and   *)
(* moves along the row.  Lengths are integers, Unit to a cell; Grain of    *)
(* them are the sixth decimal, to which Math.Round takes the position a    *)
(* move begins at and the way it goes.  The sum of the two is off by an    *)
(* error of the doubles, and a jump leads to a place of any precision.     *)
(***************************************************************************)
EXTENDS Integers, FiniteSets

CONSTANTS
  Players,    \* objects of the PlayerLayer, each also its operation thread
  Items,      \* threads that put an item into a cell or take it off
  Free,       \* no thread: the owner of a free lock
  Width,      \* cells of the corridor
  Unit,       \* the length of a cell
  Grain,      \* what Math.Round(.., 6) rounds to
  Errors,     \* by what a sum of two doubles may be off
  Walls,      \* the cells with a block in them
  Start,      \* where the players stand at first
  Steps,      \* lengths of a move: MoveSpeed / FrameRate
  Aims,       \* where a SpaceGate may lead
  MaxMoves    \* bound: operations of each player, uses of a cell by each item

Threads == Players \cup Items
Cells == 0 .. Width - 1
Places == 0 .. Width * Unit

ASSUME CorridorAssumption ==
  /\ Width \in Nat \ {0} /\ Unit \in Nat \ {0}
  /\ Walls \subseteq Cells
  /\ Grain \in Nat \ {0} /\ Errors \subseteq -(Grain \div 2) .. Grain \div 2
  /\ Start \in [Players -> Places] /\ Aims \subseteq Places
  /\ Steps \subseteq 1 .. Unit /\ MaxMoves \in [Players \cup Items -> Nat]
ASSUME GridThreadsAssumption ==
  Players \cap Items = {} /\ Free \notin Players \cup Items

VARIABLES
  position,   \* _position of each player
  previous,   \* previousPosition of the operation under way
  move,       \* its signed distance
  reach,      \* resultDistance
  todo,       \* the cells of `set' not yet locked
  grid,       \* the players listed in each cell
  lock,       \* who holds the publicLock of each cell
  pc,         \* where the thread of each player is
  moves,      \* operations so far
  carried     \* history: the cells out of which rounding carried each player

vars == <<position, previous, move, reach, todo, grid, lock, pc, moves, carried>>

CellOf(p) == p \div Unit
Mid(c) == c * Unit + Unit \div 2
Rounded(p) == ((p + Grain \div 2) \div Grain) * Grain
Distance(p, q) == IF p < q THEN q - p ELSE p - q
Sign(d) == IF d < 0 THEN -1 ELSE 1
\* A place on the map where a body is in no wall.
Clear(p) == p \in Places /\ \A w \in Walls : Distance(p, Mid(w)) >= Unit

\* The map is closed all round, nobody is born in a wall, the mids of cells
\* have less than seven decimals, and whoever jumps finds a place although
\* every player, itself included, may be in the way of two cells.
ASSUME ClosedCorridor ==
  /\ {0, Width - 1} \subseteq Walls /\ Unit > 1
  /\ Unit % Grain = 0 /\ (Unit \div 2) % Grain = 0 /\ Grain % 2 = 1
  /\ \A m \in Players : Clear(Start[m])
  /\ IsFiniteSet(Players)
  /\ Aims # {} => Cardinality(Cells \ Walls) > 2 * Cardinality(Players)

Listed(m, c) == [grid EXCEPT ![c] = @ \cup {m}]
Unlisted(m, c) == [grid EXCEPT ![c] = @ \ {m}]

Init ==
  /\ position = Start /\ previous = Start
  /\ move = [m \in Players |-> 0]
  /\ reach = [m \in Players |-> 0]
  /\ todo = [m \in Players |-> {}]
  /\ grid = [c \in Cells |-> {m \in Players : CellOf(Start[m]) = c}]
  /\ lock = [c \in Cells |-> Free]
  /\ pc = [m \in Players |-> "idle"]
  /\ moves = [m \in Threads |-> 0]
  /\ carried = [m \in Players |-> {}]

Goto(m, from, to) ==
  /\ pc[m] = from
  /\ pc' = [pc EXCEPT ![m] = to]

-----------------------------------------------------------------------------
\* Mutant of Area: the cells up to where the mid of the body gets to.
AreaShort(p, d) ==
  IF d > 0
    THEN {c \in Cells : p < (c + 1) * Unit /\ Mid(c) < p + d}
    ELSE {c \in Cells : p >= c * Unit /\ Mid(c) > p + d}

\* The cells that a move by d from p may touch: those whose mid lies less
\* than one and a half cells behind p or beyond the aim.  A conversion to int
\* cuts off, so that behind a move to the right the first cell is left out.
Area(p, d) ==
  IF d > 0
    THEN {c \in Cells : /\ IF p < 2 * Unit THEN c >= 1 ELSE c > (p - 2 * Unit) \div Unit
                        /\ (2 * c + 1) * Unit < 2 * (p + d) + 3 * Unit}
    ELSE {c \in Cells : /\ c <= (p + 3 * Unit - 1) \div Unit - 2
                        /\ (2 * c + 1) * Unit > 2 * (p + d) - 3 * Unit}

\* Move: the position is rounded, and the aim written before any cell is
\* looked at.
Move(m, d) ==
  /\ moves[m] < MaxMoves[m]
  /\ Goto(m, "idle", "lock")
  /\ moves' = [moves EXCEPT ![m] = @ + 1]
  /\ previous' = [previous EXCEPT ![m] = Rounded(position[m])]
  /\ position' = [position EXCEPT ![m] = Rounded(@) + d]
  /\ move' = [move EXCEPT ![m] = d]
  /\ reach' = [reach EXCEPT ![m] = d * Sign(d)]
  /\ todo' = [todo EXCEPT ![m] = Area(Rounded(position[m]), d)]
  /\ carried' = [carried EXCEPT ![m] =
                   @ \cup ({CellOf(position[m])} \ {CellOf(Rounded(position[m]))})]
  /\ UNCHANGED <<grid, lock>>

\* Mutant of Gaps: the radius of what stands there is left out.
GapsToMid(m, c) ==
  LET others == {Mid(w) : w \in Walls \cap {c}} \cup {Rounded(position[q]) : q \in grid[c]}
  IN  {g \in {Sign(move[m]) * (o - previous[m]) - Unit \div 2 : o \in others} :
         0 <= g /\ g < reach[m] /\ c # CellOf(previous[m])}

\* The distances after which m touches something listed in the cell c, where
\* they are shorter than what it can go so far.  Its own cell is not searched;
\* what it overlaps already, or leaves behind, is not in its way, and so it is
\* not in its own, where it is still listed in another cell.
Gaps(m, c) ==
  LET others == {Mid(w) : w \in Walls \cap {c}} \cup {Rounded(position[q]) : q \in grid[c]}
  IN  {g \in {Sign(move[m]) * (o - previous[m]) - Unit : o \in others} :
         0 <= g /\ g < reach[m] /\ c # CellOf(previous[m])}

IsFirst(c, cells) == c \in cells /\ \A d \in cells : c <= d

\* RefreshResultDistance: the shortest of the distances counts.
Shorten(m, c) ==
  \E g \in Gaps(m, c) \cup {reach[m]} :
    IsFirst(g, Gaps(m, c) \cup {reach[m]}) /\ reach' = [reach EXCEPT ![m] = g]

\* Mutant of CheckBlock: the cells are taken in the direction of the move.
CheckBlockOnTheWay(m, c) ==
  /\ c \in todo[m] /\ \A d \in todo[m] : c * Sign(move[m]) <= d * Sign(move[m])
  /\ lock[c] = Free
  /\ Goto(m, "lock", IF todo[m] = {c} THEN "place" ELSE "lock")
  /\ lock' = [lock EXCEPT ![c] = m]
  /\ todo' = [todo EXCEPT ![m] = @ \ {c}]
  /\ Shorten(m, c)
  /\ UNCHANGED <<position, previous, move, grid, moves, carried>>

\* CheckBlockAndAdjustPosition for the next cell of the sorted set.
CheckBlock(m, c) ==
  /\ IsFirst(c, todo[m])
  /\ lock[c] = Free
  /\ Goto(m, "lock", IF todo[m] = {c} THEN "place" ELSE "lock")
  /\ lock' = [lock EXCEPT ![c] = m]
  /\ todo' = [todo EXCEPT ![m] = @ \ {c}]
  /\ Shorten(m, c)
  /\ UNCHANGED <<position, previous, move, grid, moves, carried>>

Reached(m) == previous[m] + Sign(move[m]) * Rounded(reach[m])

\* Mutant of Place: the object stays listed where it came from.
PlaceTwice(m) ==
  /\ Goto(m, "place", "unlock")
  /\ \E e \in Errors : position' = [position EXCEPT ![m] = Reached(m) + e]
  /\ grid' = Listed(m, CellOf(position'[m]))
  /\ UNCHANGED <<previous, move, reach, todo, lock, moves, carried>>

\* The position is corrected and the cells updated under all the locks: the
\* object leaves the cell of the rounded position it began at, and enters that
\* of the sum as it is.
Place(m) ==
  /\ Goto(m, "place", "unlock")
  /\ \E e \in Errors :
       /\ position' = [position EXCEPT ![m] = Reached(m) + e]
       /\ grid' = [Unlisted(m, CellOf(previous[m])) EXCEPT ![CellOf(Reached(m) + e)] = @ \cup {m}]
  /\ UNCHANGED <<previous, move, reach, todo, lock, moves, carried>>

Held(m) == {c \in Cells : lock[c] = m}

Unlock(m, c) ==
  /\ IsFirst(c, Held(m))
  /\ Goto(m, "unlock", IF Held(m) = {c} THEN "idle" ELSE "unlock")
  /\ lock' = [lock EXCEPT ![c] = Free]
  /\ UNCHANGED <<position, previous, move, reach, todo, grid, moves, carried>>

-----------------------------------------------------------------------------
\* The Position setter and OnChildrenPositionChanged.
Teleport(m, aim) ==
  /\ moves[m] < MaxMoves[m]
  /\ Goto(m, "idle", "leave")
  /\ moves' = [moves EXCEPT ![m] = @ + 1]
  /\ previous' = [previous EXCEPT ![m] = position[m]]
  /\ position' = [position EXCEPT ![m] = aim]
  /\ UNCHANGED <<move, reach, todo, grid, lock, carried>>

Leave(m) ==
  /\ Goto(m, "leave", "land")
  /\ grid' = Unlisted(m, CellOf(previous[m]))
  /\ UNCHANGED <<position, previous, move, reach, todo, lock, moves, carried>>

\* XYPositionIsLegal.
Legal(p) ==
  /\ p >= Unit \div 2 /\ p + Unit \div 2 <= Width * Unit
  /\ \A c \in Cells : c \in CellOf(p) - 1 .. CellOf(p) + 1 =>
       /\ c \in Walls => Distance(Mid(c), p) >= Unit
       /\ \A q \in grid[c] : Distance(position[q], p) >= Unit

\* CorrectPosition: the place itself, the mid of its cell (on the border of the
\* map: of the last one) or the nearest mid of a cell that is legal; 0 if there
\* is none.  (A set of one place.)
Corrected(p) ==
  LET mid == Mid(IF CellOf(p) < Width THEN CellOf(p) ELSE Width - 1)
      rounds == {r \in 1 .. Width - 1 : Legal(mid - r * Unit) \/ Legal(mid + r * Unit)}
  IN  IF Legal(p) THEN {p}
      ELSE IF Legal(mid) THEN {mid}
      ELSE IF rounds = {} THEN {0}
      ELSE {IF Legal(mid - r * Unit) THEN mid - r * Unit ELSE mid + r * Unit :
              r \in {first \in rounds : IsFirst(first, rounds)}}

Land(m) ==
  /\ Goto(m, "land", "list")
  /\ \E p \in Corrected(position[m]) : position' = [position EXCEPT ![m] = p]
  /\ UNCHANGED <<previous, move, reach, todo, grid, lock, moves, carried>>

List(m) ==
  /\ Goto(m, "list", "idle")
  /\ grid' = Listed(m, CellOf(position[m]))
  /\ UNCHANGED <<position, previous, move, reach, todo, lock, moves, carried>>

-----------------------------------------------------------------------------
\* OnChildrenAdded and OnChildrenDelete of an item: one lock, one cell.
ItemEnter(i, c) ==
  /\ moves[i] < MaxMoves[i]
  /\ lock[c] = Free /\ Held(i) = {}
  /\ lock' = [lock EXCEPT ![c] = i]
  /\ moves' = [moves EXCEPT ![i] = @ + 1]
  /\ UNCHANGED <<position, previous, move, reach, todo, grid, pc, carried>>

ItemLeave(i, c) ==
  /\ lock[c] = i
  /\ lock' = [lock EXCEPT ![c] = Free]
  /\ UNCHANGED <<position, previous, move, reach, todo, grid, pc, moves, carried>>

MoveStep(m) ==
  \/ \E c \in Cells : CheckBlock(m, c) \/ Unlock(m, c)
  \/ Place(m)

TeleportStep(m) == Leave(m) \/ Land(m) \/ List(m)

Next ==
  \/ \E m \in Players, d \in Steps : Move(m, d) \/ Move(m, -d)
  \/ \E m \in Players, aim \in Aims : Teleport(m, aim)
  \/ \E m \in Players : MoveStep(m) \/ TeleportStep(m)
  \/ \E i \in Items, c \in Cells : ItemEnter(i, c) \/ ItemLeave(i, c)

\* What has begun goes on.
Fairness ==
  /\ \A m \in Players : WF_vars(MoveStep(m)) /\ WF_vars(TeleportStep(m))
  /\ \A i \in Items : WF_vars(\E c \in Cells : ItemLeave(i, c))

Spec == Init /\ [][Next]_vars
FairSpec == Spec /\ Fairness

-----------------------------------------------------------------------------
Labels == {"idle", "lock", "place", "unlock", "leave", "land", "list"}

TypeOK ==
  /\ position \in [Players -> Int] /\ previous \in [Players -> Int]
  /\ move \in [Players -> Int] /\ reach \in [Players -> Nat]
  /\ todo \in [Players -> SUBSET Cells]
  /\ grid \in [Cells -> SUBSET Players]
  /\ lock \in [Cells -> Threads \cup {Free}]
  /\ pc \in [Players -> Labels]
  /\ moves \in [Threads -> Nat]
  /\ carried \in [Players -> SUBSET Int]

\* Threads wait upwards: whoever holds the cell another thread waits for
\* waits itself, if at all, for a later cell.  So no circle of threads can
\* wait for each other, however the areas of their moves overlap
\* (Map.cs:362, 419, 474-478).
WaitsUp ==
  \A m, n \in Players : \A c \in Cells :
    pc[m] = "lock" /\ IsFirst(c, todo[m]) /\ lock[c] = n =>
      \A d \in todo[n] : c < d

\* Its strengthening: a thread locks its cells in their order, and holds none
\* when it has no move under way.
LocksInOrder ==
  \A m \in Players :
    /\ \A c \in Held(m), d \in todo[m] : c < d
    /\ pc[m] \in {"idle", "leave", "land", "list"} => Held(m) = {}
    /\ pc[m] # "lock" => todo[m] = {}

LockInv == TypeOK /\ WaitsUp /\ LocksInOrder

\* When the position is corrected, the cells the object leaves and enters are
\* both locked by its thread, whatever the sum is off by (Map.cs:441-469, 482-484).
PlacedUnderLock ==
  \A m \in Players : pc[m] = "place" =>
    /\ lock[CellOf(previous[m])] = m
    /\ \A e \in Errors : lock[CellOf(Reached(m) + e)] = m

ListedAt(m) == {c \in Cells : m \in grid[c]}

\* An object without an operation under way is listed in the cell where it
\* stands, and elsewhere only where rounding has carried it over a border, so
\* that it was taken out of the next cell instead of its own: no move and no
\* jump of others takes it out or leaves one more ghost behind (GameObject.cs:346,
\* Map.cs:59-69, 482-484).
ListedWhereItStands ==
  \A m \in Players : pc[m] = "idle" =>
    /\ CellOf(position[m]) \in ListedAt(m)
    /\ ListedAt(m) \subseteq {CellOf(position[m])} \cup carried[m]

\* Nobody stands in a wall (the rules call that a bug of the game), by more than
\* is rounded away, whatever moves and jumps interleave (Map.cs:102-196, 306-416).
NobodyInAWall ==
  \A m \in Players, w \in Walls :
    pc[m] = "idle" => Distance(Rounded(position[m]), Mid(w)) >= Unit

\* The strengthening of the three.  A player is listed where its operation has
\* begun until Place or Leave; it stands clear between operations and was clear
\* before a move, at a rounded place; the cells that hold a lock of a move or
\* still have to are its area, and what it can go so far ends before every wall
\* in a locked cell.
Listing(m) ==
  /\ pc[m] \in {"idle", "unlock"} =>
       /\ CellOf(position[m]) \in ListedAt(m)
       /\ ListedAt(m) \subseteq {CellOf(position[m])} \cup carried[m]
  /\ pc[m] \in {"lock", "place", "leave"} =>
       ListedAt(m) \subseteq {CellOf(previous[m])} \cup carried[m]
  /\ pc[m] \in {"land", "list"} => ListedAt(m) \subseteq carried[m]

Standing(m) ==
  /\ pc[m] \in {"idle", "unlock", "list"} => Clear(Rounded(position[m]))
  /\ pc[m] \in {"leave", "land"} => position[m] \in Places /\ Aims # {}

EndsBefore(m, w) ==
  LET ahead == Sign(move[m]) * (Mid(w) - previous[m])
  IN  ahead < 0 \/ reach[m] <= ahead - Unit

Heading(m) ==
  pc[m] \in {"lock", "place"} =>
    /\ Clear(previous[m]) /\ Rounded(previous[m]) = previous[m]
    /\ move[m] \in -Unit .. Unit /\ move[m] # 0
    /\ reach[m] <= Sign(move[m]) * move[m]
    /\ Held(m) \cup todo[m] = Area(previous[m], move[m])
    /\ \A w \in Walls \cap Held(m) : EndsBefore(m, w)

GridInv == \A m \in Players : Listing(m) /\ Standing(m) /\ Heading(m)

\* Every operation ends: neither moves nor items block each other for ever.
OperationsEnd == \A m \in Players : pc[m] # "idle" ~> pc[m] = "idle"

-----------------------------------------------------------------------------
\* What logic/README.md promises: there are never two persons in one cell.
OnePlayerPerCell ==
  \A m, n \in Players :
    m # n /\ pc[m] = "idle" /\ pc[n] = "idle" => CellOf(position[m]) # CellOf(position[n])
=============================================================================
