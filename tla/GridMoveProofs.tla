--------------------------- MODULE GridMoveProofs ---------------------------
(***************************************************************************)
(* Proofs about GridMove: the cell locks of OnChildrenMove are taken in    *)
(* their order, so that threads cannot wait for each other in a circle;    *)
(* the area of a move covers every wall it may come to and the cells it    *)
(* leaves and enters; so nobody ends in a wall or in a cell it is not      *)
(* listed in, on any map that is closed all round.                         *)
(***************************************************************************)
EXTENDS GridMove, FiniteSetTheorems, TLAPS

USE CorridorAssumption, GridThreadsAssumption

\* A shortened distance is still a distance.
LEMMA ShortenTyped ==
  ASSUME TypeOK, NEW m \in Players, NEW c \in Cells, Shorten(m, c)
  PROVE  reach' \in [Players -> Nat]
<1>1. reach[m] \in Nat
  BY DEF TypeOK
<1>2. \A w \in Cells : Mid(w) \in Int
  BY DEF Mid, Cells
<1>3. \A g \in Gaps(m, c) : g \in Nat
  <2>1. \A q \in Players : Rounded(position[q]) \in Int
    BY DEF Rounded, TypeOK
  <2>2. grid[c] \subseteq Players
    BY DEF TypeOK
  <2> QED BY <1>2, <2>1, <2>2 DEF Gaps, TypeOK, Sign
<1>4. PICK g \in Gaps(m, c) \cup {reach[m]} : reach' = [reach EXCEPT ![m] = g]
  BY DEF Shorten
<1> QED BY <1>1, <1>3, <1>4 DEF TypeOK

\* Where CorrectPosition puts an object is a position.
LEMMA CorrectedTyped ==
  ASSUME NEW p \in Int
  PROVE  Corrected(p) \subseteq Int
<1> DEFINE mid == Mid(IF CellOf(p) < Width THEN CellOf(p) ELSE Width - 1)
           rounds == {r \in 1 .. Width - 1 : Legal(mid - r * Unit) \/ Legal(mid + r * Unit)}
           far == {IF Legal(mid - r * Unit) THEN mid - r * Unit ELSE mid + r * Unit :
                     r \in {first \in rounds : IsFirst(first, rounds)}}
<1>1. mid \in Int
  BY DEF Mid, CellOf
<1>2. \A r \in Int : mid - r * Unit \in Int /\ mid + r * Unit \in Int
  <2> HIDE DEF mid
  <2> QED BY <1>1
<1>3. rounds \subseteq Int
  OBVIOUS
<1>4. far \subseteq Int
  <2> HIDE DEF mid, rounds
  <2> QED BY <1>2, <1>3
<1>5. Corrected(p) = IF Legal(p) THEN {p} ELSE IF Legal(mid) THEN {mid}
                     ELSE IF rounds = {} THEN {0} ELSE far
  BY DEF Corrected
<1> HIDE DEF mid, rounds, far
<1> QED BY <1>1, <1>4, <1>5

-----------------------------------------------------------------------------
\* Every step keeps the types.
LEMMA TypesPreserved ==
  ASSUME TypeOK, [Next]_vars
  PROVE  TypeOK'
<1> USE DEF TypeOK, Goto, Labels, Threads
<1>1. ASSUME NEW m \in Players, NEW d \in Steps, Move(m, d) \/ Move(m, -d)
      PROVE  TypeOK'
  <2>1. PICK e \in {d, -d} : Move(m, e)
    BY <1>1
  <2>2. e \in Int /\ e * Sign(e) \in Nat
    BY DEF Sign
  <2>3. Area(Rounded(position[m]), e) \in SUBSET Cells
    BY DEF Area
  <2>4. /\ Rounded(position[m]) \in Int
        /\ CellOf(position[m]) \in Int /\ CellOf(Rounded(position[m])) \in Int
    BY DEF Rounded, CellOf
  <2>5. carried' \in [Players -> SUBSET Int]
    BY <2>1, <2>4 DEF Move
  <2> QED BY <2>1, <2>2, <2>3, <2>4, <2>5 DEF Move
<1>2. ASSUME NEW m \in Players, NEW aim \in Aims, Teleport(m, aim)
      PROVE  TypeOK'
  BY <1>2 DEF Teleport, Places
<1>3. ASSUME NEW m \in Players, NEW c \in Cells, CheckBlock(m, c)
      PROVE  TypeOK'
  <2>1. reach' \in [Players -> Nat]
    BY <1>3, ShortenTyped DEF CheckBlock
  <2> QED BY <1>3, <2>1 DEF CheckBlock
<1>4. ASSUME NEW m \in Players, NEW c \in Cells, Unlock(m, c)
      PROVE  TypeOK'
  BY <1>4 DEF Unlock
<1>5. ASSUME NEW m \in Players, Place(m)
      PROVE  TypeOK'
  <2>1. Reached(m) \in Int
    BY DEF Reached, Rounded, Sign
  <2>2. PICK e \in Errors :
          /\ position' = [position EXCEPT ![m] = Reached(m) + e]
          /\ grid' = [Unlisted(m, CellOf(previous[m])) EXCEPT ![CellOf(Reached(m) + e)] = @ \cup {m}]
    BY <1>5 DEF Place
  <2>3. grid' \in [Cells -> SUBSET Players]
    BY <2>2 DEF Unlisted
  <2>4. position' \in [Players -> Int]
    BY <2>1, <2>2
  <2> QED BY <1>5, <2>3, <2>4 DEF Place
<1>6. ASSUME NEW m \in Players, TeleportStep(m)
      PROVE  TypeOK'
  <2>1. CASE Leave(m)
    BY <2>1 DEF Leave, Unlisted
  <2>2. CASE Land(m)
    BY <2>2, CorrectedTyped DEF Land
  <2>3. CASE List(m)
    BY <2>3 DEF List, Listed
  <2> QED BY <1>6, <2>1, <2>2, <2>3 DEF TeleportStep
<1>7. ASSUME NEW i \in Items, NEW c \in Cells, ItemEnter(i, c) \/ ItemLeave(i, c)
      PROVE  TypeOK'
  BY <1>7 DEF ItemEnter, ItemLeave
<1>8. CASE UNCHANGED vars
  BY <1>8 DEF vars
<1> QED BY <1>1, <1>2, <1>3, <1>4, <1>5, <1>6, <1>7, <1>8 DEF Next, MoveStep

\* The parts of the lock invariant for one thread.
LockedBelow(m) == \A c \in Held(m), d \in todo[m] : c < d
NothingKept(m) == pc[m] \in {"idle", "leave", "land", "list"} => Held(m) = {}
NothingAhead(m) == pc[m] # "lock" => todo[m] = {}
InOrder(m) == LockedBelow(m) /\ NothingKept(m) /\ NothingAhead(m)

\* Every step keeps the order of locking.
LEMMA OrderPreserved ==
  ASSUME TypeOK, LocksInOrder, [Next]_vars
  PROVE  LocksInOrder'
<1> SUFFICES ASSUME NEW n \in Players
             PROVE  InOrder(n)'
  BY DEF LocksInOrder, InOrder, LockedBelow, NothingKept, NothingAhead
<1>0. InOrder(n)
  BY DEF LocksInOrder, InOrder, LockedBelow, NothingKept, NothingAhead
<1> USE DEF TypeOK, Goto, Held, InOrder, LockedBelow, NothingKept, NothingAhead, Threads
<1>1. ASSUME NEW m \in Players, NEW d \in Int, Move(m, d)
      PROVE  InOrder(n)'
  BY <1>0, <1>1 DEF Move
<1>2. ASSUME NEW m \in Players, NEW aim \in Aims, Teleport(m, aim)
      PROVE  InOrder(n)'
  BY <1>0, <1>2 DEF Teleport
<1>3. ASSUME NEW m \in Players, NEW c \in Cells, CheckBlock(m, c)
      PROVE  InOrder(n)'
  <2>1. CASE m = n
    <3>1. \A e \in Held(n)' : e = c \/ e \in Held(n)
      BY <1>3, <2>1 DEF CheckBlock
    <3>2. todo'[n] = todo[n] \ {c} /\ \A d \in todo[n] : c <= d
      BY <1>3, <2>1 DEF CheckBlock, IsFirst
    <3>3. todo[n] \subseteq Int /\ c \in Int /\ c \in todo[n]
      BY <1>3, <2>1 DEF CheckBlock, IsFirst, Cells
    <3>4. ASSUME NEW e \in Held(n)', NEW d \in todo'[n] PROVE e < d
      <4>1. d \in todo[n] /\ d # c /\ d \in Int /\ c <= d
        BY <3>2, <3>3
      <4>2. CASE e = c
        BY <4>1, <4>2, <3>3
      <4>3. CASE e \in Held(n)
        <5>1. LockedBelow(n)
          BY <1>0
        <5> QED BY <4>1, <4>3, <5>1 DEF LockedBelow
      <4> QED BY <3>1, <4>2, <4>3
    <3>5. LockedBelow(n)'
      BY <3>4
    <3> QED BY <1>0, <1>3, <2>1, <3>2, <3>5 DEF CheckBlock
  <2>2. CASE m # n
    BY <1>0, <1>3, <2>2 DEF CheckBlock
  <2> QED BY <2>1, <2>2
<1>4. ASSUME NEW m \in Players, NEW c \in Cells, Unlock(m, c)
      PROVE  InOrder(n)'
  <2>1. Held(n)' \subseteq Held(n)
    BY <1>4 DEF Unlock
  <2>2. m = n /\ Held(n) = {c} => Held(n)' = {}
    BY <1>4 DEF Unlock
  <2> QED BY <1>0, <1>4, <2>1, <2>2 DEF Unlock
<1>5. ASSUME NEW m \in Players, Place(m)
      PROVE  InOrder(n)'
  BY <1>0, <1>5 DEF Place
<1>6. ASSUME NEW m \in Players, TeleportStep(m)
      PROVE  InOrder(n)'
  BY <1>0, <1>6 DEF TeleportStep, Leave, Land, List
<1>7. ASSUME NEW i \in Items, NEW c \in Cells, ItemEnter(i, c) \/ ItemLeave(i, c)
      PROVE  InOrder(n)'
  BY <1>0, <1>7 DEF ItemEnter, ItemLeave
<1>8. CASE UNCHANGED vars
  BY <1>0, <1>8 DEF vars
<1>9. ASSUME NEW m \in Players, NEW d \in Steps, Move(m, d) \/ Move(m, -d)
      PROVE  InOrder(n)'
  <2>1. d \in Int /\ -d \in Int
    OBVIOUS
  <2>2. CASE Move(m, d)
    BY <1>1, <2>1, <2>2
  <2>3. CASE Move(m, -d)
    BY <1>1, <2>1, <2>3
  <2> QED BY <1>9, <2>2, <2>3
<1> HIDE DEF TypeOK, Goto, Held, InOrder, LockedBelow, NothingKept, NothingAhead, Threads
<1> QED BY <1>2, <1>3, <1>4, <1>5, <1>6, <1>7, <1>8, <1>9 DEF Next, MoveStep

\* A thread that locks in order makes others wait only upwards.
LEMMA OrderMeansUpwards ==
  ASSUME TypeOK, LocksInOrder
  PROVE  WaitsUp
BY DEF WaitsUp, LocksInOrder, Held, TypeOK

\* The cell locks are taken in order, and nobody holds one between moves, for
\* any number of players, any corridor and any lengths of moves.
THEOREM LockInvariant == Spec => []LockInv
<1>1. Init => LockInv
  <2> SUFFICES ASSUME Init PROVE LockInv
    OBVIOUS
  <2>1. TypeOK
    BY DEF Init, TypeOK, Labels, Places, Threads
  <2>2. LocksInOrder
    BY DEF Init, LocksInOrder, Held
  <2> QED BY <2>1, <2>2, OrderMeansUpwards DEF LockInv
<1>2. LockInv /\ [Next]_vars => LockInv'
  <2> SUFFICES ASSUME LockInv, [Next]_vars PROVE LockInv'
    OBVIOUS
  <2>1. TypeOK'
    BY TypesPreserved DEF LockInv
  <2>2. LocksInOrder'
    BY OrderPreserved DEF LockInv
  <2>3. WaitsUp'
    BY <2>1, <2>2 DEF WaitsUp, LocksInOrder, Held, TypeOK
  <2> QED BY <2>1, <2>2, <2>3 DEF LockInv
<1> QED BY <1>1, <1>2, PTL DEF Spec

\* Threads wait upwards only: there is no circle of threads that wait for
\* each other's cells.
THEOREM NoCircleOfWaiting == Spec => []WaitsUp
<1>1. LockInv => WaitsUp
  BY DEF LockInv
<1> QED BY <1>1, LockInvariant, PTL

\* Type correctness of the grid and its threads.
THEOREM GridTypeCorrect == Spec => []TypeOK
<1>1. LockInv => TypeOK
  BY DEF LockInv
<1> QED BY <1>1, LockInvariant, PTL
-----------------------------------------------------------------------------
(* Where things are: cells, their mids and the areas of moves. *)

LEMMA UnitFact == Unit \in Nat /\ Unit > 1
BY CorridorAssumption, ClosedCorridor

\* Half a cell, as the division cuts it off.
LEMMA HalfFact ==
  /\ Unit \div 2 \in Nat \ {0}
  /\ 2 * (Unit \div 2) <= Unit /\ Unit <= 2 * (Unit \div 2) + 1
BY UnitFact

\* Products of cells with their length, as linear facts.
LEMMA CellProduct ==
  ASSUME NEW i \in Int, NEW j \in Int
  PROVE  /\ i * Unit \in Int /\ (i + j) * Unit = i * Unit + j * Unit
         /\ (2 * i + 1) * Unit = 2 * (i * Unit) + Unit
         /\ (i < j => i * Unit + Unit <= j * Unit)
         /\ (i * Unit < j * Unit => i < j)
         /\ (i <= j => i * Unit <= j * Unit)
<1>1. i <= j => i * Unit <= j * Unit
  BY UnitFact
<1>2. i < j => (i + 1) * Unit <= j * Unit
  BY UnitFact
<1>3. i * Unit < j * Unit => i < j
  BY UnitFact
<1>4. (i + 1) * Unit = i * Unit + Unit
  BY UnitFact
<1> QED BY <1>1, <1>2, <1>3, <1>4, UnitFact

\* The cell of a place is the one it lies in.
LEMMA CellFact ==
  ASSUME NEW p \in Int
  PROVE  CellOf(p) \in Int /\ CellOf(p) * Unit <= p /\ p < CellOf(p) * Unit + Unit
BY UnitFact DEF CellOf

\* Mids of different cells are a cell apart, and a place lies near the mid of
\* its own cell.
LEMMA MidFact ==
  ASSUME NEW c \in Int, NEW e \in Int
  PROVE  /\ Mid(c) \in Int /\ Mid(c) = c * Unit + Unit \div 2
         /\ c < e => Mid(c) + Unit <= Mid(e)
BY CellProduct, HalfFact, UnitFact DEF Mid

\* A clear place is a cell and more away from either end.
LEMMA ClearInside ==
  ASSUME NEW p, Clear(p)
  PROVE  /\ p \in Int /\ Unit + Unit \div 2 <= p
         /\ p + Unit <= (Width - 1) * Unit + Unit \div 2
         /\ CellOf(p) \in 1 .. Width - 1
<1>1. p \in Int /\ 0 <= p /\ p <= Width * Unit
  BY CorridorAssumption, UnitFact DEF Clear, Places
<1>2. 0 \in Walls /\ Width - 1 \in Walls /\ Width - 1 \in Int
  BY CorridorAssumption, ClosedCorridor
<1>3. Distance(p, Mid(0)) >= Unit /\ Distance(p, Mid(Width - 1)) >= Unit
  BY <1>2 DEF Clear
<1>4. Mid(0) = Unit \div 2 /\ Mid(Width - 1) = (Width - 1) * Unit + Unit \div 2
  BY <1>2, UnitFact DEF Mid
<1>5. Width * Unit = (Width - 1) * Unit + Unit /\ (Width - 1) * Unit \in Int
  BY <1>2, CorridorAssumption, UnitFact
<1>6. Unit + Unit \div 2 <= p
  BY <1>1, <1>3, <1>4, HalfFact, UnitFact DEF Distance
<1>7. p + Unit <= (Width - 1) * Unit + Unit \div 2
  BY <1>1, <1>3, <1>4, <1>5, HalfFact, UnitFact DEF Distance
<1>8. CellOf(p) \in Int /\ CellOf(p) * Unit <= p /\ p < CellOf(p) * Unit + Unit
  BY <1>1, CellFact
<1>9. 0 < CellOf(p)
  <2>1. 0 * Unit < CellOf(p) * Unit
    BY <1>1, <1>6, <1>8, HalfFact, UnitFact
  <2> QED BY <2>1, <1>8, CellProduct
<1>10. CellOf(p) <= Width - 1
  <2>1. Width \in Int /\ CellOf(p) * Unit < Width * Unit
    BY <1>1, <1>5, <1>7, <1>8, HalfFact, UnitFact, CorridorAssumption
  <2> QED BY <2>1, <1>8, <1>2, CellProduct
<1> QED BY <1>1, <1>6, <1>7, <1>8, <1>9, <1>10, <1>2

(* Rounding: a multiple of Grain is kept, and none is passed. *)

OnGrain(x) == x \in Int /\ \E k \in Int : x = k * Grain

LEMMA GrainFact ==
  /\ Grain \in Nat \ {0} /\ Grain \div 2 \in Nat /\ Grain = 2 * (Grain \div 2) + 1
  /\ Grain <= Unit \div 2
<1>1. Grain \in Nat \ {0} /\ Grain % 2 = 1
  BY CorridorAssumption, ClosedCorridor
<1>2. Grain \div 2 \in Nat /\ Grain = 2 * (Grain \div 2) + 1
  BY <1>1
<1>3. Grain <= Unit \div 2
  BY <1>1, HalfFact, ClosedCorridor
<1> QED BY <1>1, <1>2, <1>3

\* Products with Grain, as linear facts.
LEMMA GrainProduct ==
  ASSUME NEW i \in Int, NEW j \in Int
  PROVE  /\ i * Grain \in Int /\ (i + 1) * Grain = i * Grain + Grain
         /\ (i + j) * Grain = i * Grain + j * Grain /\ (i - j) * Grain = i * Grain - j * Grain
         /\ (i * Grain < j * Grain => i < j)
         /\ (i <= j => i * Grain <= j * Grain)
BY GrainFact

\* Zero is a multiple.
LEMMA GrainOfZero == OnGrain(0)
<1>1. 0 * Grain = 0
  BY GrainFact
<1> QED BY <1>1 DEF OnGrain

\* Sums and differences of multiples are multiples.
LEMMA GrainSums ==
  ASSUME NEW x, OnGrain(x), NEW y, OnGrain(y)
  PROVE  OnGrain(x + y) /\ OnGrain(x - y)
<1>1. PICK i \in Int, j \in Int : x = i * Grain /\ y = j * Grain
  BY DEF OnGrain
<1>2. /\ x + y \in Int /\ x - y \in Int /\ i + j \in Int /\ i - j \in Int
      /\ x + y = (i + j) * Grain /\ x - y = (i - j) * Grain
  BY <1>1, GrainProduct
<1> QED BY <1>2 DEF OnGrain

\* Rounding yields a multiple and passes none.
LEMMA RoundFact ==
  ASSUME NEW p \in Int
  PROVE  /\ OnGrain(Rounded(p)) /\ Rounded(p) \in Int
         /\ Rounded(p) - p \in -(Grain \div 2) .. Grain \div 2
         /\ \A x : OnGrain(x) => (p <= x => Rounded(p) <= x) /\ (x <= p => x <= Rounded(p))
<1> DEFINE h == Grain \div 2
           q == (p + h) \div Grain
<1>1. q \in Int /\ q * Grain <= p + h /\ p + h < q * Grain + Grain /\ Rounded(p) = q * Grain
  BY GrainFact DEF Rounded
<1>2. q * Grain \in Int /\ (q + 1) * Grain = q * Grain + Grain
  BY <1>1, GrainProduct
<1>3. OnGrain(Rounded(p))
  BY <1>1, <1>2 DEF OnGrain
<1>4. ASSUME NEW x, OnGrain(x)
      PROVE  (p <= x => Rounded(p) <= x) /\ (x <= p => x <= Rounded(p))
  <2> HIDE DEF q
  <2>1. PICK k \in Int : x = k * Grain
    BY <1>4 DEF OnGrain
  <2>2. k * Grain \in Int /\ (k + 1) * Grain = k * Grain + Grain
    BY GrainProduct
  <2>3. CASE p <= x
    <3>1. q * Grain < (k + 1) * Grain
      BY <1>1, <1>2, <2>1, <2>2, <2>3, GrainFact
    <3>2. q < k + 1
      BY <3>1, <1>1, GrainProduct
    <3>3. q * Grain <= k * Grain
      BY <3>2, <1>1, GrainProduct
    <3> QED BY <3>3, <1>1, <1>2, <2>1, <2>2, <2>3
  <2>4. CASE x <= p
    <3>1. k * Grain < (q + 1) * Grain
      BY <1>1, <1>2, <2>1, <2>2, <2>4, GrainFact
    <3>2. k < q + 1
      BY <3>1, <1>1, GrainProduct
    <3>3. k * Grain <= q * Grain
      BY <3>2, <1>1, GrainProduct
    <3> QED BY <3>3, <1>1, <1>2, <2>1, <2>2, <2>4
  <2> QED BY <2>3, <2>4, <2>1, <2>2
<1>5. Rounded(p) - p \in -h .. h
  BY <1>1, <1>2, GrainFact
<1> QED BY <1>1, <1>2, <1>3, <1>4, <1>5

\* A multiple is kept, also with an error of a sum on it.
LEMMA RoundKeeps ==
  ASSUME NEW x, OnGrain(x), NEW e \in -(Grain \div 2) .. Grain \div 2
  PROVE  Rounded(x + e) = x
<1>1. PICK k \in Int : x = k * Grain
  BY DEF OnGrain
<1> DEFINE q == (x + e + Grain \div 2) \div Grain
<1>2. /\ x \in Int /\ e \in Int /\ q \in Int /\ Rounded(x + e) = q * Grain
      /\ q * Grain <= x + e + Grain \div 2 /\ x + e + Grain \div 2 < q * Grain + Grain
  BY GrainFact DEF OnGrain, Rounded
<1> HIDE DEF q
<1>3. /\ k * Grain \in Int /\ (k + 1) * Grain = k * Grain + Grain
      /\ q * Grain \in Int /\ (q + 1) * Grain = q * Grain + Grain
  BY <1>2, GrainProduct
<1>4. q * Grain < (k + 1) * Grain /\ k * Grain < (q + 1) * Grain
  BY <1>1, <1>2, <1>3, GrainFact
<1>5. q = k
  BY <1>4, <1>2, GrainProduct
<1> QED BY <1>1, <1>2, <1>5

\* Cells and their mids begin at multiples.
LEMMA GrainOfMids ==
  ASSUME NEW c \in Int
  PROVE  OnGrain(Unit) /\ OnGrain(c * Unit) /\ OnGrain(Mid(c))
<1> DEFINE u == Unit \div Grain
           v == (Unit \div 2) \div Grain
<1>1. u \in Int /\ Unit = u * Grain
  BY UnitFact, GrainFact, ClosedCorridor
<1>2. v \in Int /\ Unit \div 2 = v * Grain
  BY HalfFact, GrainFact, ClosedCorridor
<1> HIDE DEF u, v
<1>3. c * u \in Int /\ c * Unit = (c * u) * Grain /\ c * Unit \in Int
  BY <1>1, GrainFact
<1>4. OnGrain(Unit) /\ OnGrain(c * Unit) /\ OnGrain(Unit \div 2)
  <2>1. \A x \in Int, k \in Int : x = k * Grain => OnGrain(x)
    BY DEF OnGrain
  <2>2. Unit \in Int /\ Unit \div 2 \in Int
    BY UnitFact, HalfFact
  <2> QED BY <2>1, <2>2, <1>1, <1>2, <1>3
<1>5. OnGrain(c * Unit + Unit \div 2)
  BY <1>4, GrainSums
<1> QED BY <1>4, <1>5 DEF Mid

\* Whoever is clear of the walls is so after rounding.
LEMMA RoundedClear ==
  ASSUME NEW p, Clear(p)
  PROVE  Clear(Rounded(p))
<1>1. p \in Int /\ 0 <= p /\ p <= Width * Unit /\ Width * Unit \in Int
  BY CorridorAssumption, UnitFact DEF Clear, Places
<1>2. Rounded(p) \in Int
  BY <1>1, RoundFact
<1>3. Rounded(p) \in Places
  <2>1. OnGrain(0) /\ OnGrain(Width * Unit)
    <3>1. Width \in Int
      BY CorridorAssumption
    <3>2. OnGrain(Width * Unit)
      BY <3>1, GrainOfMids
    <3> QED BY <3>2, GrainOfZero
  <2>2. 0 <= Rounded(p) /\ Rounded(p) <= Width * Unit
    BY <1>1, <2>1, RoundFact
  <2> QED BY <1>1, <1>2, <2>2 DEF Places
<1>4. ASSUME NEW w \in Walls PROVE Distance(Rounded(p), Mid(w)) >= Unit
  <2>1. w \in Int
    BY CorridorAssumption DEF Cells
  <2>2. Mid(w) \in Int /\ Distance(p, Mid(w)) >= Unit
    BY <2>1, MidFact DEF Clear
  <2>3. OnGrain(Mid(w) - Unit) /\ OnGrain(Mid(w) + Unit)
    BY <2>1, GrainOfMids, GrainSums
  <2>4. p <= Mid(w) - Unit \/ Mid(w) + Unit <= p
    BY <1>1, <2>2, UnitFact DEF Distance
  <2>5. Rounded(p) <= Mid(w) - Unit \/ Mid(w) + Unit <= Rounded(p)
    BY <1>1, <2>3, <2>4, RoundFact
  <2> QED BY <1>2, <2>2, <2>5, UnitFact DEF Distance
<1> QED BY <1>3, <1>4 DEF Clear

\* A place near a clear one is in a cell of the corridor.
LEMMA NearClearInside ==
  ASSUME NEW p, Clear(p), NEW x \in Int, x - p \in -(Grain \div 2) .. Grain \div 2
  PROVE  CellOf(x) \in 1 .. Width - 1
<1>1. /\ p \in Int /\ Unit + Unit \div 2 <= p
      /\ p + Unit <= (Width - 1) * Unit + Unit \div 2
  BY ClearInside
<1>2. Width \in Int /\ Width * Unit = (Width - 1) * Unit + Unit /\ (Width - 1) * Unit \in Int
  BY CorridorAssumption, UnitFact
<1>3. CellOf(x) \in Int /\ CellOf(x) * Unit <= x /\ x < CellOf(x) * Unit + Unit
  BY CellFact
<1>4. CellOf(x) * Unit \in Int /\ 1 * Unit = Unit /\ (CellOf(x) + 1) * Unit = CellOf(x) * Unit + Unit
  BY <1>3, CellProduct, UnitFact
<1>5. 1 < CellOf(x) + 1
  <2>1. 1 * Unit < (CellOf(x) + 1) * Unit
    BY <1>1, <1>3, <1>4, GrainFact, HalfFact, UnitFact
  <2> QED BY <2>1, <1>3, CellProduct
<1>6. CellOf(x) < Width
  <2>1. CellOf(x) * Unit < Width * Unit
    BY <1>1, <1>2, <1>3, <1>4, GrainFact, HalfFact, UnitFact
  <2> QED BY <2>1, <1>2, <1>3, CellProduct
<1> QED BY <1>2, <1>3, <1>5, <1>6

\* Every wall a move might come to is in its area.
LEMMA AreaHasWalls ==
  ASSUME NEW p, Clear(p), NEW d \in -Unit .. Unit, d # 0, NEW w \in Walls,
         NEW ahead, ahead = Sign(d) * (Mid(w) - p),
         0 <= ahead, ahead < Sign(d) * d + Unit
  PROVE  w \in Area(p, d)
<1>1. /\ p \in Int /\ Unit + Unit \div 2 <= p
      /\ w \in Cells /\ w \in Int /\ d \in Int
  BY ClearInside, CorridorAssumption, UnitFact DEF Cells
<1>2. /\ Mid(w) \in Int /\ Mid(w) = w * Unit + Unit \div 2 /\ w * Unit \in Int
      /\ (2 * w + 1) * Unit = 2 * (w * Unit) + Unit
  BY <1>1, MidFact, CellProduct
<1>3. CASE d > 0
  <2>1. ahead = Mid(w) - p /\ p <= Mid(w) /\ Mid(w) < p + d + Unit
    BY <1>1, <1>2, <1>3, UnitFact DEF Sign
  <2>2. (2 * w + 1) * Unit < 2 * (p + d) + 3 * Unit
    BY <1>1, <1>2, <2>1, HalfFact, UnitFact
  <2>3. w >= 1
    BY <1>1, <1>2, <2>1, CellProduct, HalfFact, UnitFact
  <2>4. w > (p - 2 * Unit) \div Unit
    <3> DEFINE q == CellOf(p - 2 * Unit)
    <3>1. q \in Int /\ q * Unit <= p - 2 * Unit /\ q * Unit \in Int
      BY <1>1, CellFact, CellProduct, UnitFact
    <3>2. q * Unit < w * Unit
      BY <3>1, <1>1, <1>2, <2>1, HalfFact, UnitFact
    <3>3. q < w
      BY <3>1, <3>2, <1>1, CellProduct
    <3> QED BY <3>3 DEF CellOf
  <2> QED BY <1>1, <1>3, <2>2, <2>3, <2>4 DEF Area
<1>4. CASE d < 0
  <2>1. ahead = p - Mid(w) /\ Mid(w) <= p /\ Mid(w) > p + d - Unit
    BY <1>1, <1>2, <1>4, UnitFact DEF Sign
  <2>2. (2 * w + 1) * Unit > 2 * (p + d) - 3 * Unit
    BY <1>1, <1>2, <2>1, HalfFact, UnitFact
  <2>3. w <= (p + 3 * Unit - 1) \div Unit - 2
    <3> DEFINE q == CellOf(p + 3 * Unit - 1)
    <3>1. q \in Int /\ p + 3 * Unit - 1 < q * Unit + Unit /\ q * Unit \in Int
      BY <1>1, CellFact, CellProduct, UnitFact
    <3>2. (q + (-2)) * Unit = q * Unit - 2 * Unit
      BY <3>1, UnitFact
    <3>3. w * Unit < (q + (-2)) * Unit + Unit
      BY <3>1, <3>2, <1>1, <1>2, <2>1, HalfFact, UnitFact
    <3>4. w < q + (-2) + 1
      <4>1. (q + (-2) + 1) * Unit = (q + (-2)) * Unit + Unit
        BY <3>1, UnitFact
      <4> QED BY <4>1, <3>1, <3>3, <1>1, CellProduct
    <3> QED BY <3>1, <3>4, <1>1 DEF CellOf
  <2> QED BY <1>1, <1>4, <2>2, <2>3 DEF Area
<1> QED BY <1>1, <1>3, <1>4

\* The cells in which a move begins and ends are in its area, whatever it is
\* off by.
LEMMA AreaHasEnds ==
  ASSUME NEW p, Clear(p), NEW d \in -Unit .. Unit, d # 0,
         NEW x \in Int, CellOf(x) \in 1 .. Width - 1,
         - Unit < Sign(d) * (x - p), Sign(d) * (x - p) < Sign(d) * d + Unit
  PROVE  CellOf(x) \in Area(p, d)
<1> DEFINE c == CellOf(x)
<1>1. /\ p \in Int /\ Unit + Unit \div 2 <= p /\ d \in Int
      /\ x \in Int /\ c \in 1 .. Width - 1
  BY ClearInside, UnitFact
<1>2. /\ c \in Int /\ c * Unit <= x /\ x < c * Unit + Unit /\ c * Unit \in Int
      /\ (2 * c + 1) * Unit = 2 * (c * Unit) + Unit
  BY <1>1, CellFact, CellProduct
<1>3. c \in Cells /\ c >= 1
  BY <1>1, CorridorAssumption DEF Cells
<1> HIDE DEF c
<1>4. CASE d > 0
  <2>1. p - Unit < x /\ x < p + d + Unit
    BY <1>1, <1>4, UnitFact DEF Sign
  <2>2. (2 * c + 1) * Unit < 2 * (p + d) + 3 * Unit
    BY <1>1, <1>2, <2>1, UnitFact
  <2>3. c > (p - 2 * Unit) \div Unit
    <3> DEFINE q == CellOf(p - 2 * Unit)
    <3>1. q \in Int /\ q * Unit <= p - 2 * Unit /\ q * Unit \in Int
      BY <1>1, CellFact, CellProduct, UnitFact
    <3>2. q * Unit < c * Unit
      BY <3>1, <1>1, <1>2, <2>1, UnitFact
    <3>3. q < c
      BY <3>1, <3>2, <1>2, CellProduct
    <3> QED BY <3>3 DEF CellOf
  <2>4. c \in Area(p, d)
    BY <1>1, <1>3, <1>4, <2>2, <2>3 DEF Area
  <2> QED BY <2>4 DEF c
<1>5. CASE d < 0
  <2>1. p + d - Unit < x /\ x < p + Unit
    BY <1>1, <1>5, UnitFact DEF Sign
  <2>2. (2 * c + 1) * Unit > 2 * (p + d) - 3 * Unit
    BY <1>1, <1>2, <2>1, UnitFact
  <2>3. c <= (p + 3 * Unit - 1) \div Unit - 2
    <3> DEFINE q == CellOf(p + 3 * Unit - 1)
    <3>1. q \in Int /\ p + 3 * Unit - 1 < q * Unit + Unit /\ q * Unit \in Int
      BY <1>1, CellFact, CellProduct, UnitFact
    <3>2. (q + (-1)) * Unit = q * Unit - Unit
      BY <3>1, UnitFact
    <3>3. c * Unit < (q + (-1)) * Unit
      BY <3>1, <3>2, <1>1, <1>2, <2>1, UnitFact
    <3>4. c < q + (-1)
      BY <3>1, <3>3, <1>2, CellProduct
    <3> QED BY <3>1, <3>4, <1>2 DEF CellOf
  <2>4. c \in Area(p, d)
    BY <1>1, <1>3, <1>5, <2>2, <2>3 DEF Area
  <2> QED BY <2>4 DEF c
<1> QED BY <1>1, <1>4, <1>5

\* A move that ends before every wall of its area ends clear, also when the
\* way it goes is rounded up.
LEMMA ReachedClear ==
  ASSUME NEW p, Clear(p), OnGrain(p), NEW d \in -Unit .. Unit, d # 0,
         NEW r \in Nat, r <= Sign(d) * d,
         \A w \in Walls \cap Area(p, d) :
           LET ahead == Sign(d) * (Mid(w) - p) IN ahead < 0 \/ r <= ahead - Unit
  PROVE  Clear(p + Sign(d) * Rounded(r))
<1> DEFINE x == p + Sign(d) * Rounded(r)
<1>0. Rounded(r) \in Int /\ 0 <= Rounded(r)
  BY GrainOfZero, RoundFact
<1>1. p \in Int /\ d \in Int /\ x \in Int /\ Sign(d) \in {-1, 1}
  BY <1>0, ClearInside, UnitFact DEF Sign
<1>2. ASSUME NEW w \in Walls
      PROVE  /\ Distance(x, Mid(w)) >= Unit
             /\ Mid(w) <= p => Mid(w) <= x
             /\ p <= Mid(w) => x <= Mid(w)
  <2>1. w \in Int /\ Mid(w) \in Int /\ Distance(p, Mid(w)) >= Unit
    BY MidFact, CorridorAssumption DEF Cells, Clear
  <2> DEFINE ahead == Sign(d) * (Mid(w) - p)
  <2>2. ahead \in Int /\ (ahead >= Unit \/ ahead <= - Unit)
    BY <1>1, <2>1, UnitFact DEF Distance, Sign
  <2>3. ahead <= - Unit \/ r <= ahead - Unit
    <3>1. CASE w \in Area(p, d)
      BY <2>2, <3>1, UnitFact
    <3>2. CASE w \notin Area(p, d)
      <4>1. ahead < 0 \/ ahead >= Sign(d) * d + Unit
        BY <3>2, <2>2, AreaHasWalls, <1>1, UnitFact
      <4> QED BY <4>1, <2>2, <1>1, UnitFact DEF Sign
    <3> QED BY <3>1, <3>2
  <2>4. OnGrain(ahead - Unit)
    <3>1. OnGrain(Mid(w) - p - Unit) /\ OnGrain(p - Mid(w) - Unit)
      BY <2>1, GrainOfMids, GrainSums
    <3>2. ahead - Unit \in {Mid(w) - p - Unit, p - Mid(w) - Unit}
      BY <1>1, <2>1, UnitFact DEF Sign
    <3> QED BY <3>1, <3>2
  <2>5. ahead <= - Unit \/ Rounded(r) <= ahead - Unit
    BY <2>3, <2>4, RoundFact
  <2> HIDE DEF ahead
  <2>6. \/ ahead = Mid(w) - p /\ x = p + Rounded(r)
        \/ ahead = p - Mid(w) /\ x = p - Rounded(r)
    BY <1>0, <1>1, <2>1 DEF Sign, ahead
  <2> QED BY <1>0, <1>1, <2>1, <2>2, <2>5, <2>6, UnitFact DEF Distance
<1>3. x \in Places
  <2>1. 0 \in Walls /\ Width - 1 \in Walls /\ 0 \in Int /\ Width - 1 \in Int
    BY CorridorAssumption, ClosedCorridor
  <2>2. /\ Mid(0) \in Int /\ Mid(0) = 0 * Unit + Unit \div 2
        /\ Mid(Width - 1) \in Int /\ Mid(Width - 1) = (Width - 1) * Unit + Unit \div 2
    BY <2>1, MidFact
  <2>3. Width * Unit = (Width - 1) * Unit + Unit /\ 0 * Unit = 0 /\ (Width - 1) * Unit \in Int
    BY <2>1, CorridorAssumption, UnitFact
  <2>4. Mid(0) <= p /\ p <= Mid(Width - 1)
    BY ClearInside, <2>2, <2>3, UnitFact, HalfFact
  <2>5. Mid(0) <= x /\ x <= Mid(Width - 1)
    BY <2>1, <2>4, <1>2
  <2> QED BY <1>1, <2>2, <2>3, <2>5, HalfFact, UnitFact DEF Places
<1> QED BY <1>2, <1>3 DEF Clear

-----------------------------------------------------------------------------
(* CorrectPosition finds a place. *)

\* A legal place is clear of all walls, although only three cells are looked at.
LEMMA LegalClear ==
  ASSUME NEW p \in Int, Legal(p)
  PROVE  Clear(p)
<1>1. p \in Places
  BY HalfFact, CorridorAssumption, UnitFact DEF Legal, Places
<1> DEFINE k == CellOf(p)
<1>2. k \in Int /\ k * Unit <= p /\ p < k * Unit + Unit /\ k * Unit \in Int
  BY CellFact, CellProduct
<1> HIDE DEF k
<1>3. ASSUME NEW w \in Walls PROVE Distance(p, Mid(w)) >= Unit
  <2>1. w \in Cells /\ w \in Int
    BY CorridorAssumption DEF Cells
  <2>2. Mid(w) \in Int /\ Mid(w) = w * Unit + Unit \div 2 /\ w * Unit \in Int
    BY <2>1, MidFact, CellProduct
  <2>3. CASE w \in k - 1 .. k + 1
    <3>1. Distance(Mid(w), p) >= Unit
      BY <2>1, <2>3 DEF Legal, k
    <3> QED BY <3>1, <2>2 DEF Distance
  <2>4. CASE w > k + 1
    <3>1. (k + 1) * Unit = k * Unit + Unit /\ (k + 1) * Unit + Unit <= w * Unit
      BY <2>1, <2>4, <1>2, CellProduct, UnitFact
    <3> QED BY <3>1, <2>2, <1>2, HalfFact, UnitFact DEF Distance
  <2>5. CASE w < k - 1
    <3>1. (k + (-1)) * Unit = k * Unit - Unit
      BY <1>2, UnitFact
    <3>2. w * Unit + Unit <= (k + (-1)) * Unit
      BY <2>1, <2>5, <1>2, CellProduct
    <3> QED BY <3>1, <3>2, <2>2, <1>2, HalfFact, UnitFact DEF Distance
  <2> QED BY <2>1, <2>3, <2>4, <2>5, <1>2
<1> QED BY <1>1, <1>3 DEF Clear

\* The mid of a cell without a wall is legal, unless a player is near it.
LEMMA MidLegal ==
  ASSUME TypeOK, NEW c \in Cells \ Walls, ~ Legal(Mid(c))
  PROVE  \E q \in Players : (\E e \in Cells : q \in grid[e]) /\ Distance(position[q], Mid(c)) < Unit
<1>1. c \in Int /\ 0 <= c /\ c <= Width - 1 /\ Width \in Int
  BY CorridorAssumption DEF Cells
<1>2. Mid(c) \in Int /\ Mid(c) = c * Unit + Unit \div 2 /\ c * Unit \in Int
  BY <1>1, MidFact, CellProduct
<1>3. Mid(c) >= Unit \div 2 /\ Mid(c) + Unit \div 2 <= Width * Unit
  <2>1. 0 * Unit <= c * Unit /\ c * Unit + Unit <= Width * Unit /\ Width * Unit \in Int
    BY <1>1, CellProduct
  <2> QED BY <2>1, <1>2, HalfFact, UnitFact
<1>4. ASSUME NEW w \in Walls PROVE Distance(Mid(w), Mid(c)) >= Unit
  <2>1. w \in Int /\ w # c
    BY CorridorAssumption DEF Cells
  <2>2. Mid(w) \in Int /\ (w < c => Mid(w) + Unit <= Mid(c)) /\ (c < w => Mid(c) + Unit <= Mid(w))
    BY <2>1, <1>1, MidFact
  <2> QED BY <2>1, <2>2, <1>1, <1>2, UnitFact DEF Distance
<1>5. PICK e \in Cells : \E q \in grid[e] : ~ (Distance(position[q], Mid(c)) >= Unit)
  BY <1>3, <1>4 DEF Legal
<1>6. PICK q \in grid[e] : ~ (Distance(position[q], Mid(c)) >= Unit)
  BY <1>5
<1>7. q \in Players /\ position[q] \in Int
  BY <1>5, <1>6 DEF TypeOK
<1> QED BY <1>2, <1>5, <1>6, <1>7, UnitFact DEF Distance

\* A player is on the left or on the right of a mid it is near: two sides.
LEMMA TwoSides ==
  IsFiniteSet({0, 1}) /\ Cardinality({0, 1}) = 2
<1>1. IsFiniteSet({0}) /\ Cardinality({0}) = 1
  BY FS_Singleton, Zenon
<1>2. 1 \notin {0}
  OBVIOUS
<1>3. IsFiniteSet({0} \cup {1}) /\ Cardinality({0} \cup {1}) = Cardinality({0}) + 1
  BY <1>1, <1>2, FS_AddElement, Zenon
<1>4. {0, 1} = {0} \cup {1}
  BY Zenon
<1>5. 1 + 1 = 2
  OBVIOUS
<1> QED BY <1>1, <1>3, <1>4, <1>5, Zenon

\* Each player is near two mids at most, and there are more cells than that:
\* whoever looks for a place finds a legal mid.
LEMMA SomeMidLegal ==
  ASSUME TypeOK, Aims # {}
  PROVE  \E c \in Cells \ Walls : Legal(Mid(c))
<1> DEFINE Blocked == {c \in Cells \ Walls : ~ Legal(Mid(c))}
           near(c) == CHOOSE q \in Players : Distance(position[q], Mid(c)) < Unit
           f == [c \in Blocked |-> <<near(c), IF Mid(c) <= position[near(c)] THEN 0 ELSE 1>>]
<1>1. ASSUME NEW c \in Blocked
      PROVE  near(c) \in Players /\ Distance(position[near(c)], Mid(c)) < Unit
  <2>1. \E q \in Players : Distance(position[q], Mid(c)) < Unit
    BY MidLegal
  <2> QED BY <2>1
<1>2. f \in [Blocked -> Players \X {0, 1}]
  BY <1>1
<1>3. ASSUME NEW c \in Blocked, NEW e \in Blocked, f[c] = f[e], c < e
      PROVE  FALSE
  <2> DEFINE q == near(c)
  <2>1. near(e) = q /\ (Mid(c) <= position[q] <=> Mid(e) <= position[q])
    <3> DEFINE side(b) == IF Mid(b) <= position[near(b)] THEN 0 ELSE 1
    <3>1. f[c] = <<near(c), side(c)>> /\ f[e] = <<near(e), side(e)>>
      OBVIOUS
    <3> HIDE DEF near, side, f
    <3>2. near(c) = near(e) /\ side(c) = side(e)
      BY <3>1, <1>3
    <3> QED BY <3>2 DEF side
  <2>2. q \in Players /\ Distance(position[q], Mid(c)) < Unit /\ Distance(position[q], Mid(e)) < Unit
    BY <1>1, <2>1
  <2>3. c \in Int /\ e \in Int
    BY DEF Cells
  <2>4. Mid(c) \in Int /\ Mid(e) \in Int /\ Mid(c) + Unit <= Mid(e)
    BY <2>3, <1>3, MidFact
  <2> HIDE DEF q
  <2>5. position[q] \in Int
    BY <2>2 DEF TypeOK
  <2> QED BY <2>1, <2>2, <2>4, <2>5, UnitFact DEF Distance
<1>4. f \in Injection(Blocked, Players \X {0, 1})
  <2> HIDE DEF f
  <2>1. \A c, e \in Blocked : f[c] = f[e] => ~ (c < e) /\ ~ (e < c)
    BY <1>3
  <2>2. Blocked \subseteq Int
    BY DEF Cells
  <2>3. IsInjective(f)
    BY <1>2, <2>1, <2>2 DEF IsInjective
  <2> QED BY <1>2, <2>3 DEF Injection
<1>5. IsFiniteSet(Players) /\ Cardinality(Players) \in Nat
  BY ClosedCorridor, FS_CardinalityType
<1>6. IsFiniteSet({0, 1}) /\ Cardinality({0, 1}) = 2
  BY TwoSides
<1>7. /\ IsFiniteSet(Players \X {0, 1})
      /\ Cardinality(Players \X {0, 1}) = Cardinality(Players) * 2
  <2>1. /\ IsFiniteSet(Players \X {0, 1})
        /\ Cardinality(Players \X {0, 1}) = Cardinality(Players) * Cardinality({0, 1})
    BY <1>5, <1>6, FS_Product, Zenon
  <2> QED BY <2>1, <1>5, <1>6
<1>8. Cardinality(Blocked) <= Cardinality(Players) * 2
  <2> HIDE DEF f, Blocked
  <2> QED BY <1>4, <1>7, FS_Injection
<1>9. Blocked # Cells \ Walls
  <2> HIDE DEF Blocked
  <2>1. 2 * Cardinality(Players) = Cardinality(Players) * 2
    BY <1>5
  <2>2. Cardinality(Cells \ Walls) \in Nat /\ Cardinality(Cells \ Walls) > 2 * Cardinality(Players)
    <3>1. IsFiniteSet(Cells)
      BY FS_Interval, CorridorAssumption DEF Cells
    <3>2. IsFiniteSet(Cells \ Walls)
      BY <3>1, FS_Subset
    <3> QED BY <3>2, FS_CardinalityType, ClosedCorridor
  <2>3. Cardinality(Players) * 2 \in Int
    BY <1>5
  <2>4. ~ (Cardinality(Cells \ Walls) <= Cardinality(Players) * 2)
    BY <2>1, <2>2, <2>3
  <2> QED BY <1>8, <2>4, Zenon
<1> QED BY <1>9

\* So where CorrectPosition puts a player is clear.
LEMMA CorrectedClear ==
  ASSUME TypeOK, Aims # {}, NEW p \in Places, NEW x \in Corrected(p)
  PROVE  Clear(x)
<1> DEFINE k == IF CellOf(p) < Width THEN CellOf(p) ELSE Width - 1
           mid == Mid(k)
           rounds == {r \in 1 .. Width - 1 : Legal(mid - r * Unit) \/ Legal(mid + r * Unit)}
           far == {IF Legal(mid - r * Unit) THEN mid - r * Unit ELSE mid + r * Unit :
                     r \in {first \in rounds : IsFirst(first, rounds)}}
<1>1. p \in Int /\ 0 <= p /\ p <= Width * Unit
  BY CorridorAssumption, UnitFact DEF Places
<1>2. k \in 0 .. Width - 1
  <2>1. /\ CellOf(p) \in Int /\ CellOf(p) * Unit <= p /\ p < CellOf(p) * Unit + Unit
        /\ CellOf(p) * Unit \in Int /\ (CellOf(p) + 1) * Unit = CellOf(p) * Unit + Unit
    BY <1>1, CellFact, CellProduct, UnitFact
  <2>2. 0 * Unit = 0 /\ 0 * Unit < (CellOf(p) + 1) * Unit
    BY <2>1, <1>1, UnitFact
  <2>3. 0 < CellOf(p) + 1
    BY <2>1, <2>2, CellProduct
  <2> QED BY <2>1, <2>3, CorridorAssumption
<1>3. k \in Int /\ mid \in Int /\ mid = k * Unit + Unit \div 2 /\ k * Unit \in Int
  <2> HIDE DEF k
  <2> QED BY <1>2, MidFact, CellProduct, CorridorAssumption
<1>4. Legal(mid) \/ rounds # {}
  <2> HIDE DEF k
  <2>1. PICK c \in Cells \ Walls : Legal(Mid(c))
    BY SomeMidLegal
  <2>2. c \in 1 .. Width - 1 /\ c \in Int
    BY ClosedCorridor, CorridorAssumption DEF Cells
  <2>3. Mid(c) = c * Unit + Unit \div 2 /\ c * Unit \in Int
    BY <2>2, MidFact, CellProduct
  <2>4. CASE c = k
    BY <2>1, <2>4
  <2>5. CASE c < k
    <3>1. k - c \in 1 .. Width - 1
      BY <2>2, <2>5, <1>2, CorridorAssumption
    <3>2. mid - (k - c) * Unit = Mid(c)
      BY <1>3, <2>2, <2>3, HalfFact, UnitFact
    <3> QED BY <3>1, <3>2, <2>1
  <2>6. CASE c > k
    <3>1. c - k \in 1 .. Width - 1
      BY <2>2, <2>6, <1>2, CorridorAssumption
    <3>2. mid + (c - k) * Unit = Mid(c)
      BY <1>3, <2>2, <2>3, HalfFact, UnitFact
    <3> QED BY <3>1, <3>2, <2>1
  <2> QED BY <2>2, <2>4, <2>5, <2>6, <1>3
<1>5. \A r \in Int : mid - r * Unit \in Int /\ mid + r * Unit \in Int
  <2> HIDE DEF k, mid
  <2> QED BY <1>3, CellProduct
<1>6. x \in Int /\ Legal(x)
  <2>1. Corrected(p) = IF Legal(p) THEN {p} ELSE IF Legal(mid) THEN {mid}
                       ELSE IF rounds = {} THEN {0} ELSE far
    BY DEF Corrected
  <2>2. ASSUME NEW y \in far PROVE y \in Int /\ Legal(y)
    <3>1. PICK r \in rounds : y = IF Legal(mid - r * Unit) THEN mid - r * Unit ELSE mid + r * Unit
      OBVIOUS
    <3>2. r \in Int /\ (Legal(mid - r * Unit) \/ Legal(mid + r * Unit))
      OBVIOUS
    <3> HIDE DEF mid, rounds
    <3> QED BY <3>1, <3>2, <1>5
  <2> HIDE DEF mid, rounds, far
  <2> QED BY <2>1, <2>2, <1>1, <1>3, <1>4
<1> QED BY <1>6, LegalClear

-----------------------------------------------------------------------------
(* Where the players are listed and stand, step by step. *)

Traced(m) == Listing(m) /\ Standing(m) /\ Heading(m)

\* A step that changes nothing of a player keeps what is known of it.
LEMMA Untouched ==
  ASSUME NEW n \in Players, Traced(n), pc'[n] = pc[n], position'[n] = position[n],
         previous'[n] = previous[n], move'[n] = move[n], reach'[n] = reach[n],
         todo'[n] = todo[n], carried[n] \subseteq carried'[n],
         ListedAt(n)' = ListedAt(n), Held(n)' = Held(n)
  PROVE  Traced(n)'
<1>1. Listing(n)'
  BY DEF Traced, Listing
<1>2. Standing(n)'
  BY DEF Traced, Standing
<1>3. Heading(n)'
  BY DEF Traced, Heading, EndsBefore
<1> QED BY <1>1, <1>2, <1>3 DEF Traced

\* Move: the object stays listed where it is, and its area is to be locked.
LEMMA MoveTraced ==
  ASSUME LockInv, GridInv, NEW m \in Players, NEW n \in Players,
         NEW d \in -Unit .. Unit, d # 0, Move(m, d)
  PROVE  Traced(n)'
<1>0. Traced(n) /\ TypeOK /\ LocksInOrder
  BY DEF GridInv, Traced, LockInv
<1>1. CASE n # m
  <2>1. /\ pc'[n] = pc[n] /\ position'[n] = position[n] /\ previous'[n] = previous[n]
        /\ move'[n] = move[n] /\ reach'[n] = reach[n] /\ todo'[n] = todo[n]
        /\ carried'[n] = carried[n]
    BY <1>0, <1>1 DEF Move, Goto, TypeOK
  <2>2. ListedAt(n)' = ListedAt(n) /\ Held(n)' = Held(n)
    BY DEF Move, ListedAt, Held
  <2> QED BY <1>0, <2>1, <2>2, Untouched
<1>2. CASE n = m
  <2> DEFINE p == position[n]
             q == Rounded(p)
  <2>1. /\ pc[n] = "idle" /\ pc'[n] = "lock" /\ previous'[n] = q
        /\ move'[n] = d /\ reach'[n] = d * Sign(d) /\ todo'[n] = Area(q, d)
        /\ carried'[n] = carried[n] \cup ({CellOf(p)} \ {CellOf(q)})
    BY <1>0, <1>2 DEF Move, Goto, TypeOK
  <2>2. ListedAt(n)' = ListedAt(n) /\ Held(n)' = {}
    BY <1>0, <2>1 DEF Move, ListedAt, Held, LocksInOrder
  <2>3. Clear(q) /\ ListedAt(n) \subseteq {CellOf(p)} \cup carried[n]
    BY <1>0, <2>1 DEF Traced, Standing, Listing
  <2>4. Rounded(q) = q
    <3>1. p \in Int
      BY <1>0 DEF TypeOK
    <3>2. OnGrain(q) /\ q \in Int /\ q + 0 = q /\ 0 \in -(Grain \div 2) .. Grain \div 2
      BY <3>1, RoundFact, GrainFact
    <3> HIDE DEF q
    <3>3. Rounded(q + 0) = q
      BY <3>2, RoundKeeps
    <3> QED BY <3>2, <3>3
  <2> HIDE DEF p, q
  <2>5. Heading(n)'
    <3>1. d * Sign(d) <= Sign(d) * d
      BY UnitFact DEF Sign
    <3> QED BY <2>1, <2>2, <2>3, <2>4, <3>1 DEF Heading
  <2>6. ListedAt(n)' \subseteq {CellOf(q)} \cup carried'[n]
    BY <2>1, <2>2, <2>3
  <2> QED BY <2>1, <2>5, <2>6 DEF Traced, Listing, Standing
<1> QED BY <1>1, <1>2

\* A jump begins: the aim is on the map, the object still listed behind.
LEMMA TeleportTraced ==
  ASSUME LockInv, GridInv, NEW m \in Players, NEW n \in Players,
         NEW aim \in Aims, Teleport(m, aim)
  PROVE  Traced(n)'
<1>0. Traced(n) /\ TypeOK
  BY DEF GridInv, Traced, LockInv
<1>2. ListedAt(n)' = ListedAt(n) /\ Held(n)' = Held(n)
  BY DEF Teleport, ListedAt, Held
<1>3. CASE n # m
  <2>1. /\ pc'[n] = pc[n] /\ position'[n] = position[n] /\ previous'[n] = previous[n]
        /\ move'[n] = move[n] /\ reach'[n] = reach[n] /\ todo'[n] = todo[n]
        /\ carried'[n] = carried[n]
    BY <1>0, <1>3 DEF Teleport, Goto, TypeOK
  <2> QED BY <1>0, <1>2, <2>1, Untouched
<1>4. CASE n = m
  <2>1. /\ pc[n] = "idle" /\ pc'[n] = "leave" /\ previous'[n] = position[n]
        /\ position'[n] = aim /\ aim \in Places /\ carried'[n] = carried[n]
    BY <1>0, <1>4, CorridorAssumption DEF Teleport, Goto, TypeOK
  <2> QED BY <1>0, <1>2, <2>1 DEF Traced, Listing, Standing, Heading
<1> QED BY <1>3, <1>4

\* A cell that is looked at under its lock leaves room before its wall.
LEMMA ShortenEndsBefore ==
  ASSUME TypeOK, NEW m \in Players, NEW c \in Cells, Shorten(m, c), Heading(m),
         pc[m] = "lock"
  PROVE  reach'[m] <= reach[m] /\ \A w \in Walls \cap {c} :
           LET ahead == Sign(move[m]) * (Mid(w) - previous[m])
           IN  ahead < 0 \/ reach'[m] <= ahead - Unit
<1>1. reach' \in [Players -> Nat] /\ reach[m] \in Nat /\ previous[m] \in Int /\ move[m] \in Int
  BY ShortenTyped DEF TypeOK
<1>2. PICK g \in Gaps(m, c) \cup {reach[m]} :
        /\ IsFirst(g, Gaps(m, c) \cup {reach[m]})
        /\ reach' = [reach EXCEPT ![m] = g]
  BY DEF Shorten
<1>3. reach'[m] = g
  BY <1>2 DEF TypeOK
<1>4. reach'[m] <= reach[m]
  BY <1>2, <1>3 DEF IsFirst
<1>5. ASSUME NEW w \in Walls \cap {c},
             NEW ahead, ahead = Sign(move[m]) * (Mid(w) - previous[m]), ~ (ahead < 0)
      PROVE  reach'[m] <= ahead - Unit
  <2>1. w = c /\ w \in Int
    BY DEF Cells
  <2>2. Mid(w) \in Int /\ Mid(w) = w * Unit + Unit \div 2 /\ w * Unit \in Int
    BY <2>1, MidFact, CellProduct
  <2>3. Clear(previous[m]) /\ Distance(previous[m], Mid(w)) >= Unit
    BY DEF Heading, Clear
  <2>4. ahead \in Int /\ ahead >= Unit
    BY <1>1, <1>5, <2>2, <2>3, UnitFact DEF Sign, Distance
  <2>5. c # CellOf(previous[m])
    <3>1. /\ CellOf(previous[m]) * Unit <= previous[m]
          /\ previous[m] < CellOf(previous[m]) * Unit + Unit
      BY <1>1, CellFact
    <3> QED BY <3>1, <2>1, <2>2, <2>3, <1>1, HalfFact, UnitFact DEF Distance
  <2>6. CASE ahead - Unit < reach[m]
    <3>1. Mid(w) \in {Mid(v) : v \in Walls \cap {c}}
      OBVIOUS
    <3>2. ahead - Unit = Sign(move[m]) * (Mid(w) - previous[m]) - Unit /\ 0 <= ahead - Unit
      BY <1>5, <2>4, UnitFact
    <3>3. ahead - Unit \in Gaps(m, c)
      BY <3>1, <3>2, <2>5, <2>6 DEF Gaps
    <3> QED BY <3>3, <1>2, <1>3 DEF IsFirst
  <2>7. CASE ~ (ahead - Unit < reach[m])
    BY <2>7, <1>1, <1>4, <2>4, UnitFact
  <2> QED BY <2>6, <2>7
<1> QED BY <1>4, <1>5

\* One more cell of the area is locked and looked at.
LEMMA CheckBlockTraced ==
  ASSUME LockInv, GridInv, NEW m \in Players, NEW n \in Players, NEW c \in Cells, CheckBlock(m, c)
  PROVE  Traced(n)'
<1>0. Traced(n) /\ Heading(m) /\ TypeOK
  BY DEF GridInv, Traced, LockInv
<1>1. /\ pc[m] = "lock" /\ pc'[m] \in {"lock", "place"} /\ Shorten(m, c)
      /\ c \in todo[m] /\ todo'[m] = todo[m] \ {c}
      /\ lock[c] = Free /\ lock' = [lock EXCEPT ![c] = m]
      /\ UNCHANGED <<position, previous, move, grid, carried>>
  BY <1>0 DEF CheckBlock, Goto, TypeOK, IsFirst
<1>2. ListedAt(n)' = ListedAt(n)
  BY <1>1 DEF ListedAt
<1>3. CASE n # m
  <2>1. pc'[n] = pc[n] /\ todo'[n] = todo[n] /\ reach'[n] = reach[n]
    BY <1>0, <1>3 DEF CheckBlock, Goto, TypeOK, Shorten
  <2>2. Held(n)' = Held(n)
    BY <1>0, <1>1, <1>3, GridThreadsAssumption DEF Held, TypeOK
  <2> QED BY <1>0, <1>1, <1>2, <2>1, <2>2, Untouched
<1>4. CASE n = m
  <2>1. Held(n)' = Held(n) \cup {c}
    BY <1>0, <1>1, <1>4 DEF Held, TypeOK
  <2>2. reach' \in [Players -> Nat] /\ reach[n] \in Nat /\ reach'[n] <= reach[n]
    BY <1>0, <1>1, <1>4, ShortenTyped, ShortenEndsBefore DEF TypeOK
  <2>3. /\ Clear(previous[n]) /\ Rounded(previous[n]) = previous[n] /\ move[n] \in -Unit .. Unit /\ move[n] # 0
        /\ reach[n] <= Sign(move[n]) * move[n]
        /\ Held(n) \cup todo[n] = Area(previous[n], move[n])
        /\ \A w \in Walls \cap Held(n) : EndsBefore(n, w)
    BY <1>0, <1>1, <1>4 DEF Heading
  <2>4. move[n] \in Int /\ previous[n] \in Int /\ Sign(move[n]) \in Int
    BY <1>0 DEF TypeOK, Sign
  <2>5. ASSUME NEW w \in Walls \cap Held(n)' PROVE EndsBefore(n, w)'
    <3>0. w \in Int
      BY CorridorAssumption DEF Cells
    <3>1. Mid(w) \in Int
      BY <3>0, MidFact
    <3>5. Sign(move[n]) * (Mid(w) - previous[n]) \in Int
      BY <2>4, <3>1 DEF Sign
    <3>2. CASE w = c
      BY <3>2, <1>0, <1>1, <1>4, ShortenEndsBefore DEF EndsBefore
    <3>3. CASE w # c
      <4>1. EndsBefore(n, w)
        BY <2>1, <2>3, <3>3
      <4> QED BY <4>1, <3>5, <2>2, <1>1, UnitFact DEF EndsBefore
    <3> QED BY <3>2, <3>3
  <2>6. Held(n)' \cup todo'[n] = Area(previous[n], move[n])
    BY <1>1, <1>4, <2>1, <2>3
  <2>7. reach'[n] <= Sign(move[n]) * move[n]
    BY <2>2, <2>3, <2>4 DEF Sign
  <2>8. Heading(n)'
    BY <1>1, <2>3, <2>5, <2>6, <2>7 DEF Heading
  <2>9. Listing(n)' /\ Standing(n)'
    BY <1>0, <1>1, <1>2, <1>4 DEF Traced, Listing, Standing
  <2> QED BY <2>8, <2>9 DEF Traced
<1> QED BY <1>3, <1>4

\* Where a move gets to under the locks of its area is clear.
LEMMA PlaceClear ==
  ASSUME LockInv, GridInv, NEW m \in Players, pc[m] = "place"
  PROVE  /\ Clear(previous[m]) /\ Clear(Reached(m)) /\ OnGrain(Reached(m))
         /\ Held(m) = Area(previous[m], move[m])
         /\ move[m] \in -Unit .. Unit /\ move[m] # 0
         /\ Sign(move[m]) * (Reached(m) - previous[m]) \in 0 .. Sign(move[m]) * move[m] + Grain
<1>1. Heading(m) /\ todo[m] = {} /\ reach[m] \in Nat /\ previous[m] \in Int
  BY DEF GridInv, LockInv, LocksInOrder, TypeOK
<1>2. /\ Clear(previous[m]) /\ move[m] \in -Unit .. Unit /\ move[m] # 0
      /\ Rounded(previous[m]) = previous[m]
      /\ reach[m] <= Sign(move[m]) * move[m]
      /\ Held(m) = Area(previous[m], move[m])
      /\ \A w \in Walls \cap Held(m) : EndsBefore(m, w)
  BY <1>1 DEF Heading
<1>3. /\ OnGrain(previous[m]) /\ OnGrain(Rounded(reach[m])) /\ Rounded(reach[m]) \in Int
      /\ Rounded(reach[m]) - reach[m] \in -(Grain \div 2) .. Grain \div 2
  <2>1. OnGrain(Rounded(previous[m]))
    BY <1>1, RoundFact
  <2> QED BY <2>1, <1>1, <1>2, RoundFact
<1>4. 0 <= Rounded(reach[m])
  BY <1>1, GrainOfZero, RoundFact
<1>5. Clear(Reached(m))
  BY <1>1, <1>2, <1>3, ReachedClear DEF EndsBefore, Reached
<1>6. OnGrain(Reached(m))
  <2>1. OnGrain(previous[m] + Rounded(reach[m])) /\ OnGrain(previous[m] - Rounded(reach[m]))
    BY <1>3, GrainSums
  <2>2. Reached(m) \in {previous[m] + Rounded(reach[m]), previous[m] - Rounded(reach[m])}
    BY <1>1, <1>3 DEF Reached, Sign
  <2> QED BY <2>1, <2>2
<1>7. Sign(move[m]) * (Reached(m) - previous[m]) = Rounded(reach[m])
  BY <1>1, <1>3 DEF Reached, Sign
<1>8. Sign(move[m]) * move[m] \in Int
  BY <1>2, UnitFact DEF Sign
<1> QED BY <1>1, <1>2, <1>3, <1>4, <1>5, <1>6, <1>7, <1>8, GrainFact

\* Place moves the object's entry along with it.
LEMMA PlaceTraced ==
  ASSUME LockInv, GridInv, NEW m \in Players, NEW n \in Players, Place(m)
  PROVE  Traced(n)'
<1>0. Traced(n) /\ TypeOK
  BY DEF GridInv, Traced, LockInv
<1>1. PICK e \in Errors :
      /\ pc[m] = "place" /\ pc'[m] = "unlock" /\ position'[m] = Reached(m) + e
      /\ grid' = [Unlisted(m, CellOf(previous[m])) EXCEPT ![CellOf(Reached(m) + e)] = @ \cup {m}]
      /\ UNCHANGED <<previous, move, reach, todo, lock, carried>>
  BY <1>0 DEF Place, Goto, TypeOK
<1>2. CASE n # m
  <2>1. pc'[n] = pc[n] /\ position'[n] = position[n]
    BY <1>0, <1>2 DEF Place, Goto, TypeOK
  <2>2. ListedAt(n)' = ListedAt(n)
    BY <1>0, <1>1, <1>2 DEF ListedAt, Unlisted, TypeOK
  <2>3. Held(n)' = Held(n)
    BY <1>1 DEF Held
  <2> QED BY <1>0, <1>1, <2>1, <2>2, <2>3, Untouched
<1>3. CASE n = m
  <2> DEFINE x == Reached(m) + e
  <2>1. /\ Clear(Reached(m)) /\ OnGrain(Reached(m)) /\ e \in -(Grain \div 2) .. Grain \div 2
        /\ x \in Int /\ x - Reached(m) = e
    BY <1>1, PlaceClear, ClearInside, CorridorAssumption, GrainFact
  <2>2. Rounded(x) = Reached(m)
    BY <2>1, RoundKeeps
  <2>3. CellOf(x) \in Cells
    <3>1. CellOf(x) \in 1 .. Width - 1
      BY <2>1, NearClearInside
    <3> QED BY <3>1, CorridorAssumption DEF Cells
  <2>4. ListedAt(n) \subseteq {CellOf(previous[n])} \cup carried[n]
    BY <1>0, <1>1, <1>3 DEF Traced, Listing
  <2> HIDE DEF x
  <2>5. position'[n] = x /\ pc'[n] = "unlock" /\ carried'[n] = carried[n]
        /\ grid' = [Unlisted(n, CellOf(previous[n])) EXCEPT ![CellOf(x)] = @ \cup {n}]
    BY <1>1, <1>3 DEF x
  <2>6. /\ CellOf(x) \in ListedAt(n)'
        /\ ListedAt(n)' \subseteq {CellOf(x)} \cup carried[n]
    BY <1>0, <2>3, <2>4, <2>5 DEF ListedAt, Unlisted, TypeOK
  <2>7. Clear(Rounded(x))
    BY <2>1, <2>2
  <2> QED BY <2>5, <2>6, <2>7 DEF Traced, Listing, Standing, Heading
<1> QED BY <1>2, <1>3

\* Giving locks back changes nothing else.
LEMMA UnlockTraced ==
  ASSUME LockInv, GridInv, NEW m \in Players, NEW n \in Players, NEW c \in Cells, Unlock(m, c)
  PROVE  Traced(n)'
<1>0. Traced(n) /\ TypeOK
  BY DEF GridInv, Traced, LockInv
<1>1. /\ pc[m] = "unlock" /\ pc'[m] \in {"unlock", "idle"} /\ c \in Held(m)
      /\ lock' = [lock EXCEPT ![c] = Free]
      /\ UNCHANGED <<position, previous, move, reach, todo, grid, carried>>
  BY <1>0 DEF Unlock, Goto, TypeOK, IsFirst
<1>2. ListedAt(n)' = ListedAt(n)
  BY <1>1 DEF ListedAt
<1>3. CASE n # m
  <2>1. pc'[n] = pc[n]
    BY <1>0, <1>3 DEF Unlock, Goto, TypeOK
  <2>2. Held(n)' = Held(n)
    BY <1>0, <1>1, <1>3, GridThreadsAssumption DEF Held, TypeOK
  <2> QED BY <1>0, <1>1, <1>2, <2>1, <2>2, Untouched
<1>4. CASE n = m
  BY <1>0, <1>1, <1>2, <1>4 DEF Traced, Listing, Standing, Heading
<1> QED BY <1>3, <1>4

\* A jump leaves its cell, looks for a clear place and is listed there.
LEMMA TeleportStepTraced ==
  ASSUME LockInv, GridInv, NEW m \in Players, NEW n \in Players, TeleportStep(m)
  PROVE  Traced(n)'
<1>0. Traced(n) /\ Traced(m) /\ TypeOK
  BY DEF GridInv, Traced, LockInv
<1>1. UNCHANGED <<previous, move, reach, todo, lock, carried>> /\ Held(n)' = Held(n)
  BY DEF TeleportStep, Leave, Land, List, Held
<1>2. CASE Leave(m)
  <2>1. /\ pc[m] = "leave" /\ pc'[m] = "land" /\ position' = position
        /\ grid' = Unlisted(m, CellOf(previous[m]))
    BY <1>0, <1>2 DEF Leave, Goto, TypeOK
  <2>2. CASE n # m
    <3>1. pc'[n] = pc[n]
      BY <1>0, <1>2, <2>2 DEF Leave, Goto, TypeOK
    <3>2. ListedAt(n)' = ListedAt(n)
      BY <1>0, <2>1, <2>2 DEF ListedAt, Unlisted, TypeOK
    <3> QED BY <1>0, <1>1, <2>1, <3>1, <3>2, Untouched
  <2>3. CASE n = m
    <3>1. ListedAt(n) \subseteq {CellOf(previous[n])} \cup carried[n]
      BY <1>0, <2>1, <2>3 DEF Traced, Listing
    <3>2. ListedAt(n)' \subseteq carried'[n]
      BY <1>0, <1>1, <2>1, <2>3, <3>1 DEF ListedAt, Unlisted, TypeOK
    <3> QED BY <1>0, <2>1, <2>3, <3>2 DEF Traced, Listing, Standing, Heading
  <2> QED BY <2>2, <2>3
<1>3. CASE Land(m)
  <2>1. pc[m] = "land" /\ pc'[m] = "list" /\ grid' = grid
    BY <1>0, <1>3 DEF Land, Goto, TypeOK
  <2>2. ListedAt(n)' = ListedAt(n)
    BY <2>1 DEF ListedAt
  <2>3. CASE n # m
    <3>1. pc'[n] = pc[n] /\ position'[n] = position[n]
      BY <1>0, <1>3, <2>3 DEF Land, Goto, TypeOK
    <3> QED BY <1>0, <1>1, <2>2, <3>1, Untouched
  <2>4. CASE n = m
    <3>1. ListedAt(m) \subseteq carried[m] /\ position[m] \in Places /\ Aims # {}
      BY <1>0, <2>1 DEF Traced, Listing, Standing
    <3>3. PICK p \in Corrected(position[m]) : position' = [position EXCEPT ![m] = p]
      BY <1>3 DEF Land
    <3>4. position'[m] = p /\ Clear(Rounded(p))
      BY <1>0, <3>1, <3>3, CorrectedClear, RoundedClear DEF TypeOK
    <3> QED BY <1>1, <2>1, <2>2, <2>4, <3>1, <3>4 DEF Traced, Listing, Standing, Heading
  <2> QED BY <2>3, <2>4
<1>4. CASE List(m)
  <2>1. /\ pc[m] = "list" /\ pc'[m] = "idle" /\ position' = position
        /\ grid' = Listed(m, CellOf(position[m]))
    BY <1>0, <1>4 DEF List, Goto, TypeOK
  <2>2. CASE n # m
    <3>1. pc'[n] = pc[n]
      BY <1>0, <1>4, <2>2 DEF List, Goto, TypeOK
    <3>2. ListedAt(n)' = ListedAt(n)
      BY <1>0, <2>1, <2>2 DEF ListedAt, Listed, TypeOK
    <3> QED BY <1>0, <1>1, <2>1, <3>1, <3>2, Untouched
  <2>3. CASE n = m
    <3> DEFINE x == position[m]
    <3>1. x \in Int /\ ListedAt(m) \subseteq carried[m] /\ Clear(Rounded(x))
      BY <1>0, <2>1 DEF Traced, Listing, Standing, TypeOK
    <3>2. CellOf(x) \in Cells
      <4>1. x - Rounded(x) \in -(Grain \div 2) .. Grain \div 2
        BY <3>1, RoundFact, GrainFact
      <4> HIDE DEF x
      <4>2. CellOf(x) \in 1 .. Width - 1
        BY <3>1, <4>1, NearClearInside
      <4> QED BY <4>2, CorridorAssumption DEF Cells
    <3>3. CellOf(x) \in ListedAt(n)' /\ ListedAt(n)' \subseteq {CellOf(x)} \cup carried[n]
      BY <1>0, <2>1, <2>3, <3>1, <3>2 DEF ListedAt, Listed, TypeOK
    <3> QED BY <1>1, <2>1, <2>3, <3>1, <3>3 DEF Traced, Listing, Standing, Heading
  <2> QED BY <2>2, <2>3
<1> QED BY <1>2, <1>3, <1>4 DEF TeleportStep

\* Items lock a cell for themselves and touch nothing of the players.
LEMMA ItemTraced ==
  ASSUME LockInv, GridInv, NEW n \in Players, NEW i \in Items, NEW c \in Cells,
         ItemEnter(i, c) \/ ItemLeave(i, c)
  PROVE  Traced(n)'
<1>0. Traced(n) /\ TypeOK
  BY DEF GridInv, Traced, LockInv
<1>1. UNCHANGED <<position, previous, move, reach, todo, grid, pc, carried>>
  BY DEF ItemEnter, ItemLeave
<1>2. ListedAt(n)' = ListedAt(n)
  BY <1>1 DEF ListedAt
<1>3. n # i /\ n # Free
  BY GridThreadsAssumption
<1>4. Held(n)' = Held(n)
  BY <1>0, <1>3 DEF ItemEnter, ItemLeave, Held, TypeOK
<1> QED BY <1>0, <1>1, <1>2, <1>4, Untouched

\* Every step keeps all of it.
LEMMA TracesPreserved ==
  ASSUME LockInv, GridInv, [Next]_vars
  PROVE  GridInv'
<1> SUFFICES ASSUME NEW n \in Players PROVE Traced(n)'
  BY DEF GridInv, Traced
<1>1. ASSUME NEW m \in Players, NEW d \in Steps, Move(m, d) \/ Move(m, -d)
      PROVE  Traced(n)'
  <2>1. /\ d \in -Unit .. Unit /\ d # 0 /\ -d \in -Unit .. Unit /\ -d # 0
    BY CorridorAssumption
  <2> QED BY <1>1, <2>1, MoveTraced
<1>2. CASE UNCHANGED vars
  <2>1. UNCHANGED <<position, previous, move, reach, todo, grid, lock, pc, carried>>
    BY <1>2 DEF vars
  <2>2. ListedAt(n)' = ListedAt(n) /\ Held(n)' = Held(n)
    BY <2>1 DEF ListedAt, Held
  <2>3. Traced(n)
    BY DEF GridInv, Traced
  <2> QED BY <2>1, <2>2, <2>3, Untouched
<1> QED BY <1>1, <1>2, TeleportTraced, CheckBlockTraced, UnlockTraced, PlaceTraced,
           TeleportStepTraced, ItemTraced DEF Next, MoveStep

\* Moves, jumps and items, however they interleave, leave every player clear
\* of the walls and listed where its operation has begun or has ended.
THEOREM GridInvariant == Spec => [](LockInv /\ GridInv)
<1>1. Init => GridInv
  <2> SUFFICES ASSUME Init, NEW m \in Players PROVE Traced(m)
    BY DEF GridInv, Traced
  <2>1. Clear(Start[m]) /\ position[m] = Start[m] /\ pc[m] = "idle"
    BY ClosedCorridor DEF Init
  <2>2. Clear(Rounded(Start[m]))
    BY <2>1, RoundedClear
  <2>3. CellOf(Start[m]) \in Cells
    BY <2>1, ClearInside, CorridorAssumption DEF Cells
  <2>4. ListedAt(m) = {CellOf(Start[m])}
    BY <2>3 DEF Init, ListedAt
  <2> QED BY <2>1, <2>2, <2>4 DEF Traced, Listing, Standing, Heading
<1>2. GridInv /\ LockInv /\ [Next]_vars => GridInv'
  BY TracesPreserved
<1> QED BY <1>1, <1>2, LockInvariant, PTL DEF Spec

\* The cells an object leaves and enters are its own when it is put there.
THEOREM PlacesUnderLock == Spec => []PlacedUnderLock
<1>1. LockInv /\ GridInv => PlacedUnderLock
  <2> SUFFICES ASSUME LockInv, GridInv, NEW m \in Players, pc[m] = "place"
               PROVE  /\ lock[CellOf(previous[m])] = m
                      /\ \A e \in Errors : lock[CellOf(Reached(m) + e)] = m
    BY DEF PlacedUnderLock
  <2> DEFINE p == previous[m]
             d == move[m]
  <2>1. /\ Clear(p) /\ Clear(Reached(m)) /\ Reached(m) \in Int /\ p \in Int
        /\ Held(m) = Area(p, d) /\ d \in -Unit .. Unit /\ d # 0
        /\ Sign(d) * (Reached(m) - p) \in 0 .. Sign(d) * d + Grain
    BY PlaceClear, ClearInside
  <2> HIDE DEF p, d
  <2>2. d \in Int /\ 0 <= Sign(d) * d /\ Sign(d) * d \in Int
    BY <2>1, UnitFact DEF Sign
  <2>3. CellOf(p) \in Area(p, d)
    <3>1. CellOf(p) \in 1 .. Width - 1 /\ Sign(d) * (p - p) = 0
      BY <2>1, ClearInside DEF Sign
    <3> QED BY <2>1, <2>2, <3>1, AreaHasEnds, UnitFact
  <2>4. ASSUME NEW e \in Errors PROVE CellOf(Reached(m) + e) \in Area(p, d)
    <3> DEFINE x == Reached(m) + e
    <3>1. e \in -(Grain \div 2) .. Grain \div 2 /\ x \in Int /\ x - Reached(m) = e
      BY <2>1, CorridorAssumption, GrainFact
    <3>2. CellOf(x) \in 1 .. Width - 1
      <4> HIDE DEF x
      <4> QED BY <2>1, <3>1, NearClearInside
    <3>3. - Unit < Sign(d) * (x - p) /\ Sign(d) * (x - p) < Sign(d) * d + Unit
      BY <2>1, <2>2, <3>1, GrainFact, HalfFact, UnitFact DEF Sign
    <3> HIDE DEF x
    <3>4. CellOf(x) \in Area(p, d)
      BY <2>1, <3>1, <3>2, <3>3, AreaHasEnds
    <3> QED BY <3>4 DEF x
  <2> QED BY <2>1, <2>3, <2>4 DEF Held, p
<1> QED BY <1>1, GridInvariant, PTL

\* Between operations an object is listed in its own cell, and in no other but
\* those that rounding carried it out of.
THEOREM ListedInItsCell == Spec => []ListedWhereItStands
<1>1. GridInv => ListedWhereItStands
  BY DEF GridInv, Listing, ListedAt, ListedWhereItStands
<1> QED BY <1>1, GridInvariant, PTL

\* Between operations no object is in a wall, by more than is rounded away.
THEOREM NobodyEndsInAWall == Spec => []NobodyInAWall
<1>1. GridInv => NobodyInAWall
  BY DEF GridInv, Standing, Clear, NobodyInAWall
<1> QED BY <1>1, GridInvariant, PTL
=============================================================================
