------------------------- MODULE MovingThreadProofs -------------------------
(***************************************************************************)
(* Proofs about MovingThread: no start of an object is lost, and velocity  *)
(* and canMove agree, for any number of setters and of moving threads.     *)
(***************************************************************************)
EXTENDS MovingThread, TLAPS

USE MovingAssumption

\* What a step of a setter does to the variables of the lock and the others.
LEMMA SetterPreserves ==
  ASSUME MovingInv, NEW s \in Setters,
         SetterStep(s) \/ \E speed \in Speeds : Set(s, speed)
  PROVE  MovingInv'
<1> USE DEF MovingInv, TypeOK, Goto, Threads, Labels
<1>1. ASSUME NEW speed \in Speeds, Set(s, speed)
      PROVE  MovingInv'
  BY <1>1 DEF Set, VelocityAgrees, NoLostWakeup, LockHeld, LockedBySomebody, BeginAwake, Inside
<1>2. ASSUME NEW th \in Movers, Create(s, th)
      PROVE  MovingInv'
  BY <1>2 DEF Create, VelocityAgrees, NoLostWakeup, LockHeld, LockedBySomebody, BeginAwake, Inside
<1>3. CASE Start(s)
  <2>1. TypeOK' /\ BeginAwake'
    BY <1>3 DEF Start, BeginAwake
  <2>2. NoLostWakeup'
    BY <1>3 DEF Start, NoLostWakeup, BeginAwake
  <2>3. VelocityAgrees' /\ LockHeld' /\ LockedBySomebody'
    BY <1>3 DEF Start, VelocityAgrees, LockHeld, LockedBySomebody, Inside
  <2> QED BY <2>1, <2>2, <2>3
<1>4. CASE Enter(s)
  <2>1. \A r \in Setters : ~ Inside(r)
    BY <1>4 DEF Enter, LockHeld
  <2>2. TypeOK' /\ BeginAwake' /\ NoLostWakeup'
    BY <1>4 DEF Enter, BeginAwake, NoLostWakeup
  <2>3. VelocityAgrees' /\ LockHeld' /\ LockedBySomebody'
    BY <1>4, <2>1 DEF Enter, VelocityAgrees, LockHeld, LockedBySomebody, Inside
  <2> QED BY <2>2, <2>3
<1>5. CASE Stop(s)
  <2>1. \A r \in Setters : Inside(r) => r = s
    BY <1>5 DEF Stop, LockHeld, Inside
  <2>2. TypeOK' /\ BeginAwake' /\ NoLostWakeup'
    BY <1>5 DEF Stop, BeginAwake, NoLostWakeup
  <2>3. velocity' = 0 /\ canMove' = FALSE
    BY <1>5 DEF Stop, LockHeld, Inside
  <2>4. VelocityAgrees'
    BY <2>3 DEF VelocityAgrees
  <2>5. LockHeld' /\ LockedBySomebody'
    BY <1>5, <2>1 DEF Stop, LockHeld, LockedBySomebody, Inside
  <2> QED BY <2>2, <2>4, <2>5
<1>6. CASE Go(s)
  <2>1. \A r \in Setters : Inside(r) => r = s
    BY <1>6 DEF Go, LockHeld, Inside
  <2> QED
    BY <1>6, <2>1 DEF Go, BeginAwake, NoLostWakeup, VelocityAgrees, LockHeld, LockedBySomebody, Inside
<1>7. CASE Release(s)
  <2>1. \A r \in Setters : Inside(r) => r = s
    BY <1>7 DEF Release, LockHeld, Inside
  <2> QED
    BY <1>7, <2>1 DEF Release, BeginAwake, NoLostWakeup, VelocityAgrees, LockHeld, LockedBySomebody, Inside
<1> HIDE DEF MovingInv, TypeOK, Goto, Threads, Labels
<1> QED BY <1>1, <1>2, <1>3, <1>4, <1>5, <1>6, <1>7 DEF SetterStep

\* A moving thread goes to sleep only while the object is not to move.
LEMMA MoverPreserves ==
  ASSUME MovingInv, NEW th \in Movers, MoverStep(th)
  PROVE  MovingInv'
<1> USE DEF MovingInv, TypeOK, Goto, Threads, Labels
<1>1. th \in started
  BY DEF MoverStep, Test, Wait, Loop, Move, BeginAwake
<1>2. TypeOK' /\ BeginAwake'
  BY <1>1 DEF MoverStep, Test, Wait, Loop, Move, BeginAwake
<1>3. VelocityAgrees' /\ LockHeld' /\ LockedBySomebody'
  BY DEF MoverStep, Test, Wait, Loop, Move, VelocityAgrees, LockHeld, LockedBySomebody, Inside
<1>4. NoLostWakeup'
  <2>1. CASE Test(th)
    BY <1>1, <2>1 DEF Test, NoLostWakeup
  <2>2. CASE Wait(th)
    BY <1>1, <2>2 DEF Wait, NoLostWakeup
  <2>3. CASE Loop(th)
    BY <1>1, <2>3 DEF Loop, NoLostWakeup
  <2>4. CASE Move(th)
    BY <1>1, <2>4 DEF Move, NoLostWakeup
  <2> QED BY <2>1, <2>2, <2>3, <2>4 DEF MoverStep
<1> QED BY <1>2, <1>3, <1>4

\* The inductive invariant of setters and moving threads.
THEOREM MovingInvariant == Spec => []MovingInv
<1>1. Init => MovingInv
  <2> SUFFICES ASSUME Init PROVE MovingInv
    OBVIOUS
  <2>1. TypeOK
    BY DEF Init, TypeOK, Threads, Labels
  <2>2. VelocityAgrees /\ NoLostWakeup
    BY DEF Init, VelocityAgrees, NoLostWakeup
  <2>3. LockHeld /\ LockedBySomebody /\ BeginAwake
    BY DEF Init, LockHeld, LockedBySomebody, BeginAwake, Inside, Threads
  <2> QED BY <2>1, <2>2, <2>3 DEF MovingInv
<1>2. MovingInv /\ [Next]_vars => MovingInv'
  <2> SUFFICES ASSUME MovingInv, [Next]_vars PROVE MovingInv'
    OBVIOUS
  <2>1. CASE Next
    BY <2>1, SetterPreserves, MoverPreserves DEF Next
  <2>2. CASE UNCHANGED vars
    BY <2>2 DEF vars, MovingInv, TypeOK, VelocityAgrees, NoLostWakeup, LockHeld,
         LockedBySomebody, BeginAwake, Inside
  <2> QED BY <2>1, <2>2
<1> QED BY <1>1, <1>2, PTL DEF Spec

\* The moving threads never all sleep while the object is to move.
THEOREM NoStartIsLost == Spec => []NoLostWakeup
<1>1. MovingInv => NoLostWakeup
  BY DEF MovingInv
<1> QED BY <1>1, MovingInvariant, PTL

\* An object is to move exactly when it has a velocity, whoever sets it.
THEOREM VelocityAlwaysAgrees == Spec => []VelocityAgrees
<1>1. MovingInv => VelocityAgrees
  BY DEF MovingInv
<1> QED BY <1>1, MovingInvariant, PTL
=============================================================================
