---------------------------- MODULE MovingThread ----------------------------
(***************************************************************************)
(* logic/THUnity2D/GameObject.cs, the property Velocity: an object with a  *)
(* velocity is moved, frame by frame, by a thread of its own, which sleeps *)
(* on a semaphore while the object stands still.  Velocity is set by the   *)
(* threads that handle messages, by timers (a move or a stun ends) and by  *)
(* operation threads (collision, glue, triggers).                          *)
(*                                                                         *)
(* The setter writes under _velocityLock; the moving thread reads without. *)
(* The test for a missing thread, too, is made without the lock: two first *)
(* setters may create two threads, and the second Start of one of them is  *)
(* an exception that ends the process.                                     *)
(***************************************************************************)
EXTENDS Integers, FiniteSets

CONSTANTS
  Setters,   \* the threads that set Velocity
  Movers,    \* the threads that may be created as the moving thread
  None,      \* no thread
  Speeds,    \* lengths of the velocities set; 0: less than MinSpeed
  MaxSets    \* bound: how often a thread sets Velocity

ASSUME MovingAssumption ==
  /\ Setters \cap Movers = {} /\ None \notin Setters \cup Movers
  /\ Speeds \subseteq Nat /\ MaxSets \in Nat

VARIABLES
  movingThread,  \* _movingThread
  created,       \* the threads that have been created ...
  started,       \* ... and started
  velocity,      \* the length of _velocity
  canMove,
  permits,       \* canMoveSema
  lock,          \* who holds _velocityLock
  pc,            \* where each thread is
  value,         \* per setter: the length it sets
  sets,          \* per setter: calls so far
  crashed        \* ThreadStateException: the process has ended

vars == <<movingThread, created, started, velocity, canMove, permits, lock, pc,
          value, sets, crashed>>

Threads == Setters \cup Movers

Init ==
  /\ movingThread = None
  /\ created = {} /\ started = {}
  /\ velocity = 0 /\ canMove = FALSE /\ permits = 0
  /\ lock = None
  /\ pc = [th \in Threads |-> IF th \in Setters THEN "idle" ELSE "test"]
  /\ value = [s \in Setters |-> 0]
  /\ sets = [s \in Setters |-> 0]
  /\ crashed = FALSE

Goto(th, from, to) ==
  /\ ~ crashed
  /\ pc[th] = from
  /\ pc' = [pc EXCEPT ![th] = to]

-----------------------------------------------------------------------------
\* The setter.  Is there a moving thread?
Set(s, speed) ==
  /\ sets[s] < MaxSets
  /\ Goto(s, "idle", IF movingThread = None THEN "create" ELSE "enter")
  /\ value' = [value EXCEPT ![s] = speed]
  /\ sets' = [sets EXCEPT ![s] = @ + 1]
  /\ UNCHANGED <<movingThread, created, started, velocity, canMove, permits, lock, crashed>>

Create(s, th) ==
  /\ th \notin created
  /\ Goto(s, "create", "start")
  /\ created' = created \cup {th}
  /\ movingThread' = th
  /\ UNCHANGED <<started, velocity, canMove, permits, lock, value, sets, crashed>>

\* _movingThread.Start(), of whatever thread the field holds by now.
Start(s) ==
  /\ Goto(s, "start", "enter")
  /\ started' = started \cup {movingThread}
  /\ crashed' = (movingThread \in started)
  /\ UNCHANGED <<movingThread, created, velocity, canMove, permits, lock, value, sets>>

\* Mutant of Enter: the lock is not looked at.
EnterUnlocked(s) ==
  /\ Goto(s, "enter", IF value[s] = 0 THEN "stop" ELSE "go")
  /\ lock' = s
  /\ velocity' = value[s]
  /\ UNCHANGED <<movingThread, created, started, canMove, permits, value, sets, crashed>>

\* lock (_velocityLock), and the velocity is written.
Enter(s) ==
  /\ lock = None
  /\ Goto(s, "enter", IF value[s] = 0 THEN "stop" ELSE "go")
  /\ lock' = s
  /\ velocity' = value[s]
  /\ UNCHANGED <<movingThread, created, started, canMove, permits, value, sets, crashed>>

Stop(s) ==
  /\ Goto(s, "stop", "idle")
  /\ canMove' = FALSE
  /\ lock' = None
  /\ UNCHANGED <<movingThread, created, started, velocity, permits, value, sets, crashed>>

Go(s) ==
  /\ Goto(s, "go", "release")
  /\ canMove' = TRUE
  /\ UNCHANGED <<movingThread, created, started, velocity, permits, lock, value, sets, crashed>>

\* Mutant of Release: the semaphore has no maximum.
ReleaseMore(s) ==
  /\ Goto(s, "release", "idle")
  /\ permits' = permits + 1
  /\ lock' = None
  /\ UNCHANGED <<movingThread, created, started, velocity, canMove, value, sets, crashed>>

\* Mutant of Release: the semaphore is not released.
ReleaseNothing(s) ==
  /\ Goto(s, "release", "idle")
  /\ lock' = None
  /\ UNCHANGED <<movingThread, created, started, velocity, canMove, permits, value, sets, crashed>>

\* Release; SemaphoreFullException is caught.
Release(s) ==
  /\ Goto(s, "release", "idle")
  /\ permits' = 1
  /\ lock' = None
  /\ UNCHANGED <<movingThread, created, started, velocity, canMove, value, sets, crashed>>

-----------------------------------------------------------------------------
\* The moving thread.  while (! canMove) canMoveSema.WaitOne();
Test(th) ==
  /\ th \in started
  /\ Goto(th, "test", IF canMove THEN "loop" ELSE "wait")
  /\ UNCHANGED <<movingThread, created, started, velocity, canMove, permits, lock,
                 value, sets, crashed>>

Wait(th) ==
  /\ permits > 0
  /\ Goto(th, "wait", "test")
  /\ permits' = permits - 1
  /\ UNCHANGED <<movingThread, created, started, velocity, canMove, lock, value, sets, crashed>>

\* while (canMove) { Move(...); Sleep(...) }
Loop(th) ==
  /\ Goto(th, "loop", IF canMove THEN "move" ELSE "test")
  /\ UNCHANGED <<movingThread, created, started, velocity, canMove, permits, lock,
                 value, sets, crashed>>

Move(th) ==
  /\ Goto(th, "move", "loop")
  /\ UNCHANGED <<movingThread, created, started, velocity, canMove, permits, lock,
                 value, sets, crashed>>

SetterStep(s) ==
  \/ \E th \in Movers : Create(s, th)
  \/ Start(s) \/ Enter(s) \/ Stop(s) \/ Go(s) \/ Release(s)

MoverStep(th) == Test(th) \/ Wait(th) \/ Loop(th) \/ Move(th)

Next ==
  \/ \E s \in Setters : SetterStep(s) \/ \E speed \in Speeds : Set(s, speed)
  \/ \E th \in Movers : MoverStep(th)

\* Setters that have begun and moving threads go on.
Fairness ==
  /\ \A s \in Setters : WF_vars(SetterStep(s))
  /\ \A th \in Movers : WF_vars(MoverStep(th))

Spec == Init /\ [][Next]_vars
FairSpec == Spec /\ Fairness

-----------------------------------------------------------------------------
Labels == {"idle", "create", "start", "enter", "stop", "go", "release",
           "test", "wait", "loop", "move"}

TypeOK ==
  /\ movingThread \in Movers \cup {None}
  /\ created \subseteq Movers /\ started \subseteq Movers
  /\ velocity \in Nat /\ canMove \in BOOLEAN /\ permits \in {0, 1}
  /\ lock \in Setters \cup {None}
  /\ pc \in [Threads -> Labels]
  /\ value \in [Setters -> Nat] /\ sets \in [Setters -> Nat]
  /\ crashed \in BOOLEAN

\* When nobody is setting it, an object with a velocity is one that is moved:
\* no order of setters leaves it running on after a stop, or standing with a
\* velocity (GameObject.cs:203-225).
VelocityAgrees == lock = None => (canMove <=> velocity > 0)

\* No start is lost: while the object is to move, a moving thread is awake or
\* a permit waits for it, or the setter is about to give one, or no thread
\* runs yet; so never do all of them sleep with nobody to wake them
\* (GameObject.cs:177-183, 217-223).
NoLostWakeup ==
  canMove =>
    \/ permits > 0
    \/ \E s \in Setters : pc[s] = "release"
    \/ \E th \in started : pc[th] \in {"test", "loop", "move"}
    \/ started = {}

\* An object that is to move is moved, unless it is stopped before.
StartedMoves == canMove ~> crashed \/ ~ canMove \/ \E th \in Movers : pc[th] = "move"

\* The strengthening of VelocityAgrees: who is inside the lock holds it, and
\* how far it has got.
Inside(s) == pc[s] \in {"stop", "go", "release"}

LockHeld ==
  \A s \in Setters : Inside(s) =>
    /\ lock = s
    /\ velocity = value[s]
    /\ pc[s] = "stop" <=> value[s] = 0
    /\ pc[s] = "release" => canMove

LockedBySomebody == lock # None => Inside(lock)

\* That of NoLostWakeup: a thread that has not been started will begin awake.
BeginAwake ==
  /\ \A th \in Movers \ started : pc[th] = "test"
  /\ \A s \in Setters : pc[s] = "start" => movingThread # None

MovingInv ==
  /\ TypeOK /\ VelocityAgrees /\ NoLostWakeup
  /\ LockHeld /\ LockedBySomebody /\ BeginAwake
=============================================================================
