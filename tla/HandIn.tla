------------------------------- MODULE HandIn -------------------------------
(***************************************************************************)
(* Handing in a dish (Player.Use and the Condiment of Player.UseTool in    *)
(* logic/Logic.Server/Player.cs, TaskSystem.HandIn in TaskSystem.cs) with  *)
(* every access to shared data a step of its own.                          *)
(*                                                                         *)
(* The messages of one team are handled one after the other, so a team is  *)
(* a thread.  Beside the teams there are the thread that produces tasks,   *)
(* the thread on which tasks expire, and the moving threads of players,    *)
(* which take a loss from the score of their team when they step on a mine *)
(* or are hit by an arrow.  Score is guarded by a lock per team; the board *)
(* (TaskBoard.tla) is guarded by nothing.                                  *)
(***************************************************************************)
EXTENDS TaskBoard, FiniteSets

CONSTANTS
  Teams,       \* the teams, each also the thread that handles its messages
  Movers,      \* moving threads of players
  TeamOf,      \* the team of a mover's player
  Producer,    \* the thread of TaskSystem.TaskProduce
  Expiry,      \* the thread on which RemoveTask is run for expired tasks
  Free,        \* no thread: the owner of a free lock
  Worth,       \* what the dish scores
  Spiced,      \* ... and what it scores with a Condiment
  Loss,        \* what a trigger takes: - hitScore
  MaxPosts,    \* bound: tasks posted
  MaxDishes,   \* bound: dishes a team brings
  MaxHits      \* bound: hits each mover takes

ASSUME ThreadsAssumption ==
  /\ TeamOf \in [Movers -> Teams]
  /\ Teams \cap Movers = {}
  /\ {Producer, Expiry, Free} \cap (Teams \cup Movers) = {}
  /\ Producer # Expiry
ASSUME ScoresAssumption == Worth \in Nat \ {0} /\ Spiced \in Nat \ {0} /\ Loss \in Nat
ASSUME BoundsAssumption == MaxPosts \in Nat /\ MaxDishes \in Nat /\ MaxHits \in Nat

VARIABLES
  lock,      \* per team: the thread inside lock (ScoreLocks[team])
  score,     \* MessageToClient.Scores
  base,      \* per thread: the score `Score += ...' has read
  gain,      \* per thread: what it will add
  condiment, \* per team: the dish is handed in with a Condiment
  hands,     \* per team: the player holds the dish
  crashed,   \* an exception left a System.Threading.Timer callback
  posted, expiring, brought, hits,  \* tasks produced, expiries due, dishes, hits
  earned     \* history: the sum of everything a team gained

counters == <<posted, expiring, brought, hits>>
scoreVars == <<lock, score, base, gain, condiment, hands, crashed, counters, earned>>
vars == <<boardVars, scoreVars>>

Threads == Teams \cup Movers \cup {Producer, Expiry}
Scorers == Teams \cup Movers
Team(th) == IF th \in Movers THEN TeamOf[th] ELSE th

Init ==
  /\ BoardInit(Threads)
  /\ lock = [t \in Teams |-> Free]
  /\ score = [t \in Teams |-> 0]
  /\ base = [th \in Scorers |-> 0]
  /\ gain = [th \in Scorers |-> 0]
  /\ condiment = [t \in Teams |-> FALSE]
  /\ hands = [t \in Teams |-> FALSE]
  /\ crashed = FALSE
  /\ posted = 0 /\ expiring = 0
  /\ brought = [t \in Teams |-> 0]
  /\ hits = [m \in Movers |-> 0]
  /\ earned = [t \in Teams |-> 0]

\* A thread passes from one point to the next and leaves the board alone.
Pass(th, from, to) == Goto(th, from, to) /\ UNCHANGED <<task, read, taskQueue, published>>

-----------------------------------------------------------------------------
\* A player of the team holds a dish and sends Use: plainly, inside the lock
\* from the start, or with a Condiment, which locks only to add a score.
Bring(t, dish, withCondiment) ==
  /\ brought[t] < MaxDishes
  /\ Goto(t, "idle", IF withCondiment THEN "look" ELSE "enter")
  /\ task' = [task EXCEPT ![t] = dish]
  /\ brought' = [brought EXCEPT ![t] = @ + 1]
  /\ condiment' = [condiment EXCEPT ![t] = withCondiment]
  /\ hands' = [hands EXCEPT ![t] = TRUE]
  /\ UNCHANGED <<read, taskQueue, published, lock, score, base, gain, crashed,
                 posted, expiring, hits, earned>>

Hit(m) ==
  /\ hits[m] < MaxHits
  /\ Pass(m, "idle", "enter")
  /\ hits' = [hits EXCEPT ![m] = @ + 1]
  /\ gain' = [gain EXCEPT ![m] = - Loss]
  /\ UNCHANGED <<lock, score, base, condiment, hands, crashed, posted, expiring,
                 brought, earned>>

AfterEnter(th) == IF th \in Teams /\ ~ condiment[th] THEN "look" ELSE "score"

\* Mutant of Enter: the lock is not looked at.
EnterUnlocked(th) ==
  /\ Pass(th, "enter", AfterEnter(th))
  /\ lock' = [lock EXCEPT ![Team(th)] = th]
  /\ base' = [base EXCEPT ![th] = score[Team(th)]]
  /\ UNCHANGED <<score, gain, condiment, hands, crashed, counters, earned>>

\* lock (ScoreLocks[team]), then the read of `Score += ...'.
Enter(th) ==
  /\ lock[Team(th)] = Free
  /\ Pass(th, "enter", AfterEnter(th))
  /\ lock' = [lock EXCEPT ![Team(th)] = th]
  /\ base' = [base EXCEPT ![th] = score[Team(th)]]
  /\ UNCHANGED <<score, gain, condiment, hands, crashed, counters, earned>>

\* HandIn: without a task for the dish it returns 0.
Look(t) ==
  /\ LookUp(t, IF condiment[t] THEN "idle" ELSE "score")
  /\ gain' = [gain EXCEPT ![t] = 0]
  /\ UNCHANGED <<lock, score, base, condiment, hands, crashed, counters, earned>>

\* The write of `Score += ...', the end of the lock, Dish = DishEmpty.
AddScore(th) ==
  /\ Pass(th, "score", "idle")
  /\ score' = [score EXCEPT ![Team(th)] = base[th] + gain[th]]
  /\ earned' = [earned EXCEPT ![Team(th)] = @ + gain[th]]
  /\ lock' = [lock EXCEPT ![Team(th)] = Free]
  /\ hands' = [t \in Teams |-> hands[t] /\ t # th]
  /\ UNCHANGED <<base, gain, condiment, crashed, counters>>

\* A task is taken off the board.
TakeOff(th) == RemoveTask(th) /\ UNCHANGED scoreVars

\* Mutant of Throw: the lock is not released.
ThrowLocked(th) ==
  /\ RemoveTaskThrows(th)
  /\ crashed' \in IF th = Expiry THEN {FALSE} ELSE BOOLEAN
  /\ UNCHANGED <<lock, score, base, gain, condiment, hands, counters, earned>>

\* System.Timers.Timer swallows the exception of an expiry.  A hand-in leaves
\* its lock; whether the exception then ends the process is up to the socket
\* library, whose callback handles messages.
Throw(th) ==
  /\ RemoveTaskThrows(th)
  /\ lock' = [t \in Teams |-> IF lock[t] = th THEN Free ELSE lock[t]]
  /\ crashed' \in IF th = Expiry THEN {FALSE} ELSE BOOLEAN
  /\ UNCHANGED <<score, base, gain, condiment, hands, counters, earned>>

Return(t) ==
  /\ Pass(t, "removed", IF condiment[t] THEN "enter" ELSE "score")
  /\ gain' = [gain EXCEPT ![t] = IF condiment[t] THEN Spiced ELSE Worth]
  /\ UNCHANGED <<lock, score, base, condiment, hands, crashed, counters, earned>>

-----------------------------------------------------------------------------
ExpiryStart(t) ==
  /\ expiring > 0
  /\ Goto(Expiry, "idle", "load")
  /\ task' = [task EXCEPT ![Expiry] = t]
  /\ expiring' = expiring - 1
  /\ UNCHANGED <<read, taskQueue, published, lock, score, base, gain, condiment,
                 hands, crashed, posted, brought, hits, earned>>

ExpiryEnd == Pass(Expiry, "removed", "idle") /\ UNCHANGED scoreVars

Post(t) ==
  /\ posted < MaxPosts
  /\ BeginAdd(Producer, t)
  /\ posted' = posted + 1
  /\ UNCHANGED <<lock, score, base, gain, condiment, hands, crashed, expiring,
                 brought, hits, earned>>

PutUp == AddTask(Producer) /\ UNCHANGED scoreVars

\* The callback of a System.Threading.Timer: nothing catches the exception.
Crash ==
  /\ AddTaskThrows(Producer)
  /\ crashed' = TRUE
  /\ UNCHANGED <<lock, score, base, gain, condiment, hands, counters, earned>>

\* RemoveTaskTimer.Add: one more task will expire.
Posted ==
  /\ Pass(Producer, "added", "idle")
  /\ expiring' = expiring + 1
  /\ UNCHANGED <<lock, score, base, gain, condiment, hands, crashed, posted,
                 brought, hits, earned>>

-----------------------------------------------------------------------------
Produce == PutUp \/ Crash \/ Posted

Expire == TakeOff(Expiry) \/ Throw(Expiry) \/ ExpiryEnd

TeamStep(t) == Enter(t) \/ Look(t) \/ TakeOff(t) \/ Throw(t) \/ Return(t) \/ AddScore(t)

MoverStep(m) == Enter(m) \/ AddScore(m)

Next ==
  /\ ~ crashed
  /\ \/ \E t \in Teams : \/ TeamStep(t)
                         \/ \E d \in DishTypes, c \in BOOLEAN : Bring(t, d, c)
     \/ \E m \in Movers : MoverStep(m) \/ Hit(m)
     \/ Produce \/ \E t \in DishTypes : Post(t)
     \/ Expire \/ \E t \in DishTypes : ExpiryStart(t)

\* A thread inside one of the methods goes on, as long as the process lives.
Fairness ==
  /\ \A t \in Teams : WF_vars(~ crashed /\ TeamStep(t))
  /\ \A m \in Movers : WF_vars(~ crashed /\ MoverStep(m))
  /\ WF_vars(~ crashed /\ Produce) /\ WF_vars(~ crashed /\ Expire)

Spec == Init /\ [][Next]_vars
FairSpec == Spec /\ Fairness

-----------------------------------------------------------------------------
TypeOK ==
  /\ BoardTypeOK(Threads, BoardLabels \cup {"enter", "score"})
  /\ lock \in [Teams -> Scorers \cup {Free}]
  /\ score \in [Teams -> Int] /\ earned \in [Teams -> Int]
  /\ base \in [Scorers -> Int] /\ gain \in [Scorers -> Int]
  /\ condiment \in [Teams -> BOOLEAN] /\ hands \in [Teams -> BOOLEAN]
  /\ crashed \in BOOLEAN
  /\ posted \in Nat /\ expiring \in Nat
  /\ brought \in [Teams -> Nat] /\ hits \in [Movers -> Nat]

\* No gain and no loss of a team is ever overwritten, although hand-ins, with
\* and without a Condiment, and hits on several players of the team update
\* one score (Player.cs:380-381, 434-436, 600-601, 639-640).
ScoresAdd == \A t \in Teams : score[t] = earned[t]

\* Its strengthening: who is inside the lock has read the current score.
Inside(th) ==
  \/ pc[th] = "score"
  \/ th \in Teams /\ ~ condiment[th]
       /\ pc[th] \in {"look", "load", "store", "test", "remove", "unpublish", "removed"}

LockInv ==
  /\ TypeOK
  /\ \A th \in Scorers : Inside(th) => lock[Team(th)] = th /\ base[th] = score[Team(th)]
  /\ \A m \in Movers : pc[m] \in {"idle", "enter", "score"}
  /\ ScoresAdd

\* Every hand-in and every hit is finished, unless the server has died: no
\* exception on the way keeps a score lock for ever.
HandInsEnd == \A th \in Scorers : pc[th] # "idle" ~> pc[th] = "idle" \/ crashed
=============================================================================
