----------------------------- MODULE TaskSystem -----------------------------
(***************************************************************************)
(* logic/Logic.Server/TaskSystem.cs and its timer: TaskProduce posts a     *)
(* task of a random type and hands its expiry, a closure over the TYPE of  *)
(* the task, to a MultiTaskTimer; HandIn takes a task of the dish's type   *)
(* off the board and leaves the timer alone.  The handlers of              *)
(* MultiTaskTimer are here the expiries, one per task ever posted.         *)
(*                                                                         *)
(* The threads are those of the pool, on which tasks expire, those that    *)
(* hand in, and the one that produces; what they do to the board is in     *)
(* TaskBoard.tla, access by access.                                        *)
(***************************************************************************)
EXTENDS MultiTaskTimer, TaskBoard, FiniteSets

CONSTANTS
  Teams,          \* the threads that hand in
  Producer,       \* the thread of TaskProduce
  SpicedPot,      \* the type of dish that is special:
  SpicedPotFrom,  \* no SpicedPot is asked for before this time (5 minutes)
  SpicedPots,     \* ... nor more often than this (SpicedPotNum)
  TaskTime,       \* Configs(type, "TaskTime")
  HandedIn        \* the types for which players hand in dishes

\* What the theorems ask of the constants.
TaskAssumption ==
  /\ TaskTime \in [DishTypes -> Delays]
  /\ Pool \cap Teams = {} /\ Producer \notin Pool \cup Teams
  /\ HandedIn \subseteq DishTypes /\ MayThrow = Handlers

VARIABLES
  spicedPotNum,  \* SpicedPotNum
  kind,          \* the type captured by each expiry closure
  open,          \* history: the tasks neither handed in nor expired
  raced          \* history: two threads were at the board at a time

taskVars == <<vars, boardVars, spicedPotNum, kind, open, raced>>

Workers == Pool \cup Teams \cup {Producer}

TaskInit ==
  /\ Init
  /\ BoardInit(Workers)
  /\ spicedPotNum = SpicedPots
  /\ kind = [i \in Handlers |-> CHOOSE t \in DishTypes : TRUE]
  /\ open = {} /\ raced = FALSE

-----------------------------------------------------------------------------
Race(th) == raced' = (raced \/ \E o \in Workers \ {th} : pc[o] # "idle")

\* The tasks of a type that were posted and are still within their limit.
WithinLimit(t) == {i \in added : kind[i] = t /\ key[i] > now}

MayProduce(t) == t = SpicedPot => now > SpicedPotFrom /\ spicedPotNum > 0

TaskProduce(t) ==
  /\ MayProduce(t)
  /\ BeginAdd(Producer, t)
  /\ spicedPotNum' = IF t = SpicedPot THEN spicedPotNum - 1 ELSE spicedPotNum
  /\ Race(Producer)
  /\ UNCHANGED <<vars, kind, open>>

PutUp == AddTask(Producer) /\ UNCHANGED <<vars, spicedPotNum, kind, open, raced>>

\* RemoveTaskTimer.Add, with a new closure.
AddExpiry(i) ==
  /\ Goto(Producer, "added", "idle")
  /\ Add(i, TaskTime[task[Producer]])
  /\ kind' = [kind EXCEPT ![i] = task[Producer]]
  /\ open' = open \cup {i}
  /\ UNCHANGED <<now, task, read, taskQueue, published, spicedPotNum, raced>>

-----------------------------------------------------------------------------
\* The expiry closure runs RemoveTask of the captured type.
ExpiryStart(p, i) ==
  /\ Calling(p, i)
  /\ Goto(p, "idle", "load")
  /\ task' = [task EXCEPT ![p] = kind[i]]
  /\ Race(p)
  /\ UNCHANGED <<vars, read, taskQueue, published, spicedPotNum, kind, open>>

ExpiryStep(p, i) ==
  /\ Calling(p, i)
  /\ RemoveTask(p)
  /\ open' = IF pc[p] = "store" THEN open \ {i} ELSE open
  /\ UNCHANGED <<vars, spicedPotNum, kind, raced>>

ExpiryEnd(p, i) ==
  /\ Goto(p, "removed", "idle")
  /\ RunHandler(p, i)
  /\ UNCHANGED <<now, task, read, taskQueue, published, spicedPotNum, kind, open, raced>>

ExpiryThrows(p, i) ==
  /\ RemoveTaskThrows(p)
  /\ HandlerThrows(p, i)
  /\ UNCHANGED <<now, spicedPotNum, kind, open, raced>>

Expire(p, i) == ExpiryStart(p, i) \/ ExpiryStep(p, i) \/ ExpiryEnd(p, i) \/ ExpiryThrows(p, i)

TimerStep(p) ==
  /\ Callback(p) \/ RunControl(p)
  /\ UNCHANGED <<now, boardVars, spicedPotNum, kind, open, raced>>

-----------------------------------------------------------------------------
\* HandIn of a dish of some type.  History: of several open tasks of the type,
\* the hand-in settles the one with the least time left.
Settled(t) ==
  LET asked == {i \in open : kind[i] = t}
  IN  IF asked = {} THEN {} ELSE {Earliest(key, asked)}

HandInStart(th, t) ==
  /\ Goto(th, "idle", "look")
  /\ task' = [task EXCEPT ![th] = t]
  /\ Race(th)
  /\ UNCHANGED <<vars, read, taskQueue, published, spicedPotNum, kind, open>>

HandInStep(th) ==
  /\ \/ LookUp(th, "idle")
     \/ RemoveTask(th)
     \/ RemoveTaskThrows(th)
     \/ Goto(th, "removed", "idle") /\ UNCHANGED <<task, read, taskQueue, published>>
  /\ open' = IF pc[th] = "store" THEN open \ Settled(task[th]) ELSE open
  /\ UNCHANGED <<vars, spicedPotNum, kind, raced>>

TaskNext ==
  \/ Tick /\ UNCHANGED <<boardVars, spicedPotNum, kind, open, raced>>
  \/ \E t \in DishTypes : TaskProduce(t)
  \/ PutUp
  \/ \E i \in Handlers : AddExpiry(i)
  \/ \E p \in Pool, i \in Handlers : Expire(p, i)
  \/ \E p \in Pool : TimerStep(p)
  \/ \E th \in Teams : HandInStep(th) \/ \E t \in HandedIn : HandInStart(th, t)

TaskSpec == TaskInit /\ [][TaskNext]_taskVars

-----------------------------------------------------------------------------
\* A task still within its limit stays on the board until somebody hands in
\* a dish for it, as long as no two threads are ever at the board at a time.
TasksKeepTheirLimit ==
  ~ raced => \A t \in DishTypes : Cardinality(WithinLimit(t) \cap open) <= Count(t)

\* When no thread is at the board and the timer has nothing to do, clients are
\* shown no more tasks than are within their limit.
TimerIdle == ~ (armed /\ due <= now) /\ \A p \in Pool : Idle(p)

NoOverdueTask ==
  TimerIdle /\ (\A th \in Workers : pc[th] = "idle") =>
    \A t \in DishTypes : published[t] <= Cardinality(WithinLimit(t))
=============================================================================
