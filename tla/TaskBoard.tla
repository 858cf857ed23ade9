------------------------------ MODULE TaskBoard ------------------------------
(***************************************************************************)
(* The two copies of the task board in logic/Logic.Server/TaskSystem.cs:   *)
(* TaskQueue, which hand-ins are checked against, and the list             *)
(* MessageToClient.Tasks, which clients are shown.  AddTask and RemoveTask *)
(* run without a lock, on the threads that produce tasks, expire them and  *)
(* hand in; each of their accesses to shared data is a step of its own.    *)
(* TaskQueue is a ConcurrentDictionary, whose calls are atomic one by one; *)
(* TaskQueue[task]++ and -- are two calls.  The list is not made for       *)
(* threads at all: of two changes that meet either may be lost.            *)
(***************************************************************************)
EXTENDS Integers

CONSTANTS
  DishTypes,  \* the types of dishes tasks ask for
  UIntMax     \* largest uint (2^32 - 1 in the code)

ASSUME BoardAssumption == DishTypes # {} /\ UIntMax \in Nat \ {0}

VARIABLES
  pc,         \* where each thread is; "idle": in none of the methods
  task,       \* per thread: the type of its task
  read,       \* per thread: the count it has read and not yet written back
  taskQueue,  \* TaskQueue: count per type; Absent: the key is missing
  published   \* MessageToClient.Tasks: how often each type is in it

boardVars == <<pc, task, read, taskQueue, published>>

Absent == -1
Counts == Absent .. UIntMax
Count(t) == IF taskQueue[t] = Absent THEN 0 ELSE taskQueue[t]
Asked(t) == taskQueue[t] # Absent

Minus1(n) == IF n = 0 THEN UIntMax ELSE n - 1
Plus1(n) == IF n = UIntMax THEN 0 ELSE n + 1

BoardInit(threads) ==
  /\ pc = [th \in threads |-> "idle"]
  /\ task = [th \in threads |-> CHOOSE t \in DishTypes : TRUE]
  /\ read = [th \in threads |-> 0]
  /\ taskQueue = [t \in DishTypes |-> Absent]
  /\ published = [t \in DishTypes |-> 0]

Goto(th, from, to) ==
  /\ pc[th] = from
  /\ pc' = [pc EXCEPT ![th] = to]

\* Two threads are at the list.
Meets(th) == \E o \in DOMAIN pc \ {th} : pc[o] \in {"publish", "unpublish"}

-----------------------------------------------------------------------------
\* AddTask: ContainsKey, TryAdd(task, 0), the two calls of TaskQueue[task]++,
\* MessageToClient.Tasks.Add.
BeginAdd(th, t) ==
  /\ Goto(th, "idle", IF Asked(t) THEN "read" ELSE "tryadd")
  /\ task' = [task EXCEPT ![th] = t]
  /\ UNCHANGED <<read, taskQueue, published>>

TryAdd(th) ==
  /\ Goto(th, "tryadd", "read")
  /\ taskQueue' = [taskQueue EXCEPT ![task[th]] = IF @ = Absent THEN 0 ELSE @]
  /\ UNCHANGED <<task, read, published>>

Read(th) ==
  /\ Asked(task[th])
  /\ Goto(th, "read", "write")
  /\ read' = [read EXCEPT ![th] = taskQueue[task[th]]]
  /\ UNCHANGED <<task, taskQueue, published>>

Write(th) ==
  /\ Goto(th, "write", "publish")
  /\ taskQueue' = [taskQueue EXCEPT ![task[th]] = Plus1(read[th])]
  /\ read' = [read EXCEPT ![th] = 0]
  /\ UNCHANGED <<task, published>>

Publish(th) ==
  /\ Goto(th, "publish", "added")
  /\ \/ published' = [published EXCEPT ![task[th]] = @ + 1]
     \/ Meets(th) /\ UNCHANGED published
  /\ UNCHANGED <<task, read, taskQueue>>

AddTask(th) == TryAdd(th) \/ Read(th) \/ Write(th) \/ Publish(th)

\* The indexer throws KeyNotFoundException when the key is missing.
AddTaskThrows(th) ==
  /\ ~ Asked(task[th])
  /\ Goto(th, "read", "idle")
  /\ UNCHANGED <<task, read, taskQueue, published>>

-----------------------------------------------------------------------------
\* RemoveTask: the two calls of TaskQueue[task]--; the count, which is unsigned,
\* is read again and the key taken away at 0; MessageToClient.Tasks.Remove.
Load(th) ==
  /\ Asked(task[th])
  /\ Goto(th, "load", "store")
  /\ read' = [read EXCEPT ![th] = taskQueue[task[th]]]
  /\ UNCHANGED <<task, taskQueue, published>>

Store(th) ==
  /\ Goto(th, "store", "test")
  /\ taskQueue' = [taskQueue EXCEPT ![task[th]] = Minus1(read[th])]
  /\ read' = [read EXCEPT ![th] = 0]
  /\ UNCHANGED <<task, published>>

Test(th) ==
  /\ Asked(task[th])
  /\ Goto(th, "test", IF taskQueue[task[th]] = 0 THEN "remove" ELSE "unpublish")
  /\ UNCHANGED <<task, read, taskQueue, published>>

TryRemove(th) ==
  /\ Goto(th, "remove", "unpublish")
  /\ taskQueue' = [taskQueue EXCEPT ![task[th]] = Absent]
  /\ UNCHANGED <<task, read, published>>

Unpublish(th) ==
  /\ Goto(th, "unpublish", "removed")
  /\ \/ published' = [published EXCEPT ![task[th]] = IF @ = 0 THEN 0 ELSE @ - 1]
     \/ Meets(th) /\ UNCHANGED published
  /\ UNCHANGED <<task, read, taskQueue>>

RemoveTask(th) == Load(th) \/ Store(th) \/ Test(th) \/ TryRemove(th) \/ Unpublish(th)

RemoveTaskThrows(th) ==
  /\ ~ Asked(task[th])
  /\ Goto(th, "load", "idle") \/ Goto(th, "test", "idle")
  /\ UNCHANGED <<task, read, taskQueue, published>>

\* HandIn looks whether a task asks for the dish.
LookUp(th, otherwise) ==
  /\ Goto(th, "look", IF Asked(task[th]) THEN "load" ELSE otherwise)
  /\ UNCHANGED <<task, read, taskQueue, published>>

-----------------------------------------------------------------------------
BoardLabels == {"idle", "look", "tryadd", "read", "write", "publish", "added",
                "load", "store", "test", "remove", "unpublish", "removed"}

BoardTypeOK(threads, labels) ==
  /\ pc \in [threads -> labels]
  /\ task \in [threads -> DishTypes]
  /\ read \in [threads -> 0 .. UIntMax]
  /\ taskQueue \in [DishTypes -> Counts]
  /\ published \in [DishTypes -> Nat]
=============================================================================
