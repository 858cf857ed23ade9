------------------------------ MODULE ClientMap ------------------------------
(***************************************************************************)
(* The C++ client's picture of the game: CAPI/src/structure.cpp (MapInfo)  *)
(* and CAPI.cpp (UpdateInfo, MoveObj, CreateObj).                          *)
(*                                                                         *)
(* The thread that receives applies a message object by object: it takes   *)
(* an object out of the cell it was in, writes its fields and puts it into *)
(* its new cell, each cell under its lock; then it deletes what the        *)
(* message does not have, without the locks.  Meanwhile the threads of the *)
(* player's program copy cells.  What stands on the map from the beginning *)
(* (id -1) never changes and is left out.                                  *)
(***************************************************************************)
EXTENDS Integers, FiniteSets

CONSTANTS
  Objects,      \* ids of the objects that come and go
  Xs, Ys,       \* the coordinates of the cells
  Readers,      \* the threads of the player's program
  Messages,     \* the messages the server sends
  Receiver,     \* the thread that receives
  Nobody,       \* a lock is free
  Absent,       \* no such object
  SightRange

Cells == Xs \X Ys

ASSUME MapAssumption ==
  /\ Receiver \notin Readers /\ Nobody \notin Readers \cup {Receiver}
  /\ Absent \notin Cells /\ Absent \notin Objects
  /\ Xs \subseteq Int /\ Ys \subseteq Int /\ 0 \in Xs \cap Ys /\ SightRange \in Nat
  \* A message: where the objects are.
  /\ Messages \subseteq [Objects -> Cells \cup {Absent}]

VARIABLES
  objList,      \* MapInfo::obj_list: the position of each object it has
  objMap,       \* MapInfo::obj_map: which objects each cell has
  mutexMap,     \* MapInfo::mutex_map: who holds the lock of each cell
  selfId,       \* PlayerInfo._id
  position,     \* PlayerInfo._position
  message,      \* the message that is being applied, or was the last
  rpc,          \* where the receiver is
  current,      \* the object it is at
  todo,         \* the objects of the message it has not come to
  objectsToDelete,
  reader        \* per reader: its pc, the cell it reads, the objects left to
                \* copy and those copied

mapVars == <<objList, objMap, mutexMap, selfId, position, message, rpc, current, todo,
             objectsToDelete, reader>>

Known(o) == objList[o] # Absent

\* Outside get_mapcell: the list is the program's.
Out == [pc |-> "out", cell |-> <<0, 0>>, left |-> {}, copied |-> {}]

MapInit ==
  /\ objList = [o \in Objects |-> Absent]
  /\ objMap = [c \in Cells |-> {}]
  /\ mutexMap = [c \in Cells |-> Nobody]
  /\ selfId = Absent /\ position = <<0, 0>>
  /\ message = objList
  /\ rpc = "idle" /\ current = Absent
  /\ todo = {} /\ objectsToDelete = {}
  /\ reader = [r \in Readers |-> Out]

Goto(from, to) == rpc = from /\ rpc' = to

-----------------------------------------------------------------------------
(* The receiver: UpdateInfo. *)

\* Mutant of SelfX: the id is taken from every message.
SelfAnew(m) ==
  /\ Goto("idle", "selfy")
  /\ message' = m
  /\ selfId' \in {o \in Objects : m[o] # Absent}
  /\ position' = <<m[selfId'][1], position[2]>>
  /\ UNCHANGED <<objList, objMap, mutexMap, current, todo, objectsToDelete, reader>>

\* The first time the object that comes first in the message, in no order, is
\* taken for the player's own.  _position has two fields, which readers may
\* see half written; a message without the player leaves them.
SelfX(m) ==
  /\ Goto("idle", "selfy")
  /\ message' = m
  /\ IF selfId # Absent THEN UNCHANGED selfId
     ELSE selfId' \in {o \in Objects : m[o] # Absent}
  /\ position' = IF m[selfId'] = Absent THEN position ELSE <<m[selfId'][1], position[2]>>
  /\ UNCHANGED <<objList, objMap, mutexMap, current, todo, objectsToDelete, reader>>

SelfY ==
  /\ Goto("selfy", "objects")
  /\ position' = IF message[selfId] = Absent THEN position ELSE message[selfId]
  /\ todo' = {o \in Objects : message[o] # Absent}
  /\ objectsToDelete' = {o \in Objects : Known(o)}
  /\ UNCHANGED <<objList, objMap, mutexMap, selfId, message, current, reader>>

\* Mutant of BeginMove: what moves is deleted afterwards, too.
MoveAndDelete(o) ==
  /\ o \in todo
  /\ Goto("objects", "lockold")
  /\ current' = o
  /\ todo' = todo \ {o}
  /\ objList' = [objList EXCEPT ![o] = IF Known(o) THEN @ ELSE message[o]]
  /\ UNCHANGED <<objMap, mutexMap, selfId, position, message, objectsToDelete, reader>>

\* MoveObj, and CreateObj for an object that is new.  The objects of a message
\* come in no order.
BeginMove(o) ==
  /\ o \in todo
  /\ Goto("objects", "lockold")
  /\ current' = o
  /\ todo' = todo \ {o}
  /\ objectsToDelete' = objectsToDelete \ {o}
  /\ objList' = [objList EXCEPT ![o] = IF Known(o) THEN @ ELSE message[o]]
  /\ UNCHANGED <<objMap, mutexMap, selfId, position, message, reader>>

Lock(c, who) == mutexMap[c] = Nobody /\ mutexMap' = [mutexMap EXCEPT ![c] = who]
Unlock(c) == mutexMap' = [mutexMap EXCEPT ![c] = Nobody]

LockOld ==
  /\ Goto("lockold", "leave")
  /\ Lock(objList[current], Receiver)
  /\ UNCHANGED <<objList, objMap, selfId, position, message, current, todo, objectsToDelete, reader>>

\* Mutant of LeaveCell: the object stays in its old cell, too.
StayInCell ==
  /\ Goto("leave", "write")
  /\ Unlock(objList[current])
  /\ UNCHANGED <<objList, objMap, selfId, position, message, current, todo, objectsToDelete, reader>>

LeaveCell ==
  /\ Goto("leave", "write")
  /\ objMap' = [objMap EXCEPT ![objList[current]] = @ \ {current}]
  /\ Unlock(objList[current])
  /\ UNCHANGED <<objList, selfId, position, message, current, todo, objectsToDelete, reader>>

\* The fields of the object, in two steps like any that take longer than one.
WriteFields ==
  /\ Goto("write", "written")
  /\ objList' = [objList EXCEPT ![current] = <<message[current][1], @[2]>>]
  /\ UNCHANGED <<objMap, mutexMap, selfId, position, message, current, todo, objectsToDelete, reader>>

WriteRest ==
  /\ Goto("written", "locknew")
  /\ objList' = [objList EXCEPT ![current] = message[current]]
  /\ UNCHANGED <<objMap, mutexMap, selfId, position, message, current, todo, objectsToDelete, reader>>

LockNew ==
  /\ Goto("locknew", "enter")
  /\ Lock(objList[current], Receiver)
  /\ UNCHANGED <<objList, objMap, selfId, position, message, current, todo, objectsToDelete, reader>>

EnterCell ==
  /\ Goto("enter", "objects")
  /\ objMap' = [objMap EXCEPT ![objList[current]] = @ \cup {current}]
  /\ Unlock(objList[current])
  /\ current' = Absent
  /\ UNCHANGED <<objList, selfId, position, message, todo, objectsToDelete, reader>>

\* The reader's iterator is among the objects of cell c.
Within(r, c) == reader[r].pc = "copy" /\ reader[r].cell = c /\ reader[r].left # {}

\* An object the message does not have: no lock is taken, so that it is erased
\* under the iterator of a reader of its cell.  What happens to that reader is
\* undefined: it goes astray, and its list may have anything.
Delete(o) ==
  /\ todo = {}
  /\ o \in objectsToDelete
  /\ Goto("objects", "objects")
  /\ objectsToDelete' = objectsToDelete \ {o}
  /\ objMap' = [objMap EXCEPT ![objList[o]] = @ \ {o}]
  /\ objList' = [objList EXCEPT ![o] = Absent]
  /\ \E list \in [Readers -> SUBSET (Objects \X Cells)] :
       reader' = [r \in Readers |->
         IF Within(r, objList[o])
           THEN [pc |-> "astray", cell |-> objList[o], left |-> {}, copied |-> list[r]]
           ELSE reader[r]]
  /\ UNCHANGED <<mutexMap, selfId, position, message, current, todo>>

\* task_list is emptied and filled again without a lock.
ClearTasks ==
  /\ todo = {} /\ objectsToDelete = {}
  /\ Goto("objects", "tasks")
  /\ UNCHANGED <<objList, objMap, mutexMap, selfId, position, message, current, todo,
                 objectsToDelete, reader>>

FillTasks ==
  /\ Goto("tasks", "notify")
  /\ UNCHANGED <<objList, objMap, mutexMap, selfId, position, message, current, todo,
                 objectsToDelete, reader>>

ApplyStep ==
  \/ SelfY \/ LockOld \/ LeaveCell \/ WriteFields \/ WriteRest \/ LockNew \/ EnterCell
  \/ ClearTasks \/ FillTasks
  \/ \E o \in Objects : BeginMove(o) \/ Delete(o)

-----------------------------------------------------------------------------
(* The readers: get_mapcell. *)

Near(i, j) == i - j \in -SightRange .. SightRange

SetReader(r, rec) == reader' = [reader EXCEPT ![r] = rec]

\* Too far away: an empty list, without a lock.  x and y are compared one
\* after the other with whatever _position has then.
InSight(c) == Near(c[1], position[1]) /\ Near(c[2], position[2])

Look(r, c) ==
  /\ reader[r].pc = "out"
  /\ InSight(c)
  /\ SetReader(r, [pc |-> "lock", cell |-> c, left |-> {}, copied |-> {}])
  /\ UNCHANGED <<objList, objMap, mutexMap, selfId, position, message, rpc, current, todo,
                 objectsToDelete>>

\* Mutant of LockCell: the cell is copied without its lock.
ReadUnlocked(r) ==
  /\ reader[r].pc = "lock"
  /\ SetReader(r, [reader[r] EXCEPT !.pc = "copy", !.left = objMap[reader[r].cell]])
  /\ UNCHANGED <<objList, objMap, mutexMap, selfId, position, message, rpc, current, todo,
                 objectsToDelete>>

LockCell(r) ==
  /\ reader[r].pc = "lock"
  /\ Lock(reader[r].cell, r)
  /\ SetReader(r, [reader[r] EXCEPT !.pc = "copy", !.left = objMap[reader[r].cell]])
  /\ UNCHANGED <<objList, objMap, selfId, position, message, rpc, current, todo, objectsToDelete>>

\* The iterator is at object o.
CopyObject(r, o) ==
  /\ reader[r].pc = "copy"
  /\ o \in reader[r].left
  /\ SetReader(r, [reader[r] EXCEPT !.left = @ \ {o},
                                  !.copied = @ \cup {<<o, objList[o]>>}])
  /\ UNCHANGED <<objList, objMap, mutexMap, selfId, position, message, rpc, current, todo,
                 objectsToDelete>>

UnlockCell(r) ==
  /\ reader[r].pc = "copy"
  /\ reader[r].left = {}
  /\ Unlock(reader[r].cell)
  /\ SetReader(r, Out)
  /\ UNCHANGED <<objList, objMap, selfId, position, message, rpc, current, todo, objectsToDelete>>

\* A reader that is astray may come to an end of the list and unlock the cell.
\* It need not: it may run for ever, or the process may die.
ComeBack(r) ==
  /\ reader[r].pc = "astray"
  /\ Unlock(reader[r].cell)
  /\ SetReader(r, Out)
  /\ UNCHANGED <<objList, objMap, selfId, position, message, rpc, current, todo, objectsToDelete>>

ReadStep(r) ==
  \/ LockCell(r) \/ UnlockCell(r)
  \/ \E o \in Objects : CopyObject(r, o)

-----------------------------------------------------------------------------
\* Who holds a lock is at the step that needs it; an object is in the cell it
\* says it is in and in no other, and in none while its fields are written.
Taken == rpc \in {"write", "written", "locknew", "enter"}

ReceiverHolds(c) ==
  /\ rpc \in {"leave", "enter"}
  /\ c = objList[current]

MapType ==
  /\ objList \in [Objects -> Cells \cup {Absent}]
  /\ objMap \in [Cells -> SUBSET Objects]
  /\ mutexMap \in [Cells -> Readers \cup {Receiver, Nobody}]
  /\ selfId \in Objects \cup {Absent} /\ position \in Cells
  /\ message \in [Objects -> Cells \cup {Absent}]
  /\ rpc # "idle" => selfId # Absent
  /\ rpc \in {"idle", "selfy", "objects", "lockold", "leave", "write", "written",
              "locknew", "enter", "tasks", "notify"}
  /\ current \in Objects \cup {Absent}
  /\ todo \subseteq Objects /\ objectsToDelete \subseteq Objects
  /\ reader \in [Readers -> [pc : {"out", "lock", "copy", "astray"}, cell : Cells,
                             left : SUBSET Objects, copied : SUBSET (Objects \X Cells)]]

Moving == rpc \in {"lockold", "leave", "write", "written", "locknew", "enter"}

\* Object o is where the message has it.
AsSent(o) == objList[o] = message[o]

MapInv ==
  /\ MapType
  /\ IF Moving
       THEN /\ current \in Objects /\ Known(current) /\ message[current] # Absent
            /\ current \notin objectsToDelete \cup todo
       ELSE current = Absent
  /\ rpc \in {"locknew", "enter"} => AsSent(current)
  /\ todo # {} \/ objectsToDelete # {} => Moving \/ rpc = "objects"
  /\ \A o \in todo : message[o] # Absent
  /\ \A o \in objectsToDelete : Known(o)
  /\ \A o \in objectsToDelete \ todo : message[o] = Absent
  /\ rpc # "selfy" => \A o \in Objects \ (todo \cup objectsToDelete \cup {current}) : AsSent(o)
  /\ \A c \in Cells : mutexMap[c] = Receiver <=> ReceiverHolds(c)
  /\ \A c \in Cells, r \in Readers :
       mutexMap[c] = r <=> reader[r].pc \in {"copy", "astray"} /\ reader[r].cell = c
  /\ \A c \in Cells : \A o \in objMap[c] : objList[o] = c /\ ~ (Taken /\ o = current)
  /\ \A o \in Objects : Known(o) /\ o # current => o \in objMap[objList[o]]
  /\ \A r \in Readers :
       /\ reader[r].left # {} => reader[r].pc = "copy"
       /\ reader[r].left \subseteq objMap[reader[r].cell]

\* Every copy a reader takes shows the object where the reader looked, whatever
\* is moved meanwhile: no object is copied while its fields are being written
\* (CAPI.cpp:211-224, structure.cpp:112-117).  Nothing is said of the list of a
\* reader that a deletion has led astray.
CopiesAgree ==
  \A r \in Readers : reader[r].pc # "astray" =>
    \A k \in reader[r].copied : k[2] = reader[r].cell

\* After a message the cells have the objects of that message and no others,
\* each in the cell the server has it in (CAPI.cpp:258-269).
Shown ==
  rpc = "idle" => \A o \in Objects, c \in Cells : o \in objMap[c] <=> message[o] = c
=============================================================================
