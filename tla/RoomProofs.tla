------------------------------ MODULE RoomProofs ------------------------------
(***************************************************************************)
(* Theorems about Room, for any number of clients, connections and players *)
(* of a room: ids are kept apart.                                          *)
(***************************************************************************)
EXTENDS Room, FiniteSetTheorems, TLAPS

LEMMA NothingIsNone == NoId \notin Ids /\ None \notin Conns
  BY TransportAssumption DEF NoId, Ids, None

LEMMA InitEstablishes == Init => SlotInv
<1> SUFFICES ASSUME Init PROVE SlotInv
  OBVIOUS
<1> USE NothingIsNone DEF Init, TransportInit
<1>1. TransportTypeOK
  <2>1. (CHOOSE c \in Clients : TRUE) \in Clients
    BY TransportAssumption
  <2>2. owner \in [Conns -> Clients] /\ drops \in 0 .. MaxDrops
    BY <2>1, TransportAssumption
  <2>3. QED
    BY <2>2 DEF TransportTypeOK, Labels
<1>2. ToldHold /\ ChosenFree /\ AskedHeld /\ LastConnection
  BY DEF ToldHold, ChosenFree, AskedHeld, LastConnection
<1>3. QED
  BY <1>1, <1>2 DEF SlotInv

\* The steps that change what SlotInv speaks of, one lemma each.
LEMMA ConnectKeeps ==
  ASSUME SlotInv, NEW c \in Clients, NEW k \in Conns, Connect(c, k)
  PROVE  SlotInv'
<1> USE NothingIsNone DEF SlotInv, Connect, Goto, Unused, Asks
<1>1. TransportTypeOK'
  BY DEF TransportTypeOK, Labels
<1>2. \A i \in Ids, d \in Clients : Holds(d, i) => Holds(d, i)'
  BY DEF Holds, TransportTypeOK
<1>3. ToldHold'
  <2> SUFFICES ASSUME NEW d \in Clients
      PROVE  /\ (Present(d) /\ address[d] # NoId => Holds(d, address[d]))'
             /\ (conn[d] # None /\ answer[conn[d]] # NoId
                  => slots[answer[conn[d]]] = conn[d])'
    BY DEF ToldHold
  <2>1. Present(d)' => Present(d)
    BY DEF Present, TransportTypeOK
  <2>2. QED
    BY <1>2, <2>1 DEF ToldHold, TransportTypeOK
<1>4. ChosenFree'
  BY DEF ChosenFree, TransportTypeOK
<1>5. AskedHeld'
  <2> SUFFICES ASSUME NEW j \in Conns, Asks(j)', id'[j] # NoId
      PROVE  Holds(owner[j], id[j])'
    BY DEF AskedHeld
  <2>1. CASE j = k
    <3>1. id'[j] = address[c] /\ owner'[j] = c /\ Holds(c, address[c])
      BY <2>1 DEF ToldHold, Present, TransportTypeOK
    <3>2. QED
      BY <1>2, <3>1 DEF TransportTypeOK, Holds
  <2>2. CASE j # k
    BY <1>2, <2>2 DEF AskedHeld, TransportTypeOK, Holds
  <2>3. QED
    BY <2>1, <2>2
<1>6. LastConnection'
  BY DEF LastConnection, Present, TransportTypeOK, Handled
<1>7. QED
  BY <1>1, <1>3, <1>4, <1>5, <1>6

\* A lemma for each of the steps that leave most of it alone.
LEMMA ReceiveIdKeeps ==
  ASSUME SlotInv, NEW c \in Clients, ReceiveId(c)
  PROVE  SlotInv'
<1> USE NothingIsNone DEF SlotInv, ReceiveId, serverVars, Asks
<1>1. TransportTypeOK'
  BY DEF TransportTypeOK
<1>2. ToldHold'
  BY DEF ToldHold, LastConnection, Present, Holds, TransportTypeOK
<1>3. ChosenFree' /\ AskedHeld'
  BY DEF ChosenFree, AskedHeld, Holds
<1>4. LastConnection'
  BY DEF LastConnection, Present
<1>5. QED
  BY <1>1, <1>2, <1>3, <1>4

LEMMA OnCloseKeeps ==
  ASSUME SlotInv, NEW c \in Clients, OnClose(c)
  PROVE  SlotInv'
<1> USE NothingIsNone DEF SlotInv, OnClose, serverVars, packets, Asks
<1>1. TransportTypeOK'
  BY DEF TransportTypeOK
<1>2. ToldHold'
  BY DEF ToldHold, Present, Holds, TransportTypeOK
<1>3. ChosenFree' /\ AskedHeld'
  BY DEF ChosenFree, AskedHeld, Holds
<1>4. LastConnection'
  BY DEF LastConnection, Present, TransportTypeOK
<1>5. QED
  BY <1>1, <1>2, <1>3, <1>4

LEMMA DropKeeps ==
  ASSUME SlotInv, NEW c \in Clients, Drop(c)
  PROVE  SlotInv'
<1> USE NothingIsNone DEF SlotInv, Drop, serverVars, Asks
<1>1. TransportTypeOK'
  <2>1. drops' \in 0 .. MaxDrops
    BY TransportAssumption DEF TransportTypeOK
  <2>2. hello' \in [Conns -> BOOLEAN]
    BY DEF TransportTypeOK
  <2>3. QED
    BY <2>1, <2>2 DEF TransportTypeOK
<1>2. ToldHold'
  BY DEF ToldHold, Present, Holds, TransportTypeOK
<1>3. ChosenFree' /\ AskedHeld'
  BY DEF ChosenFree, AskedHeld, Holds, TransportTypeOK
<1>4. LastConnection'
  BY DEF LastConnection, Present, TransportTypeOK
<1>5. QED
  BY <1>1, <1>2, <1>3, <1>4

LEMMA QuitKeeps ==
  ASSUME SlotInv, NEW c \in Clients, Quit(c)
  PROVE  SlotInv'
<1> USE NothingIsNone DEF SlotInv, Quit, serverVars, Asks
<1>1. TransportTypeOK'
  BY DEF TransportTypeOK
<1>2. ToldHold'
  BY DEF ToldHold, Present, Holds, TransportTypeOK
<1>3. ChosenFree' /\ AskedHeld'
  BY DEF ChosenFree, AskedHeld, Holds, TransportTypeOK
<1>4. LastConnection'
  BY DEF LastConnection, Present, TransportTypeOK
<1>5. QED
  BY <1>1, <1>2, <1>3, <1>4

LEMMA RefuseKeeps ==
  ASSUME SlotInv, NEW k \in Conns, Refuse(k)
  PROVE  SlotInv'
<1> USE NothingIsNone DEF SlotInv, Refuse, Cut, Goto, Gets, clientVars, Asks
<1>1. TransportTypeOK'
  BY DEF TransportTypeOK, Labels
<1>2. ToldHold'
  BY DEF ToldHold, Present, Holds
<1>3. ChosenFree' /\ AskedHeld'
  BY DEF ChosenFree, AskedHeld, Holds, TransportTypeOK
<1>4. LastConnection'
  BY DEF LastConnection, Present, TransportTypeOK
<1>5. QED
  BY <1>1, <1>2, <1>3, <1>4

LEMMA ChooseIdKeeps ==
  ASSUME SlotInv, NEW k \in Conns, ChooseId(k)
  PROVE  SlotInv'
<1> USE NothingIsNone DEF SlotInv, ChooseId, Goto, Gets, clientVars, Asks
<1>1. TransportTypeOK'
  BY DEF TransportTypeOK, Labels
<1>2. ToldHold'
  BY DEF ToldHold, Present, Holds
<1>3. ChosenFree' /\ AskedHeld'
  BY DEF ChosenFree, AskedHeld, Holds, TransportTypeOK
<1>4. LastConnection'
  BY DEF LastConnection, Present, TransportTypeOK
<1>5. QED
  BY <1>1, <1>2, <1>3, <1>4

\* The id that AddSlot takes is free, so that nobody loses it.
LEMMA AddSlotKeeps ==
  ASSUME SlotInv, NEW k \in Conns, AddSlot(k)
  PROVE  SlotInv'
<1> USE NothingIsNone DEF SlotInv, AddSlot, Goto, clientVars, Asks
<1>1. id[k] \in Ids /\ slots[id[k]] = None /\ idLock = k
  BY DEF ChosenFree, TransportTypeOK
<1>2. slots' = [slots EXCEPT ![id[k]] = k]
  BY <1>1
<1>3. TransportTypeOK'
  BY <1>1, <1>2 DEF TransportTypeOK, Labels
<1>4. ToldHold'
  BY <1>1, <1>2 DEF ToldHold, Present, Holds, TransportTypeOK
<1>5. ChosenFree'
  BY <1>1, <1>2 DEF ChosenFree, TransportTypeOK
<1>6. AskedHeld'
  BY <1>1, <1>2 DEF AskedHeld, Holds, TransportTypeOK
<1>7. LastConnection'
  BY DEF LastConnection, Present
<1>8. QED
  BY <1>3, <1>4, <1>5, <1>6, <1>7

LEMMA ReadmitKeeps ==
  ASSUME SlotInv, NEW k \in Conns, Readmit(k)
  PROVE  SlotInv'
<1> USE NothingIsNone DEF SlotInv, Readmit, Goto, Gets, clientVars, Asks
<1>1. TransportTypeOK'
  BY DEF TransportTypeOK, Labels
<1>2. ToldHold'
  BY DEF ToldHold, Present, Holds
<1>3. ChosenFree' /\ AskedHeld'
  BY DEF ChosenFree, AskedHeld, Holds, TransportTypeOK
<1>4. LastConnection'
  BY DEF LastConnection, Present, TransportTypeOK
<1>5. QED
  BY <1>1, <1>2, <1>3, <1>4

\* ReplaceSlot replaces a connection in clientList by one of the same client.
LEMMA ReplaceSlotKeeps ==
  ASSUME SlotInv, NEW k \in Conns, ReplaceSlot(k)
  PROVE  SlotInv'
<1> USE NothingIsNone DEF SlotInv, ReplaceSlot, Goto, clientVars, packets, Asks
<1>1. id[k] \in Ids /\ Holds(owner[k], id[k])
  BY DEF AskedHeld, TransportTypeOK
<1>2. TransportTypeOK'
  BY <1>1 DEF TransportTypeOK, Labels
<1>3. \A i \in Ids, d \in Clients : Holds(d, i) => Holds(d, i)'
  BY <1>1 DEF Holds, TransportTypeOK
<1>4. ToldHold'
  <2> SUFFICES ASSUME NEW d \in Clients
      PROVE  /\ Present(d) /\ address[d] # NoId => Holds(d, address[d])'
             /\ conn[d] # None /\ answer[conn[d]] # NoId
                  => slots'[answer[conn[d]]] = conn[d]
    BY DEF ToldHold, Present
  <2>1. Present(d) /\ address[d] # NoId => Holds(d, address[d])'
    BY <1>3 DEF ToldHold, TransportTypeOK, Holds
  <2>2. ASSUME conn[d] # None, answer[conn[d]] # NoId
        PROVE  slots'[answer[conn[d]]] = conn[d]
    <3>1. slots[answer[conn[d]]] = conn[d] /\ owner[conn[d]] = d
      BY <2>2 DEF ToldHold, LastConnection
    <3>2. id[k] = answer[conn[d]] => k = conn[d]
      BY <1>1, <2>2, <3>1 DEF LastConnection, Holds
    <3>3. QED
      BY <1>1, <2>2, <3>1, <3>2 DEF TransportTypeOK
  <2>3. QED
    BY <2>1, <2>2
<1>5. ChosenFree'
  BY <1>1 DEF ChosenFree, Holds, TransportTypeOK
<1>6. AskedHeld'
  BY <1>1, <1>3 DEF AskedHeld, Holds, TransportTypeOK
<1>7. LastConnection'
  BY DEF LastConnection, Present, TransportTypeOK
<1>8. QED
  BY <1>2, <1>4, <1>5, <1>6, <1>7

\* Leave takes the id of a client that is not present any more.
LEMMA LeaveKeeps ==
  ASSUME SlotInv, NEW k \in Conns, Leave(k)
  PROVE  SlotInv'
<1> USE NothingIsNone DEF SlotInv, Leave, Goto, clientVars, Asks
<1>1. /\ ~ Present(owner[k])
      /\ \A j \in Conns : owner[j] = owner[k] => ~ Asks(j)
  BY DEF LastConnection
<1>2. TransportTypeOK'
  BY DEF TransportTypeOK, Labels
<1>3. \A i \in Ids, d \in Clients :
        d # owner[k] /\ Holds(d, i) => Holds(d, i)'
  BY DEF Holds, TransportTypeOK
<1>4. ToldHold'
  <2> SUFFICES ASSUME NEW d \in Clients
      PROVE  /\ Present(d) /\ address[d] # NoId => Holds(d, address[d])'
             /\ conn[d] # None /\ answer[conn[d]] # NoId
                  => slots'[answer[conn[d]]] = conn[d]
    BY DEF ToldHold, Present
  <2>1. Present(d) /\ address[d] # NoId => Holds(d, address[d])'
    BY <1>1, <1>3 DEF ToldHold, TransportTypeOK
  <2>2. conn[d] # None => conn[d] # k
    BY <1>1 DEF LastConnection, Present
  <2>3. QED
    BY <2>1, <2>2 DEF ToldHold, TransportTypeOK
<1>5. ChosenFree'
  BY DEF ChosenFree, TransportTypeOK
<1>6. AskedHeld'
  BY <1>1, <1>3 DEF AskedHeld, TransportTypeOK, Holds
<1>7. LastConnection'
  BY DEF LastConnection, Present, TransportTypeOK
<1>8. QED
  BY <1>2, <1>4, <1>5, <1>6, <1>7

\* The Agent's handlers do not touch clientList ...
LEMMA ReturnKeeps ==
  ASSUME SlotInv, NEW k \in Conns, Return(k), pc[k] # "add",
         UNCHANGED <<slots, isListening, stopped, hello, bye, answer,
                     owner, clientVars, drops>>
  PROVE  SlotInv'
<1> USE NothingIsNone DEF SlotInv, Return, Goto, clientVars, Asks
<1>1. TransportTypeOK'
  BY DEF TransportTypeOK, Labels
<1>2. ToldHold' /\ LastConnection'
  BY DEF ToldHold, LastConnection, Present, Holds
<1>3. ChosenFree' /\ AskedHeld'
  BY DEF ChosenFree, AskedHeld, Holds, TransportTypeOK
<1>4. QED
  BY <1>1, <1>2, <1>3

LEMMA GotoKeeps ==
  ASSUME SlotInv, NEW k \in Conns,
         NEW label \in Labels \ {"add", "replace"}, Goto(k, label),
         isListening' \in BOOLEAN,
         UNCHANGED <<slots, idLock, stopped, packets, owner, clientVars, drops>>
  PROVE  SlotInv'
<1> USE NothingIsNone DEF SlotInv, Goto, clientVars, packets, Asks
<1>1. TransportTypeOK'
  BY DEF TransportTypeOK
<1>2. ToldHold' /\ LastConnection'
  BY DEF ToldHold, LastConnection, Present, Holds, TransportTypeOK
<1>3. ChosenFree' /\ AskedHeld'
  BY DEF ChosenFree, AskedHeld, Holds, TransportTypeOK
<1>4. QED
  BY <1>1, <1>2, <1>3

LEMMA QuitUpstreamKeeps ==
  ASSUME SlotInv, NEW k \in Conns, QuitUpstream(k)
  PROVE  SlotInv'
<1> USE NothingIsNone DEF SlotInv, QuitUpstream, Asks
<1>1. CASE Goto(k, "resume") /\ UNCHANGED <<stopped, hello, bye>>
  BY <1>1, GotoKeeps DEF Labels, packets, TransportTypeOK
<1>2. CASE /\ stopped' = TRUE
           /\ pc' = [j \in Conns |-> "closed"]
           /\ hello' = [j \in Conns |-> FALSE] /\ bye' = hello'
  <2>1. TransportTypeOK'
    BY <1>2 DEF TransportTypeOK, Labels, clientVars
  <2>2. ToldHold' /\ LastConnection'
    BY <1>2 DEF ToldHold, LastConnection, Present, Holds, clientVars
  <2>3. ChosenFree' /\ AskedHeld'
    BY <1>2 DEF ChosenFree, AskedHeld, Holds
  <2>4. QED
    BY <2>1, <2>2, <2>3
<1>3. QED
  BY <1>1, <1>2

LEMMA AgentKeeps ==
  ASSUME SlotInv, NEW k \in Conns, AgentStep(k)
  PROVE  SlotInv'
<1>1. CASE Accept(k)
  BY <1>1, ReturnKeeps, GotoKeeps DEF Accept, Labels, SlotInv, TransportTypeOK, packets
<1>2. CASE Pause(k)
  BY <1>2, GotoKeeps DEF Pause, Labels
<1>3. CASE Join(k)
  BY <1>3, ReturnKeeps DEF Join
<1>4. CASE QuitUpstream(k)
  BY <1>4, QuitUpstreamKeeps
<1>5. CASE Resume(k)
  BY <1>5, GotoKeeps DEF Resume, Labels
<1>6. QED
  BY <1>1, <1>2, <1>3, <1>4, <1>5 DEF AgentStep

LEMMA NextPreserves == SlotInv /\ [Next]_roomVars => SlotInv'
<1> SUFFICES ASSUME SlotInv, [Next]_roomVars PROVE SlotInv'
  OBVIOUS
<1>1. ASSUME NEW k \in Conns, ServerStep(k)
      PROVE  SlotInv'
  BY <1>1, RefuseKeeps, ChooseIdKeeps, AddSlotKeeps, ReadmitKeeps, ReplaceSlotKeeps,
     LeaveKeeps
  DEF ServerStep
<1>2. ASSUME NEW c \in Clients, ClientStep(c) \/ Drop(c) \/ Quit(c)
      PROVE  SlotInv'
  BY <1>2, ConnectKeeps, ReceiveIdKeeps, OnCloseKeeps, DropKeeps, QuitKeeps
  DEF ClientStep
<1>3. ASSUME NEW k \in Conns, AgentStep(k)
      PROVE  SlotInv'
  BY <1>3, AgentKeeps
<1>4. CASE UNCHANGED roomVars
  <2>1. UNCHANGED transportVars
    BY <1>4 DEF roomVars
  <2>2. QED
    BY <2>1 DEF transportVars, serverVars, packets, clientVars, SlotInv,
                TransportTypeOK, ToldHold, ChosenFree, AskedHeld, LastConnection,
                Present, Holds, Asks
<1>5. QED
  BY <1>1, <1>2, <1>3, <1>4 DEF Next, TransportStep

-----------------------------------------------------------------------------
\* SlotInv is an inductive invariant of the room: ids in clientList, in the
\* packets under way and in the clients agree.
THEOREM SlotInvariant == Spec => []SlotInv
  BY InitEstablishes, NextPreserves, PTL DEF Spec

\* A client that was told its id is the one that is reached under it, until
\* it quits (IDServer.cs:31-121, IDClient.cs:23-79).
THEOREM SlotsAreKept == Spec => []SlotKept
<1>1. SlotInv => SlotKept
  BY DEF SlotInv, ToldHold, Present, SlotKept
<1>2. QED
  BY <1>1, SlotInvariant, PTL

\* So no two clients have one id.
UniqueIds ==
  \A c, d \in Clients :
    /\ ~ closed[c] /\ address[c] # NoId
    /\ ~ closed[d] /\ address[d] = address[c]
    => c = d

\* Two players of a team that have not quit never have the same id, by which
\* the server tells them apart (Program.cs:100, IDServer.cs:65-75).
THEOREM IdsAreUnique == Spec => []UniqueIds
<1>1. SlotKept => UniqueIds
  BY DEF SlotKept, UniqueIds, Holds
<1>2. QED
  BY <1>1, SlotsAreKept, PTL

-----------------------------------------------------------------------------
Taken == {i \in Ids : slots[i] # None}

LEMMA CountIsNat ==
  IsFiniteSet(Taken) /\ Count = Cardinality(Taken) /\ Count \in Nat
<1>1. IsFiniteSet(Conns)
  BY TransportAssumption
<1>2. Cardinality(Conns) \in Int
  BY <1>1, FS_CardinalityType
<1>3. IsFiniteSet(Ids)
  BY <1>2, FS_Interval DEF Ids
<1>4. IsFiniteSet(Taken)
  BY <1>3, FS_Subset DEF Taken
<1>5. QED
  BY <1>4, FS_CardinalityType DEF Taken, Count

\* ReplaceSlot takes no further id.
LEMMA ReplaceSlotCount ==
  ASSUME SlotInv, NEW k \in Conns, ReplaceSlot(k)
  PROVE  Count' = Count
<1>1. id[k] \in Ids /\ slots[id[k]] # None
  BY DEF ReplaceSlot, SlotInv, AskedHeld, Asks, Holds, TransportTypeOK
<1>2. slots' = [slots EXCEPT ![id[k]] = k] /\ k # None
  BY NothingIsNone DEF ReplaceSlot
<1>3. Taken' = Taken
  BY <1>1, <1>2 DEF Taken, SlotInv, TransportTypeOK
<1>4. QED
  BY <1>3 DEF Count, Taken

\* AddSlot takes one.
LEMMA AddSlotCount ==
  ASSUME SlotInv, NEW k \in Conns, AddSlot(k)
  PROVE  Count' = Count + 1
<1>1. id[k] \in Ids /\ slots[id[k]] = None
  BY DEF AddSlot, SlotInv, ChosenFree, TransportTypeOK
<1>2. slots' = [slots EXCEPT ![id[k]] = k] /\ k # None
  BY <1>1, NothingIsNone DEF AddSlot
<1>3. Taken' = Taken \cup {id[k]} /\ id[k] \notin Taken
  BY <1>1, <1>2 DEF Taken, SlotInv, TransportTypeOK
<1>4. Cardinality(Taken') = Cardinality(Taken) + 1
  BY <1>3, CountIsNat, FS_AddElement
<1>5. QED
  BY <1>4, CountIsNat DEF Count, Taken

LEMMA InitFills == Init => Filling
<1> SUFFICES ASSUME Init PROVE Filling
  OBVIOUS
<1>1. Taken = {}
  BY DEF Init, TransportInit, Taken
<1>2. Count = 0
  BY <1>1, FS_EmptySet DEF Count, Taken
<1>3. QED
  BY <1>2, CapacityAssumption DEF Init, TransportInit, Filling

\* The steps of clients, and those of the server that take no id.
LEMMA QuietFills ==
  ASSUME Filling, NobodyHasQuit' => NobodyHasQuit, Count' = Count,
         UNCHANGED <<isListening, idLock, upstream>>,
         \A k \in Conns :
           \/ pc'[k] = pc[k]
           \/ /\ pc[k] \in {"idle", "closed", "replace"}
              /\ pc'[k] \in {"idle", "closed", "replace", "accept"},
         TransportTypeOK
  PROVE  Filling'
  BY NothingIsNone DEF Filling, TransportTypeOK

LEMMA ClientFills ==
  ASSUME SlotInv, Filling, NEW c \in Clients,
         ClientStep(c) \/ Drop(c) \/ Quit(c), UNCHANGED upstream
  PROVE  Filling'
<1> USE DEF serverVars, SlotInv
<1>1. ASSUME NEW k \in Conns, Connect(c, k)
      PROVE  Filling'
  <2>1. UNCHANGED <<slots, isListening, idLock, closed>> /\ pc[k] \in {"idle", "closed"}
    BY <1>1 DEF Connect, Unused
  <2>2. pc' = [pc EXCEPT ![k] = "idle"]
    BY <1>1 DEF Connect, Goto
  <2>3. QED
    BY <2>1, <2>2, QuietFills DEF Count, NobodyHasQuit, TransportTypeOK
<1>2. CASE ReceiveId(c) \/ OnClose(c) \/ Drop(c)
  <2>1. UNCHANGED <<slots, isListening, idLock, pc, closed>>
    BY <1>2 DEF ReceiveId, OnClose, Drop
  <2>2. QED
    BY <2>1, QuietFills DEF Count, NobodyHasQuit
<1>3. CASE Quit(c)
  <2>1. ~ NobodyHasQuit'
    BY <1>3 DEF Quit, NobodyHasQuit, TransportTypeOK
  <2>2. QED
    BY <2>1 DEF Filling
<1>4. QED
  BY <1>1, <1>2, <1>3 DEF ClientStep

LEMMA ServerFills ==
  ASSUME SlotInv, Filling, NEW k \in Conns, ServerStep(k), UNCHANGED upstream
  PROVE  Filling'
<1> USE DEF clientVars
<1>1. CASE Refuse(k)
  <2>1. UNCHANGED <<slots, isListening, idLock, closed>> /\ pc[k] = "idle"
    BY <1>1 DEF Refuse, Gets
  <2>2. pc' = [pc EXCEPT ![k] = "closed"]
    BY <1>1 DEF Refuse, Cut, Goto
  <2>3. QED
    BY <2>1, <2>2, QuietFills DEF Count, NobodyHasQuit, SlotInv, TransportTypeOK
<1>2. CASE ChooseId(k)
  <2>1. /\ UNCHANGED <<slots, isListening, closed>> /\ pc[k] = "idle"
        /\ isListening /\ idLock = None /\ idLock' = k
        /\ pc' = [pc EXCEPT ![k] = "add"]
    BY <1>2 DEF ChooseId, Gets, Goto
  <2>2. Count' = Count /\ NobodyHasQuit' = NobodyHasQuit
    BY <2>1 DEF Count, NobodyHasQuit
  <2>3. NobodyHasQuit => Count < Capacity
    BY <2>1, CountIsNat, CapacityAssumption DEF Filling
  <2>4. QED
    BY <2>1, <2>2, <2>3, CapacityAssumption, CountIsNat
    DEF Filling, SlotInv, TransportTypeOK
<1>3. CASE AddSlot(k)
  <2>1. /\ UNCHANGED <<isListening, idLock, closed>> /\ pc[k] = "add"
        /\ pc' = [pc EXCEPT ![k] = "accept"]
    BY <1>3 DEF AddSlot, Goto
  <2>2. Count' = Count + 1 /\ NobodyHasQuit' = NobodyHasQuit
    BY <1>3, <2>1, AddSlotCount DEF NobodyHasQuit
  <2>3. NobodyHasQuit => Count < Capacity
    BY <2>1 DEF Filling
  <2>4. idLock = k /\ \A j \in Conns : pc[j] = "add" => j = k
    BY <2>1 DEF SlotInv, ChosenFree
  <2>5. QED
    BY <2>1, <2>2, <2>3, <2>4, CapacityAssumption, CountIsNat, NothingIsNone
    DEF Filling, SlotInv, TransportTypeOK
<1>4. CASE Readmit(k)
  <2>1. /\ UNCHANGED <<slots, isListening, idLock, closed>> /\ pc[k] = "idle"
        /\ pc' = [pc EXCEPT ![k] = "replace"]
    BY <1>4 DEF Readmit, Gets, Goto
  <2>2. QED
    BY <2>1, QuietFills DEF Count, NobodyHasQuit, SlotInv, TransportTypeOK
<1>5. CASE ReplaceSlot(k)
  <2>1. /\ UNCHANGED <<isListening, idLock, closed>> /\ pc[k] = "replace"
        /\ pc' = [pc EXCEPT ![k] = "accept"]
    BY <1>5 DEF ReplaceSlot, Goto
  <2>2. Count' = Count
    BY <1>5, ReplaceSlotCount
  <2>3. QED
    BY <2>1, <2>2, QuietFills DEF NobodyHasQuit, SlotInv, TransportTypeOK
<1>6. CASE Leave(k)
  <2>1. closed' = closed /\ bye[k]
    BY <1>6 DEF Leave
  <2>2. owner[k] \in Clients /\ closed[owner[k]]
    BY <2>1 DEF SlotInv, LastConnection, Present, TransportTypeOK
  <2>3. QED
    BY <2>1, <2>2 DEF Filling, NobodyHasQuit
<1>7. QED
  BY <1>1, <1>2, <1>3, <1>4, <1>5, <1>6 DEF ServerStep

LEMMA AgentFills ==
  ASSUME SlotInv, Filling, NEW k \in Conns, AgentStep(k)
  PROVE  Filling'
<1> USE NothingIsNone, CapacityAssumption, CountIsNat DEF clientVars, Goto, Return
<1>1. CASE Accept(k)
  <2>1. /\ UNCHANGED <<slots, isListening, closed, upstream>> /\ pc[k] = "accept"
        /\ \/ Count = Capacity /\ idLock' = idLock /\ pc' = [pc EXCEPT ![k] = "full"]
           \/ /\ Count # Capacity /\ pc' = [pc EXCEPT ![k] = "idle"]
              /\ idLock' = IF idLock = k THEN None ELSE idLock
    BY <1>1 DEF Accept
  <2>2. Count' = Count /\ NobodyHasQuit' = NobodyHasQuit
    BY <2>1 DEF Count, NobodyHasQuit
  <2>3. QED
    BY <2>1, <2>2 DEF Filling, SlotInv, TransportTypeOK
<1>2. CASE Pause(k)
  <2>1. /\ UNCHANGED <<slots, idLock, closed, upstream>> /\ pc[k] = "full"
        /\ isListening' = FALSE /\ pc' = [pc EXCEPT ![k] = "paused"]
    BY <1>2 DEF Pause
  <2>2. Count' = Count /\ NobodyHasQuit' = NobodyHasQuit
    BY <2>1 DEF Count, NobodyHasQuit
  <2>3. QED
    BY <2>1, <2>2 DEF Filling, SlotInv, TransportTypeOK
<1>3. CASE Join(k)
  <2>1. /\ UNCHANGED <<slots, isListening, closed>> /\ pc[k] = "paused"
        /\ upstream' = TRUE /\ pc' = [pc EXCEPT ![k] = "idle"]
        /\ idLock' = IF idLock = k THEN None ELSE idLock
    BY <1>3 DEF Join
  <2>2. Count' = Count /\ NobodyHasQuit' = NobodyHasQuit
    BY <2>1 DEF Count, NobodyHasQuit
  <2>3. QED
    BY <2>1, <2>2 DEF Filling, SlotInv, TransportTypeOK
<1>4. CASE QuitUpstream(k) \/ Resume(k)
  <2>1. closed' = closed /\ pc[k] \in {"left", "resume"}
    BY <1>4 DEF QuitUpstream, Resume
  <2>2. QED
    BY <2>1 DEF Filling, NobodyHasQuit
<1>5. QED
  BY <1>1, <1>2, <1>3, <1>4 DEF AgentStep

\* As long as nobody has quit, the room takes no more players than fit in, and
\* the Agent plays only with a full room (Program.cs:114-131).
THEOREM RoomAlwaysHolds == Spec => []RoomHolds
<1>1. Init => SlotInv /\ Filling
  BY InitEstablishes, InitFills
<1>2. SlotInv /\ Filling /\ [Next]_roomVars => (SlotInv /\ Filling)'
  <2> SUFFICES ASSUME SlotInv, Filling, [Next]_roomVars
      PROVE  SlotInv' /\ Filling'
    OBVIOUS
  <2>1. SlotInv'
    BY NextPreserves
  <2>2. ASSUME UNCHANGED roomVars
        PROVE  Filling'
    <3>1. UNCHANGED <<slots, isListening, idLock, pc, closed, upstream>>
      BY <2>2 DEF roomVars, transportVars, serverVars, clientVars
    <3>2. QED
      BY <3>1, QuietFills DEF Count, NobodyHasQuit, SlotInv
  <2>3. ASSUME NEW c \in Clients, ClientStep(c) \/ Drop(c) \/ Quit(c),
               UNCHANGED upstream
        PROVE  Filling'
    BY <2>3, ClientFills
  <2>4. ASSUME NEW k \in Conns, ServerStep(k), UNCHANGED upstream
        PROVE  Filling'
    BY <2>4, ServerFills
  <2>5. ASSUME NEW k \in Conns, AgentStep(k)
        PROVE  Filling'
    BY <2>5, AgentFills
  <2>6. QED
    BY <2>1, <2>2, <2>3, <2>4, <2>5 DEF Next, TransportStep
<1>3. Filling => RoomHolds
  BY DEF Filling, RoomHolds
<1>4. QED
  BY <1>1, <1>2, <1>3, PTL DEF Spec
=============================================================================
