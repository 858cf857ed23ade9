----------------------------- MODULE IDTransport -----------------------------
(***************************************************************************)
(* communication/Proto/IDServer.cs and IDClient.cs: clients connect to a   *)
(* server over TCP, ask for an id, or for the id they had before the       *)
(* connection broke, and leave by a Quit packet.  The server keeps who has *)
(* which id in clientList.  What its owner does on OnAccept and            *)
(* InternalQuit is left to the module that extends this one.               *)
(*                                                                         *)
(* The packets of one connection are handled in order by one thread, those *)
(* of different connections at the same time.  The server has no handler   *)
(* for a connection that breaks.                                           *)
(***************************************************************************)
EXTENDS Integers, FiniteSets

CONSTANTS
  Clients,   \* the IDClients
  Conns,     \* the server's numbers of connections (connId), used again when
             \* nothing is left of one
  MaxDrops   \* bound: how often connections break

ASSUME TransportAssumption ==
  /\ Clients # {}
  /\ Conns \subseteq Nat \ {0} /\ IsFiniteSet(Conns)
  /\ MaxDrops \in Nat

\* One id more than there are connections: one is always free.
Ids == 0 .. Cardinality(Conns)
NoId == -1
None == 0   \* no connection: IntPtr.Zero

VARIABLES
  slots,      \* clientList; None: the key is missing
  isListening,
  idLock,     \* the connection whose handler holds idLock, or None
  pc,         \* where the handler of a connection is
  stopped,    \* the server was stopped
  hello,      \* OnConnect's IdRequest or IdAllocate is on its way up
  id,         \* the id in that packet, NoId for an IdRequest; then the
              \* one the handler chose
  bye,        \* a Quit packet is on its way up, after the hello
  answer,     \* the id in the IdAllocate on its way down, or NoId
  owner,      \* history: who made the connection
  conn,       \* the connection of a client, or None
  retrying,   \* the client is in Connect or in the loop of OnClose
  address,    \* Address
  closed,     \* Closed
  drops       \* how often a connection broke

serverVars == <<slots, isListening, idLock, pc, stopped>>
packets == <<hello, id, bye, answer>>
clientVars == <<conn, retrying, address, closed>>
transportVars == <<serverVars, packets, owner, clientVars, drops>>

TransportInit ==
  /\ slots = [i \in Ids |-> None]
  /\ isListening = TRUE /\ stopped = FALSE /\ idLock = None
  /\ pc = [k \in Conns |-> "closed"]
  /\ hello = [k \in Conns |-> FALSE] /\ bye = [k \in Conns |-> FALSE]
  /\ id = [k \in Conns |-> NoId] /\ answer = [k \in Conns |-> NoId]
  /\ owner = [k \in Conns |-> CHOOSE c \in Clients : TRUE]
  /\ conn = [c \in Clients |-> None]
  /\ retrying = [c \in Clients |-> TRUE]
  /\ address = [c \in Clients |-> NoId]
  /\ closed = [c \in Clients |-> FALSE]
  /\ drops = 0

Goto(k, label) == ~ stopped /\ pc' = [pc EXCEPT ![k] = label]

-----------------------------------------------------------------------------
(* The client. *)

\* Nothing is left of connection k.
Unused(k) ==
  /\ pc[k] \in {"idle", "closed"} /\ ~ hello[k] /\ ~ bye[k]
  /\ \A i \in Ids : slots[i] # k
  /\ \A c \in Clients : conn[c] # k

\* Before it connects again a client sleeps for a second, in which the server
\* has handled what it received on the client's earlier connections.
Handled(k) == pc[k] \in {"idle", "closed"} /\ ~ hello[k]

\* Connect and OnConnect: the loops end as soon as the server accepts.  That
\* of OnClose does not look at Closed again.
Connect(c, k) ==
  /\ retrying[c]
  /\ Unused(k) /\ \A j \in Conns : Unused(j) => k <= j
  /\ \A j \in Conns : owner[j] = c => Handled(j)
  /\ Goto(k, "idle")
  /\ conn' = [conn EXCEPT ![c] = k]
  /\ owner' = [owner EXCEPT ![k] = c]
  /\ retrying' = [retrying EXCEPT ![c] = FALSE]
  /\ hello' = [hello EXCEPT ![k] = TRUE]
  /\ id' = [id EXCEPT ![k] = address[c]]
  /\ answer' = [answer EXCEPT ![k] = NoId]
  /\ UNCHANGED <<slots, isListening, idLock, stopped, bye, address, closed, drops>>

ReceiveId(c) ==
  /\ conn[c] # None
  /\ answer[conn[c]] # NoId
  /\ address' = [address EXCEPT ![c] = answer[conn[c]]]
  /\ answer' = [answer EXCEPT ![conn[c]] = NoId]
  /\ UNCHANGED <<serverVars, hello, id, bye, owner, conn, retrying, closed, drops>>

\* OnClose, after the server has cut the connection.
OnClose(c) ==
  /\ conn[c] # None
  /\ pc[conn[c]] = "closed"
  /\ conn' = [conn EXCEPT ![c] = None]
  /\ retrying' = [retrying EXCEPT ![c] = ~ closed[c]]
  /\ UNCHANGED <<serverVars, packets, owner, address, closed, drops>>

\* A connection breaks: OnClose at the client, nothing at the server, which
\* may or may not have received the hello.
Drop(c) ==
  /\ drops < MaxDrops /\ drops' = drops + 1
  /\ conn[c] # None
  /\ conn' = [conn EXCEPT ![c] = None]
  /\ retrying' = [retrying EXCEPT ![c] = ~ closed[c]]
  /\ hello' \in {hello, [hello EXCEPT ![conn[c]] = FALSE]}
  /\ answer' = [answer EXCEPT ![conn[c]] = NoId]
  /\ UNCHANGED <<serverVars, id, bye, owner, address, closed>>

\* Quit, by a client whose ConnectServer has returned (API.cs:53).  Stop may
\* lose what is not yet sent.  In the loop of OnClose there is nobody to tell.
Quit(c) ==
  /\ address[c] # NoId /\ ~ closed[c]
  /\ closed' = [closed EXCEPT ![c] = TRUE]
  /\ conn' = [conn EXCEPT ![c] = None]
  /\ IF conn[c] = None
       THEN UNCHANGED <<hello, bye, answer>>
       ELSE /\ \/ UNCHANGED hello /\ bye' = [bye EXCEPT ![conn[c]] = TRUE]
               \/ UNCHANGED <<hello, bye>>
               \/ hello' = [hello EXCEPT ![conn[c]] = FALSE] /\ UNCHANGED bye
            /\ answer' = [answer EXCEPT ![conn[c]] = NoId]
  /\ UNCHANGED <<serverVars, id, owner, retrying, address, drops>>

-----------------------------------------------------------------------------
(* The server: OnReceive of the packets of connection k. *)

\* Server.Disconnect of k, and nothing more is received on it.
Cut(k) ==
  /\ Goto(k, "closed")
  /\ id' = [id EXCEPT ![k] = NoId]
  /\ hello' = [hello EXCEPT ![k] = FALSE]
  /\ bye' = [bye EXCEPT ![k] = FALSE]

Gets(k) == pc[k] = "idle" /\ hello[k]

\* An IdRequest is looked at under idLock, an IdAllocate without.
Refuse(k) ==
  /\ Gets(k)
  /\ id[k] = NoId => idLock = None
  /\ ~ isListening
  /\ Cut(k)
  /\ UNCHANGED <<slots, isListening, idLock, stopped, answer, owner, clientVars, drops>>

\* Mutant of ChooseId: nobody waits for idLock.
ChooseIdUnlocked(k) ==
  /\ Gets(k) /\ id[k] = NoId
  /\ isListening
  /\ idLock' = k
  /\ \E i \in Ids : /\ slots[i] = None
                    /\ \A j \in Ids : j < i => slots[j] # None
                    /\ id' = [id EXCEPT ![k] = i]
  /\ hello' = [hello EXCEPT ![k] = FALSE]
  /\ Goto(k, "add")
  /\ UNCHANGED <<slots, isListening, stopped, bye, answer, owner, clientVars, drops>>

\* IdRequest: the least free id.
ChooseId(k) ==
  /\ Gets(k) /\ id[k] = NoId
  /\ isListening
  /\ idLock = None /\ idLock' = k
  /\ \E i \in Ids : /\ slots[i] = None
                    /\ \A j \in Ids : j < i => slots[j] # None
                    /\ id' = [id EXCEPT ![k] = i]
  /\ hello' = [hello EXCEPT ![k] = FALSE]
  /\ Goto(k, "add")
  /\ UNCHANGED <<slots, isListening, stopped, bye, answer, owner, clientVars, drops>>

\* TryAdd, which does nothing if the id is taken, and the answer.
AddSlot(k) ==
  /\ pc[k] = "add"
  /\ slots' = [slots EXCEPT ![id[k]] = IF @ = None THEN k ELSE @]
  /\ answer' = [answer EXCEPT ![k] = id[k]]
  /\ Goto(k, "accept")
  /\ UNCHANGED <<isListening, idLock, stopped, hello, id, bye, owner, clientVars, drops>>

\* IdAllocate: the id the client had before, given back without idLock.
Readmit(k) ==
  /\ Gets(k) /\ id[k] # NoId
  /\ isListening
  /\ hello' = [hello EXCEPT ![k] = FALSE]
  /\ Goto(k, "replace")
  /\ UNCHANGED <<slots, isListening, idLock, stopped, id, bye, answer, owner, clientVars, drops>>

ReplaceSlot(k) ==
  /\ pc[k] = "replace"
  /\ slots' = [slots EXCEPT ![id[k]] = k]
  /\ Goto(k, "accept")
  /\ UNCHANGED <<isListening, idLock, stopped, packets, owner, clientVars, drops>>

\* Mutant of Return: idLock is not given back.
ReturnLocked(k) ==
  /\ Goto(k, "idle")
  /\ id' = [id EXCEPT ![k] = NoId]
  /\ UNCHANGED idLock

\* OnAccept has returned.
Return(k) ==
  /\ Goto(k, "idle")
  /\ id' = [id EXCEPT ![k] = NoId]
  /\ idLock' = IF idLock = k THEN None ELSE idLock

\* Quit: the key of the connection goes, and the connection is cut.
Leave(k) ==
  /\ pc[k] = "idle" /\ bye[k] /\ ~ hello[k]
  /\ slots' = [i \in Ids |-> IF slots[i] = k THEN None ELSE slots[i]]
  /\ bye' = [bye EXCEPT ![k] = FALSE]
  /\ Goto(k, "left")
  /\ UNCHANGED <<isListening, idLock, stopped, hello, id, answer, owner, clientVars, drops>>

ServerStep(k) ==
  \/ Refuse(k) \/ Leave(k)
  \/ ChooseId(k) \/ AddSlot(k)
  \/ Readmit(k) \/ ReplaceSlot(k)

ClientStep(c) == (\E k \in Conns : Connect(c, k)) \/ ReceiveId(c) \/ OnClose(c)

TransportStep ==
  \/ \E k \in Conns : ServerStep(k)
  \/ \E c \in Clients : ClientStep(c) \/ Drop(c) \/ Quit(c)

-----------------------------------------------------------------------------
Labels == {"idle", "add", "replace", "accept", "full", "paused", "left", "resume",
           "closed"}

\* Every variable keeps to its values.
TransportTypeOK ==
  /\ slots \in [Ids -> Conns \cup {None}]
  /\ isListening \in BOOLEAN /\ stopped \in BOOLEAN
  /\ idLock \in Conns \cup {None}
  /\ pc \in [Conns -> Labels]
  /\ hello \in [Conns -> BOOLEAN] /\ bye \in [Conns -> BOOLEAN]
  /\ id \in [Conns -> Ids \cup {NoId}] /\ answer \in [Conns -> Ids \cup {NoId}]
  /\ owner \in [Conns -> Clients]
  /\ conn \in [Clients -> Conns \cup {None}]
  /\ retrying \in [Clients -> BOOLEAN]
  /\ address \in [Clients -> Ids \cup {NoId}]
  /\ closed \in [Clients -> BOOLEAN]
  /\ drops \in 0 .. MaxDrops

\* The slot of id i is held by a connection of client c.
Holds(c, i) == slots[i] # None /\ owner[slots[i]] = c

\* A client that was told its id and has not quit is the one that is reached
\* under it: no other client is told or takes the id, through every mix of
\* requests, broken connections, reconnections and quits (IDServer.cs:45,
\* 67-75, 112).
SlotKept ==
  \A c \in Clients : ~ closed[c] /\ address[c] # NoId => Holds(c, address[c])

\* The parts of the invariant that keeps SlotKept.  A client that has quit is
\* present as long as it goes on connecting.
Present(c) == ~ closed[c] \/ retrying[c] \/ conn[c] # None

\* Whoever was told an id holds it, and so does whoever is about to be told.
ToldHold ==
  \A c \in Clients :
    /\ Present(c) /\ address[c] # NoId => Holds(c, address[c])
    /\ conn[c] # None /\ answer[conn[c]] # NoId => slots[answer[conn[c]]] = conn[c]

\* One request at a time is between the choice of an id and TryAdd, and
\* nobody takes the id meanwhile.
ChosenFree ==
  \A k \in Conns : pc[k] = "add" =>
    idLock = k /\ id[k] # NoId /\ slots[id[k]] = None

\* Who asks for an id of its own still holds it.
Asks(k) == hello[k] \/ pc[k] = "replace"

AskedHeld ==
  \A k \in Conns :
    /\ Asks(k) /\ id[k] # NoId => Holds(owner[k], id[k])
    /\ pc[k] = "replace" => id[k] # NoId

\* Only the last connection of a client has a packet on its way.
LastConnection ==
  /\ \A c \in Clients : conn[c] # None =>
       /\ owner[conn[c]] = c /\ ~ retrying[c]
       /\ \A j \in Conns \ {conn[c]} : owner[j] = c => ~ Asks(j)
  /\ \A k \in Conns : bye[k] =>
       /\ ~ Present(owner[k])
       /\ \A j \in Conns \ {k} : owner[j] = owner[k] => ~ Asks(j)

\* The invariant by which the theorems are proved.  With TryAdd and the two
\* ways into clientList it says that ids are given and taken in an order that
\* keeps them apart (IDServer.cs:39-85, 101-116).
SlotInv ==
  TransportTypeOK /\ ToldHold /\ ChosenFree /\ AskedHeld /\ LastConnection
=============================================================================
