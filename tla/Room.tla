-------------------------------- MODULE Room --------------------------------
(***************************************************************************)
(* communication/Agent/Program.cs: the Agent of a team is the IDServer of  *)
(* its players and joins the game server as soon as the room is full.      *)
(***************************************************************************)
EXTENDS IDTransport

CONSTANT Capacity   \* Constants.PlayerCount

ASSUME CapacityAssumption == Capacity \in Nat \ {0}

VARIABLE upstream   \* the Agent is connected to the game server

roomVars == <<transportVars, upstream>>

Count == Cardinality({i \in Ids : slots[i] # None})

Init == TransportInit /\ upstream = FALSE

-----------------------------------------------------------------------------
\* server.OnAccept: is the room full?
Accept(k) ==
  /\ pc[k] = "accept"
  /\ IF Count = Capacity
       THEN Goto(k, "full") /\ UNCHANGED <<idLock, id>>
       ELSE Return(k)
  /\ UNCHANGED <<slots, isListening, stopped, hello, bye, answer, owner, clientVars, drops, upstream>>

\* Mutant of Pause: the room goes on listening.
PauseListening(k) ==
  /\ pc[k] = "full"
  /\ Goto(k, "paused")
  /\ UNCHANGED <<slots, isListening, idLock, stopped, packets, owner, clientVars,
                 drops, upstream>>

Pause(k) ==
  /\ pc[k] = "full"
  /\ isListening' = FALSE
  /\ Goto(k, "paused")
  /\ UNCHANGED <<slots, idLock, stopped, packets, owner, clientVars, drops, upstream>>

\* client.Connect returns at once when the Agent is connected already.
Join(k) ==
  /\ pc[k] = "paused"
  /\ upstream' = TRUE
  /\ Return(k)
  /\ UNCHANGED <<slots, isListening, stopped, hello, bye, answer, owner, clientVars, drops>>

\* server.InternalQuit: the Agent quits, too; in client.OnDisconnect it stops
\* if nobody is left.
QuitUpstream(k) ==
  /\ pc[k] = "left"
  /\ upstream' = FALSE
  /\ IF Count = 0
       THEN /\ ~ stopped /\ stopped' = TRUE
            /\ pc' = [j \in Conns |-> "closed"]
            /\ hello' = [j \in Conns |-> FALSE] /\ bye' = hello'
       ELSE Goto(k, "resume") /\ UNCHANGED <<stopped, hello, bye>>
  /\ UNCHANGED <<slots, isListening, idLock, id, answer, owner, clientVars, drops>>

Resume(k) ==
  /\ pc[k] = "resume"
  /\ isListening' = TRUE
  /\ Goto(k, "closed")
  /\ UNCHANGED <<slots, idLock, stopped, packets, owner, clientVars, drops, upstream>>

AgentStep(k) ==
  Accept(k) \/ Pause(k) \/ Join(k) \/ QuitUpstream(k) \/ Resume(k)

Next ==
  \/ TransportStep /\ UNCHANGED upstream
  \/ \E k \in Conns : AgentStep(k)

\* The threads of the Agent run, and clients go on trying to connect; nobody
\* has to quit, and no connection has to break.
Fairness ==
  /\ \A k \in Conns :
       WF_roomVars((ServerStep(k) /\ UNCHANGED upstream) \/ AgentStep(k))
  /\ \A c \in Clients : WF_roomVars(ClientStep(c) /\ UNCHANGED upstream)

Spec == Init /\ [][Next]_roomVars
FairSpec == Spec /\ Fairness

-----------------------------------------------------------------------------
NobodyHasQuit == \A c \in Clients : ~ closed[c]

\* As long as nobody has quit, no more clients get in than there is room for,
\* and the Agent plays only with a full room that lets nobody in
\* (Program.cs:114-131).
RoomHolds ==
  NobodyHasQuit =>
    /\ Count <= Capacity
    /\ upstream => Count = Capacity /\ ~ isListening

\* Its invariant: a full room that still listens is about to be paused by the
\* handler that holds idLock, and meanwhile nobody passes ChooseId.
Filling ==
  NobodyHasQuit =>
    /\ Count <= Capacity
    /\ upstream => Count = Capacity /\ ~ isListening
    /\ isListening /\ Count = Capacity =>
         idLock # None /\ pc[idLock] \in {"accept", "full"}
    /\ \A k \in Conns :
         /\ pc[k] \notin {"left", "resume"}
         /\ pc[k] = "add" => Count < Capacity
         /\ pc[k] = "full" => Count = Capacity
         /\ pc[k] = "paused" => Count = Capacity /\ ~ isListening

\* If nobody quits, the room becomes full and the Agent joins the game
\* (Program.cs:117-120).
RoomFills == <>(upstream \/ ~ NobodyHasQuit)

\* A client whose connection broke gets its id back (IDClient.cs:59).
HasItsSlot(c) ==
  conn[c] # None /\ address[c] # NoId /\ slots[address[c]] = conn[c]

IdComesBack ==
  \A c \in Clients :
    retrying[c] /\ address[c] # NoId ~> HasItsSlot(c) \/ closed[c] \/ stopped
=============================================================================
