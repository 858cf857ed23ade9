------------------------------- MODULE Client -------------------------------
(***************************************************************************)
(* The C++ client, CAPI/src: main.cpp, CAPI.cpp, API.cpp, Sema.cpp.        *)
(*                                                                         *)
(* The main thread connects to the Agent, waits for an id and for the      *)
(* first message, and then runs the player's program over and over, each   *)
(* time after a message.  The thread of the socket answers what the Agent  *)
(* sends, wakes the main thread and connects again when the connection     *)
(* breaks.  Sema is a condition variable with nothing to remember a        *)
(* notify: one that comes before the wait is lost.                         *)
(*                                                                         *)
(* The program is any sequence of the calls of API.h, from the main        *)
(* thread.  GameRunning is never set back, so that main never comes to     *)
(* Quit; AgentId is 0 from the beginning, and PingPacket, AgentId and      *)
(* ChatMessage change nothing that is modelled.                            *)
(***************************************************************************)
EXTENDS ClientMap, Sequences

CONSTANTS
  Main,       \* the main thread
  NoId,       \* PlayerId: -1
  Id,         \* what the Agent gives this client
  Self,       \* the id of the player's object
  MaxInbox,   \* bound: packets on their way down
  MaxDrops    \* bound: how often the connection breaks

ASSUME ClientAssumption ==
  /\ Readers = {Main} /\ Self \in Objects
  /\ Id \in 0 .. 10 /\ NoId = -1
  /\ MaxInbox \in Nat /\ MaxDrops \in Nat
  /\ \A m \in Messages : m[Self] # Absent

VARIABLES
  mpc,          \* where main is
  link,         \* the connection: "down", "up", or "lost" before OnClose
  hello,        \* what OnConnect has sent and the Agent not answered: the id
                \* in an IdAllocate, NoId for an IdRequest, Absent for nothing
  inbox,        \* the packets on their way down
  served,       \* the server has sent the first message, which has only Self
  drops,
  Closed, PlayerId, PauseUpdate, GameRunning

linkVars == <<link, hello, inbox, served, drops>>
flags == <<Closed, PlayerId, PauseUpdate, GameRunning>>
clientVars == <<mpc, linkVars, flags>>
vars == <<mapVars, clientVars>>

\* The first message to each client (logic/Logic.Server/Server.cs:54-72).
First(m) == \A o \in Objects \ {Self} : m[o] = Absent

Init ==
  /\ MapInit
  /\ mpc = "connect"
  /\ link = "down" /\ hello = Absent /\ inbox = <<>> /\ served = FALSE /\ drops = 0
  /\ Closed = FALSE /\ PlayerId = NoId /\ PauseUpdate = FALSE /\ GameRunning = FALSE

Packet(t) == [type |-> t]
Proto(m) == [type |-> "ProtoPacket", message |-> m]

-----------------------------------------------------------------------------
(* The Agent and the network: external. *)

\* An id for an IdRequest; who asks for its old one gets it without an answer.
AgentAnswers ==
  /\ link = "up" /\ hello # Absent
  /\ inbox' = IF hello = NoId THEN Append(inbox, Packet("IdAllocate")) ELSE inbox
  /\ hello' = Absent
  /\ UNCHANGED <<mapVars, mpc, link, served, drops, flags>>

\* The server sends every client its first message and then, again and again,
\* all there is.  What it sends to a client that is away is lost.
ServerSends(m) ==
  /\ served \/ First(m)
  /\ link = "up" => Len(inbox) < MaxInbox
  /\ PlayerId # NoId
  /\ served' = TRUE
  /\ inbox' = IF link = "up" /\ hello = Absent THEN Append(inbox, Proto(m)) ELSE inbox
  /\ UNCHANGED <<mapVars, mpc, link, hello, drops, flags>>

\* The game is over: IDServer.Stop.
ServerStops ==
  /\ link = "up" /\ hello = Absent /\ served /\ Len(inbox) < MaxInbox
  /\ inbox' = Append(inbox, Packet("Disconnected"))
  /\ UNCHANGED <<mapVars, mpc, link, hello, served, drops, flags>>

Break ==
  /\ link = "up" /\ drops < MaxDrops
  /\ link' = "lost" /\ hello' = Absent /\ inbox' = <<>>
  /\ drops' = drops + 1
  /\ UNCHANGED <<mapVars, mpc, served, flags>>

-----------------------------------------------------------------------------
(* The thread of the socket. *)

\* OnConnect asks for an id, or for the one the client has.
OnConnect == link' = "up" /\ hello' = PlayerId

\* The loop of OnClose; a client that has closed the connection stays away.
OnClose ==
  /\ link = "lost" /\ rpc = "idle"
  /\ IF Closed THEN link' = "down" /\ UNCHANGED hello ELSE OnConnect
  /\ UNCHANGED <<mapVars, mpc, inbox, served, drops, flags>>

Receives(t) ==
  /\ rpc = "idle" /\ inbox # <<>>
  /\ Head(inbox).type = t
  /\ inbox' = Tail(inbox)

\* THUAI3::PauseCommunication has no opposite: ResumeCommunication is declared
\* and not defined.
Ignore ==
  /\ PauseUpdate
  /\ \E t \in {"IdAllocate", "Disconnected", "ProtoPacket"} : Receives(t)
  /\ UNCHANGED <<mapVars, mpc, link, hello, served, drops, flags>>

ReceiveId ==
  /\ ~ PauseUpdate
  /\ Receives("IdAllocate")
  /\ PlayerId' = Id
  /\ UNCHANGED <<mapVars, mpc, link, hello, served, drops, Closed, PauseUpdate, GameRunning>>

\* Disconnect: nobody tells the main thread.
ReceiveDisconnected ==
  /\ ~ PauseUpdate
  /\ Receives("Disconnected")
  /\ Closed' = TRUE
  /\ link' = "lost"
  /\ UNCHANGED <<mapVars, mpc, hello, served, drops, PlayerId, PauseUpdate, GameRunning>>

\* OnReceive and the beginning of UpdateInfo: at the first message the game
\* begins.  (The talent is sent, too: module SendLimit.)
ReceiveMessage ==
  /\ ~ PauseUpdate
  /\ Receives("ProtoPacket")
  /\ SelfX(Head(inbox).message)
  /\ IF selfId = Absent
       THEN /\ GameRunning' = TRUE
            /\ mpc' = IF mpc = "start" THEN "check" ELSE mpc
       ELSE UNCHANGED <<GameRunning, mpc>>
  /\ UNCHANGED <<link, hello, served, drops, Closed, PlayerId, PauseUpdate>>

Apply ==
  /\ ApplyStep
  /\ UNCHANGED clientVars

\* Mutant of Notify: nobody waits for the last message's notify.
NotifyNobody ==
  /\ Goto("notify", "idle")
  /\ UNCHANGED <<objList, objMap, mutexMap, selfId, position, message, current,
                 todo, objectsToDelete, reader, clientVars>>

\* sema.notify wakes the main thread if it waits, and does nothing if not.
Notify ==
  /\ Goto("notify", "idle")
  /\ mpc' = IF mpc = "wait" THEN "play" ELSE mpc
  /\ UNCHANGED <<objList, objMap, mutexMap, selfId, position, message, current,
                 todo, objectsToDelete, reader, linkVars, flags>>

-----------------------------------------------------------------------------
(* The main thread. *)

MainGoto(from, to) == mpc = from /\ mpc' = to

Connect ==
  /\ MainGoto("connect", "spin")
  /\ link = "down" /\ OnConnect
  /\ UNCHANGED <<mapVars, inbox, served, drops, flags>>

Spin ==
  /\ PlayerId # NoId
  /\ MainGoto("spin", "check")
  /\ UNCHANGED <<mapVars, linkVars, flags>>

\* while (!GameRunning)
Check ==
  /\ MainGoto("check", IF GameRunning THEN "loop" ELSE "enter")
  /\ UNCHANGED <<mapVars, linkVars, flags>>

\* start_game_sema.wait: from here on a notify is heard.
Start ==
  /\ MainGoto("enter", "start")
  /\ UNCHANGED <<mapVars, linkVars, flags>>

\* THUAI3::wait
Wait ==
  /\ MainGoto("loop", "wait")
  /\ UNCHANGED <<mapVars, linkVars, flags>>

\* A condition variable may wake without a notify.
WakeUp ==
  /\ MainGoto("wait", "play") \/ MainGoto("start", "check")
  /\ UNCHANGED <<mapVars, linkVars, flags>>

\* The one call of API.h but wait that touches what the two threads share.
GetMapcell ==
  /\ mpc = "play"
  /\ ReadStep(Main) \/ ComeBack(Main) \/ \E c \in Cells : Look(Main, c)
  /\ UNCHANGED clientVars

PauseCommunication ==
  /\ mpc = "play" /\ reader[Main].pc = "out"
  /\ PauseUpdate' = TRUE
  /\ UNCHANGED <<mapVars, mpc, linkVars, Closed, PlayerId, GameRunning>>

Return ==
  /\ reader[Main].pc = "out"
  /\ MainGoto("play", "loop")
  /\ UNCHANGED <<mapVars, linkVars, flags>>

-----------------------------------------------------------------------------
SocketStep ==
  \/ OnClose \/ Ignore \/ ReceiveId \/ ReceiveDisconnected \/ ReceiveMessage
  \/ Apply \/ Notify

MainStep ==
  \/ Connect \/ Spin \/ Check \/ Start \/ Wait
  \/ GetMapcell \/ Return

Next ==
  \/ AgentAnswers \/ ServerStops \/ Break
  \/ \E m \in Messages : ServerSends(m)
  \/ SocketStep \/ MainStep
  \/ WakeUp \/ PauseCommunication

\* Both threads run, and play returns; nobody has to send anything.
Fairness ==
  /\ WF_vars(SocketStep)
  /\ WF_vars(Connect \/ Spin \/ Check \/ Start \/ Wait)
  /\ WF_vars(ReadStep(Main) /\ UNCHANGED clientVars)
  /\ SF_vars(Return)

Spec == Init /\ [][Next]_vars
FairSpec == Spec /\ Fairness

-----------------------------------------------------------------------------
\* The player whose position the client goes by is its own, unless the first
\* message was lost (CAPI.cpp:229-232, Logic.Server/Server.cs:43).
KnowsItself == drops = 0 => selfId \in {Self, Absent}

\* Its strengthening: while the connection holds, nothing gets lost on the way
\* to the client from the moment it has an id; so, until it knows itself, the
\* first message comes first of all that is not an id.
Begun(s) ==
  \E j \in 1 .. Len(s) :
    /\ s[j].type = "ProtoPacket" /\ First(s[j].message)
    /\ \A k \in 1 .. j - 1 : s[k].type = "IdAllocate"

OnlyIds(s) == \A i \in 1 .. Len(s) : s[i].type = "IdAllocate"
Waiting == IF served THEN Begun(inbox) ELSE OnlyIds(inbox)

FirstComesFirst ==
  /\ drops \in Nat
  /\ mpc = "connect" => link = "down" /\ hello = Absent /\ inbox = <<>> /\ PlayerId = NoId
  /\ mpc \in {"loop", "wait", "play"} \/ GameRunning \/ PauseUpdate \/ Closed =>
       drops > 0 \/ selfId # Absent
  /\ drops = 0 /\ ~ Closed =>
       /\ mpc # "connect" => link = "up"
       /\ PlayerId # NoId \/ inbox # <<>> => hello = Absent
  /\ drops = 0 /\ selfId = Absent => Waiting

\* As long as messages come the program is run again and again, although
\* notifies get lost while it runs, unless the main thread has missed the
\* start (main.cpp:53-62).
PlayGoesOn ==
  []<>(rpc = "notify") => []<>(mpc = "play") \/ <>[](mpc = "start")
=============================================================================
