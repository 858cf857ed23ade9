------------------------------- MODULE Players -------------------------------
(***************************************************************************)
(* What runs on a player's machine: the library CAPI (Client, SendLimit)   *)
(* and the programs of player_codes.  The programs do not meet the         *)
(* library's two threads but the server as API.h shows it, so a behaviour  *)
(* is one of the library, of its limit on commands, or of one program.     *)
(***************************************************************************)
EXTENDS Client, SendLimit, Ways

CONSTANTS
  Programs,                  \* those that are run
  Boards, Spawn,             \* Player83
  Blocks, Menus, Partnered,  \* Player88
  Edge, Sought, Cookers, Centre, \* Player105
  Orders,                    \* Player87
  Patience,                  \* Walk84
  MaxWait, Lying, max_speak, \* Player85, Partner85, Talk85
  TaskList, Born, Strides    \* Partner79, Walk79

\* A plan of places is a sequence of pairs.
ASSUME PlansAssumption ==
  /\ Edge \in Nat
  /\ Sought \in Seq(Int \X Int) /\ Cookers \in Seq(Int \X Int)

VARIABLE prog   \* what this behaviour is of

playersVars == <<vars, limitVars, prog, pc, my, world>>

-----------------------------------------------------------------------------
(* The map of the game, and that of program 79: cells that cannot be walked *)
(* through.                                                                  *)
Rectangles(s) == UNION {(r[1] .. r[2]) \X (r[3] .. r[4]) : r \in s}

\* What nobody walks through: MapInfo.
Obstacles == Rectangles({
  <<0, 0, 0, 49>>, <<49, 49, 0, 49>>, <<1, 48, 0, 0>>, <<1, 48, 49, 49>>,
  <<4, 4, 24, 24>>, <<5, 5, 5, 5>>, <<7, 7, 23, 23>>, <<7, 7, 41, 41>>, <<7, 10, 9, 14>>,
  <<8, 9, 23, 24>>, <<9, 9, 32, 32>>, <<12, 12, 19, 19>>, <<12, 17, 29, 29>>,
  <<15, 15, 24, 25>>, <<15, 15, 32, 32>>, <<16, 17, 11, 12>>, <<16, 18, 38, 38>>,
  <<18, 25, 43, 46>>, <<24, 24, 31, 35>>, <<24, 24, 39, 39>>, <<24, 25, 24, 25>>,
  <<24, 26, 9, 9>>, <<25, 25, 5, 5>>, <<25, 25, 10, 10>>, <<25, 25, 13, 13>>,
  <<25, 26, 31, 31>>, <<25, 26, 38, 38>>, <<27, 27, 18, 19>>, <<29, 29, 9, 15>>,
  <<31, 31, 41, 41>>, <<31, 32, 26, 27>>, <<32, 32, 17, 19>>, <<33, 33, 31, 39>>,
  <<33, 34, 18, 18>>, <<35, 35, 26, 26>>, <<36, 36, 27, 27>>, <<36, 36, 35, 35>>,
  <<37, 37, 28, 28>>, <<38, 38, 24, 24>>, <<40, 40, 17, 17>>, <<40, 45, 12, 12>>,
  <<41, 42, 28, 29>>, <<42, 42, 40, 40>>, <<43, 43, 6, 6>>, <<43, 43, 25, 25>>,
  <<45, 45, 35, 35>>})

\* What moveto goes round: it can only go round rectangles, so that angles and
\* the insides of others are filled.
mapmatrix == Obstacles \cup Rectangles({
  <<7, 7, 24, 24>>, <<18, 18, 15, 18>>, <<24, 26, 10, 10>>, <<24, 26, 38, 39>>,
  <<25, 26, 32, 35>>, <<26, 28, 18, 20>>, <<33, 34, 17, 19>>, <<35, 38, 24, 27>>})

-----------------------------------------------------------------------------
P83 == INSTANCE Player83
P88 == INSTANCE Player88 WITH Recipes <- Blocks
P92b == INSTANCE Player92b WITH Foods <- Given
P105 == INSTANCE Player105 WITH Foods <- Sought
P87 == INSTANCE Player87
P84 == INSTANCE Player84
W84 == INSTANCE Walk84 WITH Columns <- Width, Rows <- Height
P85 == INSTANCE Player85 WITH Foods <- Given
F85 == INSTANCE Partner85
T85 == INSTANCE Talk85
P79 == INSTANCE Player79 WITH Bringing <- Given
F79 == INSTANCE Partner79
W79 == INSTANCE Walk79

NoProgram == pc = "" /\ my = "" /\ world = ""

PlayersInit ==
  /\ Init /\ LimitInit
  /\ prog \in Programs
  /\ \/ prog \in {"client", "limit"} /\ NoProgram
     \/ prog = "83" /\ P83!Init
     \/ prog = "88" /\ P88!Init
     \/ prog = "92a" /\ P92a!Init
     \/ prog = "92b" /\ P92b!Init
     \/ prog = "105" /\ P105!Init
     \/ prog = "87" /\ P87!initialize
     \/ prog = "87path" /\ B87!Init
     \/ prog = "84" /\ P84!Init
     \/ prog = "84walk" /\ W84!Init
     \/ prog = "85" /\ P85!Init
     \/ prog = "85partner" /\ F85!Init
     \/ prog = "85talk" /\ T85!Init
     \/ prog = "85walk" /\ W85!Init
     \/ prog = "79" /\ P79!Init
     \/ prog = "79partner" /\ F79!Init
     \/ prog = "79walk" /\ W79!Init

Program ==
  \/ prog = "83" /\ P83!Next
  \/ prog = "88" /\ P88!Next
  \/ prog = "92a" /\ P92a!Next
  \/ prog = "92b" /\ P92b!Next
  \/ prog = "105" /\ P105!Next
  \/ prog = "87" /\ P87!Next
  \/ prog = "87path" /\ B87!Next
  \/ prog = "84" /\ P84!Next
  \/ prog = "84walk" /\ W84!gotoxy0
  \/ prog = "85" /\ P85!Next
  \/ prog = "85partner" /\ F85!Next
  \/ prog = "85talk" /\ T85!Next
  \/ prog = "85walk" /\ W85!GoTo
  \/ prog = "79" /\ P79!Next
  \/ prog = "79partner" /\ F79!Next
  \/ prog = "79walk" /\ W79!Next

PlayersNext ==
  /\ UNCHANGED prog
  /\ \/ prog = "client" /\ Next /\ UNCHANGED <<limitVars, pc, my, world>>
     \/ prog = "limit" /\ (Tick \/ SendCommandMessage) /\ UNCHANGED <<vars, pc, my, world>>
     \/ Program /\ UNCHANGED <<vars, limitVars>>

\* A program goes on (Going), in 84 both its threads (Marking); where it walks on
\* until it has arrived, it gets there; a food point that is visited again and
\* again has food some time; a text stands longer than the other member needs to
\* look at it (Arriving).  prog stays as it is: that a disjunction over programs
\* is fair is that the action of each program is.
OfClient(A) == prog = "client" /\ A /\ UNCHANGED <<limitVars, prog, pc, my, world>>
Of(p, A) == prog = p /\ A /\ UNCHANGED <<vars, limitVars, prog>>

Going ==
  \/ OfClient(SocketStep)
  \/ Of("83", P83!Tours) \/ Of("88", P88!Cooks) \/ Of("92a", P92a!Cooks)
  \/ Of("92b", P92b!Runs) \/ Of("87", P87!Acts) \/ Of("84", P84!play)
  \/ Of("84walk", W84!gotoxy0) \/ Of("85", P85!play) \/ Of("85partner", F85!play)
  \/ Of("85talk", T85!One) \/ Of("79", P79!play) \/ Of("79partner", F79!play)
  \/ Of("79walk", W79!Next)
Marking ==
  OfClient(Connect \/ Spin \/ Check \/ Start \/ Wait) \/ Of("84", P84!_FlushMark)
Arriving ==
  \/ OfClient(Return)
  \/ Of("92b", P92b!Arrive) \/ Of("85partner", F85!DishThere) \/ Of("85talk", T85!Two)

Plays == PlayersInit /\ [][PlayersNext]_playersVars

PlayersFairness ==
  /\ WF_playersVars(Going)
  /\ WF_playersVars(Marking)
  /\ WF_playersVars(OfClient(ReadStep(Main) /\ UNCHANGED clientVars))
  /\ SF_playersVars(Arriving)

PlayersSpec == Plays /\ PlayersFairness

-----------------------------------------------------------------------------
\* Each program comes back to what it is for, again and again, whatever fails
\* and whatever it believes meanwhile; its module says what that is.
RoundsGoOn ==
  []<> /\ prog = "83" => P83!DishBrought
       /\ prog = "88" => P88!DishDone
       /\ prog = "92a" => P92a!BackAtWork
       /\ prog = "92b" => P92b!BackInTheMiddle
       /\ prog = "87" => P87!LooksForFood
       /\ prog = "84" => P84!SetsOut
       /\ prog = "84walk" => W84!ArrivesOrTries
       /\ prog = "85" => P85!LetsGo
       /\ prog = "85partner" => F85!BringsFood
       /\ prog = "85talk" => T85!MayWork
       /\ prog = "79" => P79!SetsOut
       /\ prog = "79partner" => F79!BringsADish
       /\ prog = "79walk" => W79!Arrives

\* Member 2 of program 88 ends what it does on the cooker's side when member 1
\* tells it to, but for one command (88/player1.cpp:1469-1485).
FriendStops == prog = "88" => P88!FriendStops

\* Ways fit together: the routes of program 92 (92/player1.cpp:246-506), and the
\* paths program 87 searches, which are the shortest (87/player1.cpp:205-294);
\* program 85 steps only where it can (85/player1.cpp:1302-1422), and program 79
\* not into what it has filled on its map (79/player1.cpp:159-508).
WaysAreRight ==
  /\ prog = "92a" => P92a!RoutesMeet
  /\ prog = "87path" => B87!ShortestPath
  /\ prog = "85walk" => W85!StepsAreFree
  /\ prog = "79walk" => W79!StaysOnItsMap

\* One lost command does not make program 92 use a tool it does not mean to
\* (92/player2.cpp:34-159); program 87 starts a cooker on the dishes of what it
\* means to cook (87/player1.cpp:1154-1184), and so does program 85 where nothing
\* went wrong (85/player1.cpp:480-518); there the cook of 79 brings the dish it
\* means to (79/player2.cpp:504-757).
UsesWhatItMeans ==
  /\ prog = "92b" => P92b!UsesWhatItMeans
  /\ prog = "87" => P87!CooksWhatItMeans
  /\ prog = "85" => P85!CooksWhatItMeans
  /\ prog = "79partner" => F79!BringsWhatItMeans

\* Program 105 acts only where it lies on whole cells (105/player1.cpp:21).
ActsOnWholeCells == prog = "105" => P105!ActsOnWholeCells

\* Upwards to the right the way round an obstacle is short enough
\* (105/player1.cpp:18-31).
NeverPastItsAim == prog = "105" => P105!NeverPastItsAim
=============================================================================
