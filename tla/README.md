# THUAI3.0 in TLA+

A verification project for the THUAI3.0 game: TLA+ models of the parts of the
C# server in which threads, timers and messages meet, of the C++ client, and of
the programs that play; TLC runs on small instances, and theorems checked by
TLAPS for instances of any size.

Paths are relative to the repository; `Player.cs:380` stands for line 380 of
`src/logic/Logic.Server/Player.cs` and so on.

## 1. The system

Two or more teams of programs play a cooking game in real time. The programs
(`src/CAPI` in C++, `src/logic/Logic.Client` in C#) connect to the Agent of
their team, which passes their messages on over one TCP connection to the game
server. The server keeps a grid on which players walk, pick up and throw
things, cook on cookers and hand in dishes for tasks, and sends every client
the state of the whole board.

| Component | State | Operations | Meets others through |
|---|---|---|---|
| `MultiTaskTimer` (Logic.Server/Timer.cs) | a sorted dictionary of handlers, one one-shot `System.Timers.Timer`, its subscribers | `Add`, `Control` (after each handler) | pool threads; `privateLock` |
| `TaskSystem` (TaskSystem.cs) | `TaskQueue` (count per dish), the task list sent to clients | `TaskProduce` (timer), `AddTask`, `RemoveTask`, `HandIn` | MultiTaskTimer; hand-ins of players |
| `Cooker` (Block.cs) | `isCooking`, `Dish`, `cookingResult`, `ProtectedTeam`, two timers | `UseCooker`, `GetDish`, `Cook`, end of protection | `Player.Use`, `Player.Pick`, timer callbacks; no lock |
| `FoodPoint`, `TaskPoint`, `RubbishBin` (Block.cs) | the dish of a food point, its refresh timer | pick, refresh, hand in, throw away | `Player.Pick`, `Player.Use` |
| `Player` (Player.cs) | dish, tool, score, velocity, talent, stun and buff timers | `Move`, `Pick`, `Put`, `Use`, `UseTool`, `TouchTrigger`, `SpeakToFriend` | everything above |
| Items and triggers (Dish.cs, Tool.cs, Trigger.cs, Obj.cs) | what lies, flies or waits on the map | creation, throw, refresh, trigger | the grid |
| `GameObject` (THUnity2D) | position, velocity, `canMove`, the moving thread, a queue of operations | `Velocity`, `Move`, `Position`, `Parent`, ... | message, timer and operation threads |
| `Map` (THUnity2D) | a grid of cells, each with layers of objects and a lock | `OnChildrenMove`, `OnChildrenAdded`, `OnChildrenDelete`, `OnChildrenPositionChanged` | operation threads of all objects |
| `Server` (Server.cs) | the players, the tool refresh timer, the message loop | start, `OnRecieve`, `ToolRefresh`, end | communication |
| ID transport (`IDServer`, `IDClient`) | client list, free ids, listening or paused | id request, id allocation, packets, quit | TCP callbacks; `idLock` |
| Agent, `CommunicationImpl`, `API` | the room, tokens, the semaphore `full` | connect, start of the game, quit, resume | ID transport |
| C++ client (CAPI) | a mirror of the objects in cells with locks, `Sema`, the times of the last commands | connect, start, receive and apply a message, copy a cell, wait, send a command | the Agent; the player's program |
| Player programs (`player_codes/79` ... `111`) | what each believes: of the food at the cookers, the task list, its tool, its team mate, its way | `play`, called after each message; threads of its own (84); texts to the team mate | the C++ client; the server through it |

All messages of one team arrive over one connection and are handled one after
the other; messages of different teams are handled at the same time. No
handler of messages catches exceptions. Timers of two kinds run callbacks on
pool threads: `System.Timers.Timer` swallows their exceptions,
`System.Threading.Timer` lets them end the process. Every moving object has a
thread of its own. Shared state is guarded unevenly: score locks per team, cell
locks of the grid, `_velocityLock`, but no lock for cookers, food points and
items.

### What is hard, and what correct means

* MultiTaskTimer: calls overlap, `Add` falls between a handler and its
  `Control`, and a callback that is queued meets other subscribers than those it
  was queued for. Correct: no handler runs early, none is forgotten, the timer is
  always armed for the first. (Callbacks that meet do run handlers early, twice or
  not at all; the rest holds.)
* TaskSystem: hand-ins, expiries and production update two copies of the board
  step by step and without a lock. Correct: both agree, tasks keep their limit and
  leave after it, one task gives one score, scores do not overwrite each other,
  locks are given back. (Of these only the last two hold.)
* Cooker: callbacks of an earlier batch meet a later one, and teams pick at the
  same time. Correct: a cooker does not hang, a dish burns unless it is taken, a
  batch gives one dish, the protection holds. (The last two do not hold.)
* Map: a move takes up to a dozen locks. Correct: no deadlock, nobody in a
  wall, one player per cell, objects listed where they are, whatever is rounded.
  (Two players do end in one cell, and rounding leaves an entry behind.)
* GameObject: a thread asleep on a semaphore has to notice each start and each
  stop. Correct: no wake-up is lost.
* Items (not modelled): two players may take one thing. Correct: nothing is
  doubled and nothing vanishes.
* Effects (not modelled): stuns, buffs and glue overlap. Correct: the speed
  of a player with no effect on it is the initial one.
* Room: ids are given over an unreliable order of requests, quits and rejoins.
  Correct: an id belongs to one client, the Agent plays with a full room.
* C++ client: one thread moves objects from cell to cell while another copies
  cells; a notify that nobody waits for is lost. Correct: a copy has the objects
  that are in the cell, the mirror is the last message, the player's program is
  run again and again, the server is not flooded.
* Player programs: every command may fail, others take and bring dishes, and a
  program goes on from what it believes. Correct: a program comes back to its
  work whatever was lost (many do not quite: see below), its ways lead where
  they should, and it uses what it means to use.

`PROJECT.json` lists the hazards, each at its line.

## 2. The modules

| Module | Models | Extends |
|---|---|---|
| `MultiTaskTimer` | Timer.cs:16-113 | |
| `TaskBoard` | TaskSystem.cs:22-42, 76: the two copies of the board, access by access | |
| `TaskSystem` | TaskSystem.cs: production, expiry and hand-in as users of the board and of the timer | `MultiTaskTimer`, `TaskBoard` |
| `HandIn` | hand-ins and the score locks of Player.cs, access by access | `TaskBoard` |
| `Cooker` | Block.cs, class Cooker, with Player.Use and Player.Pick, assignment by assignment | |
| `GridMove` | Map.cs and GameObject.cs: moves, jumps, cell locks | |
| `MovingThread` | GameObject.cs:157-229: velocity and the moving thread | |
| `IDTransport` | IDServer.cs and IDClient.cs: clients, connections, ids | |
| `Room` | Agent/Program.cs: the Agent as owner of an IDServer | `IDTransport` |
| `ClientMap` | structure.cpp and the part of CAPI.cpp that applies messages | |
| `Client` | main.cpp, CAPI.cpp, API.cpp, Sema.cpp | `ClientMap` |
| `SendLimit` | CAPI.cpp, `SendCommandMessage` | |
| `Kitchen` | the server as a program meets it: hand, floor, cookers, faults | |
| `Player83`, `Player88` (with `Recipes88`), `Player92a`, `Player92b` | player_codes/83, 88, 92 | `Kitchen` |
| `Player105` | player_codes/105 | |
| `Player87`, `Paths87` | player_codes/87: the cook, and its search for a path | `Kitchen` |
| `Player84`, `Walk84` | player_codes/84: its threads, and how it walks | `Kitchen` |
| `Player85`, `Partner85`, `Talk85`, `Walk85` | player_codes/85: cook, bringer of food, their texts, how they walk | `Kitchen` |
| `Player79`, `Partner79`, `Walk79` | player_codes/79: runner, cook, how they walk | `Kitchen` |
| `Ways` | the programs that work out a way (`Player92a`, `Paths87`, `Walk85`), as `Players` runs them | instances of these |
| `Players` | all that runs at a player's: the client and the programs | `Client`, `SendLimit`, `Ways`, and instances of the other programs |
| `MC...` | the instances TLC checks (`MovingThread` and `MultiTaskTimer` need none) | the module of the name |
| `...Proofs` | the theorems (of `MultiTaskTimer` in `TaskSystemProofs`, of `Client` and `SendLimit` in `PlayersProofs`) | the module of the name, TLAPS |

Each component has its variables named after the fields of the code (`dict`,
`elapsed`, `enabled` are `dict`, the subscribers of `timer.Elapsed`,
`timer.Enabled`; `cookingResult`, `protectedTeam`, `canMove`, `permits` and so
on likewise). Where threads interleave there is a variable `pc`: a label per
thread for where it is in a method, and one action from label to label per
access to shared data. Where a method runs wholly under a lock it is one
action. Variables that no code has, to speak about the past, are marked
`history`. Definitions called "Mutant of ..." are deliberate mistakes, each of
which breaks a property; they show that the property depends on that line of
the code.

**MultiTaskTimer.** `Add` is split by its three cases: empty dictionary, behind
the head, before the head. What happens when the interval is over takes no lock
and is four steps: the timer stops running and a callback is queued (`Elapse`),
the callback looks whether the timer was disabled since (`Admit`), sets `Enabled`
to false, whatever the timer was armed for in the meantime (`Disable`), and reads
the subscribers (`Snapshot`); then the pool thread calls them one by one
(`RunHandler`, `HandlerThrows`, `RunControl`). `Add` and `Control` may fall between
any two of these steps. `timer.Enabled = false` in `Add` takes back a queued
callback, if `Enabled` was true (`Disabled`). `+=` and `-=` exchange the subscribers
one by one, so that a snapshot taken during it may have none of them or one
(`Exchange`). A throwing handler ends the call, since `System.Timers.Timer` swallows
the exception. Time is `DateTime.Now` in whole units. Deadlines of two entries
differ, as they are counted in units of 100 ns. How `System.Timers.Timer` raises
its event is the library's, modelled from what it promises: `AutoReset = false`,
one callback per interval, on any pool thread.

Callbacks that meet do harm: one that was queued by an `Add` between a handler and
its `Control` reads the *next* entry and runs it early; two that overlap run one
handler twice, and each of their `Control`s drops an entry, so that one leaves
that nobody has run. No property says otherwise. The history variable `alone`
names a callback that was queued for an entry when no other was under way and
that none has joined; `AloneInTime` is about such a one.

**TaskBoard, TaskSystem, HandIn.** `TaskBoard` has `AddTask`, `RemoveTask` and the
look of a hand-in, one step per call of the `ConcurrentDictionary` (an increment is
two) and per change of the list that clients are shown. That list is not made for
threads: of two changes that meet, either may be lost (`Meets`). The counts wrap at
`UIntMax`, as the `uint` of the code does.

In `TaskSystem` the threads are the pool of the timer, the teams that hand in and
the producer. An expiry is the closure that `AddExpiry` hands to the timer, with
the *type* of its task; `ExpiryStart` to `ExpiryEnd` run it step by step, and
`ExpiryThrows` is its exception, which is the timer's `HandlerThrows`. `open`
remembers which tasks were neither handed in nor expired, `raced` whether two
threads have ever been at the board together.

`HandIn` adds the score locks. A team is a thread (its messages are handled in
turn), a mover is a player's operation thread that steps on a mine or is hit by an
arrow. A hand-in with a Condiment (`Player.UseTool`) locks the score only to add to
it; a plain one holds the lock all along.

**Cooker.** Every assignment of `UseCooker`, `GetDish`, `Cook` and of the
callback that ends the protection is a step, and so is every second look at a
field (`CheckResult`, `NameResult`, `TimeFound`; `NotEmpty`, `Edible`,
`LookupFails`). Dishes are classes: a product of a recipe, a spiced pot, a dark
dish, an overcooked dish. All teams pick; `Users` are those that also put food on
and use the cooker. Where a cooking time is not found, a callback ends the
process (`Crash`); a message handler leaves its method (`ArmThrows`). `Prompt`
makes time stand still while a thread is inside a method: steps of seconds against
steps of microseconds.

**GridMove.** A corridor of cells with walls; players as wide as a cell. `Move`
rounds the position, as GameObject.cs:346 does, and writes the aim, `CheckBlock`
locks the cells around one by one and shortens the way, `Place` corrects position
and lists, `Unlock` gives back. `Teleport`, `Leave`, `Land`, `List` are a jump
through a SpaceGate, which takes no lock. `Area`, `Gaps`, `Legal` and `Corrected`
follow the arithmetic of Map.cs, with its conversions to `int` and its clamp at the
border. Lengths are integers, `Unit` to a cell; `Grain` of them are the sixth
decimal, and `Errors` is what the sum of two doubles may be off by. A position just
before a border of cells is listed before it and rounded onto it: the next move
then takes the player out of the cell behind the border, where it is not listed.
The history variable `carried` has the cells in which it so leaves an entry behind.

**MovingThread.** The setter of `Velocity`, from the unlocked test for the
thread to the release of the semaphore, and the loop of the moving thread.

**IDTransport and Room.** Each connection has a handler thread at the server,
with its `pc`; a hello (`IdRequest` or `IdAllocate`) and a Quit packet may be on
their way up, an id on its way down. `slots` is `clientList`. `ChooseId` and
`AddSlot` run under `idLock`, `Readmit` and `ReplaceSlot` without it. `Room`
adds what the Agent does on `OnAccept` (`Accept`, `Pause`, `Join`) and on
`InternalQuit` (`QuitUpstream`, `Resume`), in the thread of the handler. `Drop`
breaks a connection, which the server does not notice. A client sleeps for a
second before each new attempt; the model lets the server handle in that time
what it got on the old connection (`Handled`).

**ClientMap and Client.** The thread of the socket applies a message object by
object (`SelfX` to `FillTasks`): lock the old cell, leave it, write the fields in
two steps, lock the new cell, enter it; what the message lacks is deleted
without a lock. A reader copies a cell object by object under its lock. If `Delete`
takes an object out of the cell a reader is in, the iterator of the reader is
invalid, which is undefined: the reader goes astray, has copied anything, and may
come back (`ComeBack`) or keep the lock for ever. `Client` adds the connection, the
packets on their way, the answers of Agent and server (external), and main:
connect, spin until there is an id, wait for the start, wait, play. `Sema` is a
condition variable: `Notify` does something only if main is inside the wait, and
`WakeUp` is a wake-up for no reason.

**SendLimit.** The time since the last command and the two gaps before it, as
ages up to three limits; a command is sent or refused by their mean.

**The programs.** Each is modelled as a state machine whose `pc` is the state or
loop of the program, `my` its variables, `world` the server's side. The programs
with a kitchen share `Kitchen`, in which every command yields the set of worlds
it may lead to: what it should do, or, as a *fault*, nothing. Thefts, gifts,
stuns and texts of others are faults, too; a behaviour has at most `MaxFaults`.
That is what makes the liveness properties mean something: whatever is lost, and
whatever the program believes from then on, it has to find its way back.

* *83* tours food points and one cooker; `Tour` is the order of `lzrtime`, `task`
  keeps what was behind the end of a shorter list.
* *88* runs a block of instructions per dish (`Recipes88`), with `task_pro` for
  what it believes of the places beside the cookers; member 2 acts while the
  last text begins with 'm', at which it looks before each command but not on its
  way to the cooker (`FriendSetsOut`, `FriendWalks`): there it sends one command
  after another, for up to 13 seconds. `late` counts what it does once it was told
  to stop; all commands of one walk are one thing.
* *92a* is a cook that walks by dead reckoning: routes of legs, each computed
  from where the last is meant to end. *92b* is its runner, with `istool`.
* *105* walks, backs off round obstacles and acts; its coordinates count halves
  of a cell, so that truncation shows.
* *87* decides in each frame what it is at; `bag` and `cook_time` are what it
  last saw of its stoves; `change_target` moves it to another. `meddled` tells that
  others have touched the stove, or that it was changed, since the last choice of
  a dish. `Paths87` is its
  breadth-first search, from every start to every end among all sets of walls.
* *84* has four threads without locks: `play`, `_FlushMark` that decides,
  `_GetMessage` and `_FlushTask`. The decision is cleared and written in steps
  of its own, so that `play` may read a torn one. `Walk84` is `gotoxy0`: half
  steps, following walls, walking at random when that leads nowhere.
* *85* is a cook with the loops that share one counter of errors (`Player85`), a
  bringer of food with a fixed round of food points (`Partner85`), their texts
  "Stop" and "Go" with the answers (`Talk85`), and `Walk85`, the choice of each
  step by the distance left, in integers.
* *79* has a runner that spoils what others cook and robs what is done
  (`Player79`), a cook with a list of steps per dish (`Partner79`), and `Walk79`
  on the real obstacles of the game and the map the program knows by heart.

A walk is one step in the modules of the kitchen: how it goes is what the `Walk`
modules are about. `Recipes88`, `Obstacles` and `mapmatrix` of `Players` and
the tables of steps in `Partner79` are the code's data.

**Players.** The programs do not share state with the client's two threads, but
meet the server through the calls of API.h, each by itself. So `Players` is a
sum: `prog` names what a behaviour is of, and the client, its limit on commands
or one program moves. One run checks them all, with one property for each kind
of promise and in each program's module what that promise is there.

## 3. The runs

| Run | Instance | Shows |
|---|---|---|
| `timer` | 3 handlers (one may throw), 2 delays, 2 pool threads, 5 moments | `HeadSubscribed`, `AloneInTime`, `TimerInv`, `NeverStranded`; every entry leaves, unless a throwing handler is first (`EntriesDrain`) |
| `tasks_stale` | 2 tasks, 2 types, 2 pool threads, a team that hands in | violation of `TasksKeepTheirLimit`, though no two threads are ever at the board together |
| `tasks_overdue` | the same | violation of `NoOverdueTask` |
| `handin` | 1 team, its hits, expiry, 2 tasks posted, 2 dishes | `ScoresAdd`, `LockInv`, `HandInsEnd` |
| `cooker` | 2 teams that pick, one of which uses the cooker, 1 callback thread, all kinds of food, 2 batches | `NeverStuck`, `FreshWillBurn`, `CookingEnds`, `FreshDishesGo` |
| `cooker_stolen` | 2 teams that use and pick | violation of `ProtectionHolds` |
| `grid` | 2 players, 7 cells of 60 units, a grain of 3, sums off by 0 or -1, walls at both ends, a gate, an item; 3 operations and 1 | `LockInv`, `PlacedUnderLock`, `ListedWhereItStands`, `NobodyInAWall`, `OperationsEnd` |
| `grid_spot` | 2 players at a faster pace, exact sums | violation of `OnePlayerPerCell` |
| `moving` | 2 setters, 2 moving threads, 3 settings each | `MovingInv`, `NoLostWakeup`, `StartedMoves` |
| `room` | 3 players, a room of 2, 3 connections, one of which breaks | `SlotInv`, `SlotKept`, `RoomHolds`, `RoomFills` |
| `room_return` | 2 players | violation of `IdComesBack` |
| `players` | the client with the player and one more object, 2 cells, 3 messages, 1 packet on its way, 1 broken connection; a limit of 3; the programs with 1 fault each | see the next table |

| Property of `players` | Says |
|---|---|
| `MapInv` | locks, cells and objects of the mirror agree at every step (the invariant of the proofs) |
| `CopiesAgree` | a copied cell has only objects that are in it, none while its fields are written, unless a deletion led the reader astray |
| `Shown` | between messages the mirror is the last message |
| `KnowsItself` | the object taken for the player's own is its own, if no connection broke |
| `PlayGoesOn` | as long as messages are applied the program is run again and again, unless main has missed the start |
| `AtMostThree` | at most three commands in three limits, however calls are timed |
| `RoundsGoOn` | each program comes back to what it is for: 83 and 88 bring a dish, 92a is back at its cooker and 92b in the middle, 87 looks for food with empty hands, 84 sets out for something, 84 and 79 arrive on their walks (84: or try at random), in 85 the bringer is let go, brings food, and may work, in 79 the runner sets out again and the cook brings the dish it means |
| `FriendStops` | member 2 of 88 does at most one thing more after it was told to stop: a command, or its walk to the cooker |
| `WaysAreRight` | no leg of 92 begins beyond its aim; the paths of 87 are shortest ones; 85 steps only where it can; 79 stays off what its map fills in |
| `UsesWhatItMeans` | with one fault 92b uses no tool it does not mean to; 87, and without a fault 85, cook what they mean to; without a fault the cook of 79 brings what it means to |
| `ActsOnWholeCells`, `NeverPastItsAim` | 105 picks and uses only on whole cells; upwards to the right its way round obstacles is short enough |

**Bounds and why they are enough.** *Timer*: three entries are needed
for a new one before, between and behind the others while one is under way, two
pool threads for callbacks to overlap; two delays give both orders. Time ends at
`MaxTime`, and nothing is added that would be due later, so that every entry
can run. *Tasks*: both violations need no more than two tasks and one hand-in.
*HandIn*: a team, an expiry, the production and a mover who is hit
race for one entry and one score; teams meet at the board only, where an expiry
does what a second team would; a second dish meets what the first left behind;
`UIntMax = 3` lets 0 - 1 wrap. *Cooker*: two fills are the earlier batch and the
later one whose timers meet, and a second team is what meets a pick; that team
only picks, for what two teams do that both use a cooker is what the proofs are
for (its liveness with two users is not checked). Cooking takes two units, protection two (2.5 in whole units), freshness one;
in `cooker_stolen` four, five and two, so that all three differ. *Grid*: seven
cells are the fewest that `ClosedCorridor` allows with two players, walls at both
ends and jumps; they start in touch, one at a wall. A way of 11 is rounded to 12, so that two moves
take the first player onto a border, less an error of 1; and the gate leads to
just before a border (239 of 240): both ways in which rounding carries; the
third operation is what brings a player back. *Moving*: three settings are
start, stop and start again, with a stale permit in between. *Room*: a third
player is one too many; one broken connection brings a reconnection while
others ask or quit; connection numbers are used again, so that three are enough.
*Players*: two cells are the one an object leaves and the one it comes to, and
the reader is in one of them; three messages let an object come, stay away,
move, and meet the player's; the packet under way is what is lost when the
connection breaks. One fault is a single thing gone wrong at every place where
it can, and every further round has none: what is shown is that one mishap is
got over, not that any number is. Menus, task lists, orders and food are chosen
so that each block of a program is run; walls (`Mazes`) have a way through, a
trap and a single cell; `Walk79` has the real map.

`CHECK_DEADLOCK FALSE` stands everywhere: every run stops when its bounds are
used up, and a server that has died stops too. That no circle of locks keeps an
operation from ending is what `OperationsEnd` and `HandInsEnd` say.

**Fairness.** Weak fairness of the threads inside a method (the operating
system runs every thread), of armed timers and of the clock. None is assumed of
players: nobody has to move, pick, use or hand in. In `Cooker` all threads are outside the methods again and
again (`[]<>AtRest`, for a `Prompt` run), and the clock has strong fairness, because
it is disabled in between: the methods take microseconds and the units of time are
seconds, so that time passes even if players never leave the cooker alone.
In `Room` handlers run and clients go on trying to connect, as their loops do;
nobody has to quit and no connection has to break.
`HandInsEnd`, `CookingEnds`, `FreshDishesGo` and `StartedMoves` end at
`crashed`, the end of the process by an exception, which fairness cannot undo.
In `Players` each thread of the client and of a program runs on (`Going`,
`Marking`, the copying of a cell); in a behaviour of one program the action of
the disjunction is that program's. `Arriving` has strong fairness: the player's
call of `play` returns, which copying a cell disables for a while; a walk ends;
a food point that is visited again and again has food some time; and member 2 of
85 looks at its text before member 1 has changed it for ever. Nobody is assumed
to send a message, to post a task or to bring food.

### Where code and rules part

The rules are `src/赛题规则.md`.

* `tasks_stale`: a hand-in removes a task and not its expiry, which later takes
  away another task of the type before its time (TaskSystem.cs:69).
* `tasks_overdue`: a hand-in between the two writes of `AddTask` takes out of
  `TaskQueue` a task that is then added to the list of the clients; its expiry
  throws before it gets to the list, and clients are shown the task for ever
  (TaskSystem.cs:27), against `赛题规则.md:29`.
* `cooker_stolen`: the protection is tested before the dish is taken, and the
  callback of an earlier batch ends that of a later one (Player.cs:248).
* `grid_spot`: the uncorrected aim of a move is visible to other moves
  (GameObject.cs:347); two players end in one cell, against
  `src/logic/README.md:40`.
* `room_return`: a server that is paused refuses an id it still has in its list,
  so that nobody comes back to a room that was full (IDServer.cs:40), against
  IDClient.cs:59.

Met while modelling, in the models but without a run of their own: `ContainsKey`
and `RemoveTask` of a hand-in are two steps, teams hold different locks, and two
of them score for one task, or a count is lost, or goes below zero and wraps
(TaskSystem.cs:76, 33; no document says that they do not); the expiry of a task
already handed in throws, so `Control` is not called and later tasks
stay until the next `Add` (`ExpiryThrows`); callbacks of the timer that meet run
handlers early, twice or not at all (`Disable`, `Snapshot`); `RemoveTask` between `TryAdd` and
the increment of `AddTask` ends the process (`Crash` of `HandIn`); a dish
nobody asked for is gone when it is handed in (`AddScore`); `GetDish` leaves
`CookingTimer` running, so that the old callback finishes the next batch early
(`FireCook`), and a cooking time that is looked up under another team's result is
not found (`ArmThrows`); two teams that pick together both take the dish (`Take`, `Clear`);
food below 60 points that lies with a Condiment vanishes (`Gather`); a
connection that breaks before its answer arrives leaves a slot behind, and the
Agent joins the game with one player less (`Drop`, `Count`); a Quit between
`Accept` and `Pause` of another handler leaves a room closed with a place free,
or open and overfull (`Resume`); a client that quits while it is reconnecting
goes on to connect (`Connect`). In the C++ client: the notify of the first
message is lost when main is between its test of `GameRunning` and the wait, and
then main waits for ever unless it wakes for no reason (`Check`, `Start`: hence
the exception in `PlayGoesOn`); a connection that breaks in time makes the client
take another object for its player (`SelfX`); nothing is the opposite of
`PauseCommunication` (`Ignore`); `Disconnected` ends nothing but the connection.

### What goes wrong in the programs

The properties hold with the exceptions their definitions name; each is
something a program does.

* *79*: from (48.5, 48.5), one of the corners in which players are born, `moveto`
  walks up for ever, for half a cell aside is the wall (`Born` leaves it out); nor
  does it reach (33, 18), as its comment says (player1.cpp:688). The steps of
  three dishes are wrong: for TomatoFriedEggNoodle the noodle is cooked alone,
  for BeefNoodle the last Sleep is missing and CookingDish is handed in, for
  OverRice the rice is cooked first and the dish is dark (`Right`).
* *83*: `task` keeps an old entry (33); CookedRice falls through to the needs of
  Ketchup (160), and tomatoes are put on for it.
* *84*: a torn decision is read behind the end of the array (`TornDecision`);
  `State3` goes to where a dish lies and does not pick it (607), and after a
  hand-in that failed nobody writes the decision again (631); every food point
  but the first forces the player off (2445); a dish in the other's hand counts
  as one more of its own (2482), so that `State1` and `State0` may send the
  player to and fro (`ThrownBack`).
* *85*: an answer to "Stop" that is lost is lost for good, for member 1 hears the
  "Go" of before (`missed`); `error` is one counter for all loops and not reset
  where a dish was handed in (607, 772); `wait_time` goes on where the last wait
  was left (565); before a step to the left the players on the right are looked
  at (1341); half a cell beside the middle is the next cell, so that `GoTo` wants
  more room than there has to be; a search for dishes ends at the first near
  one and hides those far away (player2.cpp:208). `GoTo` may go to and fro until
  its one call in 500 at random, so that `Walk85` has no liveness.
* *87*: a search that finds no path leaves a wall free in its map (209); a stove is
  changed in the middle of a dish (641).
* *88*: where no beef is found, the noodle is forgotten instead (895), and
  BeefNoodle may never be done.
* *92*: `istool` is set whether the pick succeeded or not (player2.cpp:36), and some
  tools are never used, so that it may never pick another; two faults are enough
  for a mine under its own feet. A player stopped late sleeps for a negative
  time, which does not end.
* *105*: it may pass its aim in three of four quadrants, and then sleeps for a
  negative time, too.

## 4. What is proved

All theorems hold for every value of the constants that satisfies the ASSUMEs
of the modules (names of threads are different things, delays are positive,
bounds are natural numbers); no proof uses the bounds.

* **TaskSystemProofs**, the timer. `TimerInvariant`: `TimerInv` is inductive. The
  subscribers are the first entry and Control, but that alone does not say what a
  callback will find: `AloneInTime` follows one that meets no other, from the
  moment it is queued to the end of its calls, and must know that the first entry
  is due then. For that the timer may never be armed for a moment before the first
  deadline, and may have stopped running only when that has passed (`ArmedInTime`);
  no `Add` can put an entry before one that is due, nor share its deadline
  (`KeysDistinct`); and an `Add` that arms the timer again makes a second callback,
  with which the first is alone no more (`AloneIsAlone`). From it follow
  `HeadAlwaysSubscribed` and `AloneRunsInTime`. The lemmas on `Exchange` say what a
  snapshot may have seen half done (`ExchangeTypes`) and that a callback that is
  alone was not at it (`ExchangeAlone`).
  `TimerNeverStranded`, on top of it, is about all callbacks, overlapping or not:
  entries are left behind only by the exception of the handler that is first. The
  lemma `EarliestExists` is the least-number principle for deadlines, from the
  well-foundedness of `<`.
* **TaskSystemProofs**, the tasks. `TaskSystemUsesTimer`: every behaviour of
  `TaskSpec` is one of the timer's `Spec`, with the steps of the board as stutters
  and the end of an expiry as the run of a handler, so all of the above holds of
  it (`ExpiriesRunInTime`, `ExpiriesNeverStranded`). The two copies of the board are
  not proved to agree: they do not, as `tasks_overdue` shows.
* **HandInProofs.** `LockInvariant`: who is inside a score lock holds it and
  has read the present score; the part about reading is what makes it
  inductive. `BoardTypes` says that no access to the board, by whichever thread,
  disturbs the scores or leaves the counts' range. `NoScoreLost` follows.
* **CookerProofs.** For any number of teams, all of which may use and pick, and of
  callbacks, and whether or not time stands still while a thread is in a method.
  `TypeCorrect` and `CookerNeverStuck`: `isCooking` always has an armed timer, a
  callback that has not yet taken it back, a `UseCooker` on its way to arm, or a
  pick that is about to take it back. A `UseCooker` will arm only if it finds a
  cooking time under a result that another team may have written, so `Cooked`
  adds what a team and the result may be at each step. `FreshDishWillBurn` is
  inductive with the types: whoever makes the dish fresh has yet to look at it,
  and whoever takes the timer from it becomes one that will look.
* **GridMoveProofs.** `LockInvariant`: a thread holds cells before those it
  still has to lock, and none when it has no move under way. From it
  `NoCircleOfWaiting`: whoever holds the cell another waits for waits only for
  later ones, whatever the corridor, the moves and the number of players.
  `GridInvariant` adds `GridInv`, the geometry: a player is listed in the cell
  where its operation began and in no other but those out of which rounding has
  carried it (`ListedAt`, `Listing`); between operations it stands `Clear` of all
  walls, once what is below the sixth decimal is rounded away (`Standing`); the cells a move holds
  or still has to lock are its `Area`, which has both the cell it comes from and
  the one it gets to (`EndsBefore`, `Heading`). The three properties need
  all of it: the cells left and entered are locked because they are in the area;
  a body ends clear of walls because it began clear and every wall near its way
  is in the area and was looked at under the lock; and no other ghost stays in a
  list because the cell it is taken from is the one where its operation began, or
  the next, and then `carried` has the first. `RoundFact` says how far rounding
  moves a place, `RoundedClear` that it moves none into a wall, since the mids of
  cells are multiples of the grain.
  `PlacesUnderLock`,
  `ListedInItsCell` and `NobodyEndsInAWall` follow. A jump lands in the nearest
  cell that is free; that there is one is a pigeonhole argument (`SomeMidLegal`):
  every player, in however many cells it is listed, is in the way of two at most. The theorems assume
  `CorridorAssumption` (a sum is off by less than half of a grain) and
  `ClosedCorridor`: the ends of the corridor are walls, a cell is more than one
  unit long, its mid and its ends have less than seven decimals, players start
  clear of walls and are finitely many, and if there are jumps, there are more free
  cells than two for each player. All of it is so in the game: doubles are off by
  far less than the sixth decimal, MapInfo.cs has walls all round, the mids of
  cells end with .5, and a handful of players share some 2000 free cells.
* **MovingThreadProofs.** `MovingInvariant` adds to `VelocityAgrees` and
  `NoLostWakeup` who is inside the lock and how far, and that threads not yet
  started begin awake. `VelocityAlwaysAgrees` and `NoStartIsLost` follow.
* **PlayersProofs**, the library. `MapInvariant`: who holds the lock of a cell is at the step
  that needs it, an object is in the cell it says it is in and in no other, and
  in none while its fields are written; what the message still has to do is in
  `todo` and `objectsToDelete`, and everything else is as sent. That an object is
  never in both its own cell and another needs all of it: a copy of a cell is
  right only because the receiver cannot be inside that cell, and the receiver
  finds the object only because nothing else has moved it. Of a reader that a
  deletion has led astray it says only that it holds the lock of its cell.
  `ReadersCopyWhole`, which leaves such readers out, and
  `CellsShowTheMessage` follow. `ClientKnowsItself` needs `FirstComesFirst`: from
  the moment the Agent gives the id until the client has found its player, the
  first message is the first in the inbox that is not an id, so long as nothing
  broke. `CommandsAreLimited` is from `LimitInv`: the gaps
  the client keeps are those between the last three commands, as long as they
  are below three limits; `Shift` is the lemma on the last three.
  `PlayersUseTheLibrary`: every behaviour of `PlayersSpec` is one of `Spec` and
  of `LimitSpec`, so `PlayersSeeTheGame` has all of the above of what the run
  checks.
* **PlayersProofs**, the programs. `Program88FriendStops`: nothing the cook does but
  speak changes what its partner is told (`Same88`), and once it did something late
  the partner has no "m" in mind, and on the walk this is what it did (`LateOnce`),
  for any blocks and menus.
  `Program92UsesWhatItMeans`: `KnowsItsTool` tells what the runner holds from the
  number of faults; it may believe too much after one, but holds something else
  than it believes only after two. `Program87CooksWhatItMeans`: from the choice of
  a dish on, unless others meddled with the stove since that choice, all it is made
  of stays there (`HasItsParts`), because what is
  removed as redundant is no part of it; that the choice can be made of what is
  there is the result of the recursion of `get_synchronized_dish`, which is
  proved without induction: recipes are at most three deep (`Rank`), so four rounds
  of it give a solution (`MadeExists`), and in any solution the dishes found can be
  made, from rank to rank (`MadeSynchronized`). `Program85CooksWhatItMeans`:
  `PreparesADish` says that what is needed is always a line of its list, each of
  which is a line of the cooking table, and that a cooker used on something
  shows it from then on, so that it is not used again. What a fault, a thief or a
  robbed cooker leads to is excluded by the property, and that they are counted
  is in the lemmas on the kitchen (`Failed85`). `Program79BringsWhatItMeans`: the
  cook looks at nothing, so `GoesByItsSteps` is a chart of what it must hold and
  what must be on the cooker before each of its steps (`Course`), for the four dishes
  whose steps are right; for the others only that the cooker is off and empty at the
  end, which is what the next dish needs (`Facing`). One lemma says that the chart
  follows from the steps (`RightStepsCharted79`), the other that the actions follow
  the chart (`Program79Keeps`). `ProgramsUseWhatTheyMean` is the four together.
  `Program105NeverPast` and
  `Program105ActsOnWholeCells`: `AimInv` adds that a walk that begins a leg has
  its aim ahead in both coordinates (`AimAhead`), which the detour keeps upwards
  to the right because it leads four back and two on, and is only taken where
  the aim is farther away than that. The number of faults, the size of the map and the plan
  are free; `PlansAssumption` says that plans are sequences of pairs of integers.
* **WaysProofs** and **PlayersProofs**, the ways. `WaysWithoutMapAreRight` is
  three theorems, each from an invariant that `WaysProofs` proves of the program
  (at first, and kept by every step) and `PlayersProofs` of `PlayersSpec`.
  `Program92RoutesMeet`: the cook reckons where it is, so `Inv92a` is a chart: at
  each label it stands at one place (`Place`), and on a walk its route leads
  from where it is to the place of the label it walks to (`Leads`), each leg
  beginning where the one before ends. A route is put together from pieces by
  what is on the cookers and in its hand; each piece leads from one waypoint to
  the next, and pieces compose (`LeadsOn`), so that no choice of branches has to be
  enumerated. What food, tasks and faults do does not matter, lateness does.
  `Program87FindsShortest` is the correctness of breadth-first search, for
  any map. `Inv87Paths` says of the search that the letter of a cell visited
  leads back to one that is a step nearer (`Last87`), that no cell visited is farther
  away than there are others (`Depths87`, which keeps the count of steps within
  that of the cells), that what is next to a cell no longer queued has been
  visited (`Closed87`), that the queue holds cells by depth with at most one step
  between its ends (`Order87`), and that all that are no farther away than its
  head have been visited (`Layers87`); of the way back,
  that the letters taken so far lead from where it is to the end and are as many
  as the depths differ (`Returning87`). What is reached in n steps is a
  recursive function of n; that its equation has a solution (`ReachedSteps`),
  and that a search that has ended has visited all that is reached
  (`AllVisited`), is by the least number for which it would fail
  (`LeastNumber`), so that no induction over data is needed.
  `Program85StepsAreFree`: `StandsFree`, the player overlaps neither a wall nor
  another player; a move ends where the way is no longer free (`MoveEndsFree`: the
  number of free steps is the last of them), and the cells the program looks at
  are all that a step from a free place may touch. `GridsAssumption` says that
  mazes are sets of cells and that a map has so many columns and rows.
* **RoomProofs.** `SlotInvariant`: the slot of an id that a client was told, is
  about to be told or asks back is held by a connection of that client. It
  needs three more facts to be inductive: an id that is chosen stays free until
  `TryAdd` because of `idLock`; who asks back still holds; and a Quit packet is
  the last thing on the last connection of its client. `SlotsAreKept` and
  `IdsAreUnique` follow. `RoomAlwaysHolds` adds `Filling`: a full room that
  listens has a handler inside `idLock` that is about to pause it. The number
  of slots is followed with the library's facts on cardinality.

**Only model-checked.** The liveness properties (TLAPS has no proof rule here
for fairness and ENABLED); the part of `WaysAreRight` that is about program 79; the
violations. `StaysOnItsMap` of program 79 is not inductive, nor is it a matter of
where the program stands: at (38.5, 29), between two cells, heading left
with an aim in a lower row, it would go down along the wall into the cell
(38, 27) that its map fills in. That it is never there with such an aim is due to
the order of its aims and to the one map it has learnt by heart, so the
invariant would be the list of what is reached, which is what TLC makes. No module of the project declares a RECURSIVE operator: the recursive
definitions are functions.

## 5. What is not modelled

*In the modelled parts of the server*: the map is one-dimensional, so that the
rounding and locks of a row are there but not sliding along a wall; bounces,
triggers and changes of layer are left out; all dishes have one cooking time;
one type of dish is followed in the run of `HandIn`; equal deadlines in the timer.
*Of program 87*: the floor of `Kitchen` is a set, so that food lies at a stove once
and what `get_what_is_redundant` makes of duplicates (476-480) does not come up.

*Items and effects*: picking and putting a single thing, tools and triggers,
stuns, buffs and glue. The hazards at Player.cs:264 and Player.cs:444 are listed
without a property.

*Failures that are in the models and in no property*, for no text of the repository
says that they do not happen: the end of the process at Block.cs:111, the wall that
program 87 leaves free (209), torn decisions of 84 (412), and answers that 85 misses
(198). The liveness properties name them as exceptions; they, too, are listed as
hazards without a property.

*Server lifecycle and communication*: the start of a match and the dispatch of
messages, of which the parts above are what is concurrent; tokens, a database.

*C++ client*: chat, ping, and `Quit`, which main never comes to; what stands on
the map from the beginning (id -1) never changes and is left out. That an
iterator is used after its element was deleted is undefined behaviour: the model
has its first consequences for the reader (a copy of anything, a cell that stays
locked), not what it may do to the rest of the process.

*Player programs*: 109 and 111. Of 84 what its members tell each other: the
announcements are sampled, so that a change is told only if it is there when its
thread looks, and whoever gave way chooses anew without telling; no property of
the quiet states holds of it. (Its texts are
numbered into arrays of 1000 entries, and nothing keeps the number below that:
141, 2708.)
Of 87 and 79 the tools, of 84 the weights of one dish against another, and
everywhere what is printed.

*Parts*: the C# client API (a thin layer over `IDClient`), generated messages,
playback (file I/O), the Unity display, launcher and installer, and the
configuration, from which the modules take constants.

## 6. What could come next

1. `Items`: `Player.Pick`, `Put`, `Obj`, `Dish.GetDish`, `Tool.GetTool`: an
   abstract bag of things that are each in one place, which the detailed module
   implements for one team and not for two.
2. `Effects`: `UseTool`, stun, buffs, glue, with their timers: the speed of a
   player as the sum of the effects that are on.
3. `Match`: `CommunicationImpl` as the owner of an `IDTransport` whose clients are
   agents.
