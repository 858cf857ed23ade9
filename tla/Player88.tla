------------------------------ MODULE Player88 ------------------------------
(***************************************************************************)
(* player_codes/88/player1.cpp, which both players of the team run.        *)
(*                                                                         *)
(* Member 1 cooks.  task_finish has a block per dish: fetch what the dish  *)
(* needs to a place beside the cooker, unless task_pro says it is there,   *)
(* clear the cooker, load it, cook, take the product, hand it in.  A block *)
(* is a sequence of instructions here (Recipes88), and task_pro, which     *)
(* lives on when a block gives up, is what is believed of the places.      *)
(* Member 2 acts only while the text it got last begins with 'm': member 1 *)
(* sends 'm' when it waits for the cooker and 'p' when it goes on.         *)
(***************************************************************************)
EXTENDS Kitchen

CONSTANTS
  Recipes,    \* task_finish: the block of each dish, see Recipes88
  Menus,      \* the dishes for which there are tasks: one set in each behaviour
  Partnered   \* the menus with which member 2 is there, too

vars == <<pc, my, world>>

Pots == {"pot0", "pot1", "pot3"}
Sides == {"side0", "side1", "side3", "store"}
Counted == {"Wheat", "Rice", "Tomato", "Egg", "Beef", "Pork", "Potato", "Lettuce",
            "Noodle", "Bread", "TomatoFriedEgg"}

InTheMiddle == {"Egg", "pot0", "side0", "commit", "store"}   \* 23 <= x <= 27

Init ==
  /\ pc = [m \in {1, 2} |-> IF m = 1 THEN "play" ELSE "go"]
  /\ \E menu \in Menus :
       my = [menu |-> menu, task |-> None, ip |-> 0, taskWait |-> 0, ending |-> FALSE,
             task_pro |-> [k \in menu |-> [d \in Counted |-> 0]],
             friend |-> menu \in Partnered, sawM |-> FALSE]
  /\ world = With([recieveText |-> "", late |-> "nothing"], NewWorld(Pots \cup Sides, Pots))

-----------------------------------------------------------------------------
Block == Recipes[my.task]
Instr == Block[my.ip]

Goto(m, l) == pc' = [pc EXCEPT ![m] = l]

\* Move_player ends within reach, or after 13 seconds; the blocks give up then.
Stop(mine) == my' = [mine EXCEPT !.ip = 0] /\ Goto(1, "play")
Jump(n, mine) ==
  IF my.ip + n > Len(Block) THEN Stop(mine)
  ELSE my' = [mine EXCEPT !.ip = @ + n] /\ Goto(1, "run")
Advance(mine) == Jump(1, mine)

\* task_pro is counted up to two here: it is only ever compared to zero.
Count(mine, d, n) ==
  [mine EXCEPT !.task_pro[my.task][d] =
     IF n = 0 THEN 0 ELSE IF @ + n > 2 THEN 2 ELSE @ + n]
Believed(d) == my.task_pro[my.task][d]

MoveNear(i) ==
  /\ i.op = "go"
  /\ \/ world' \in Go(world, i.to) /\ Advance(my)
     \/ world' \in GoWrong(world) /\ Stop(my)

MovePlayer(i) ==
  /\ i.op = "walk"
  /\ world' \in Go(world, i.to) \cup GoWrong(world)
  /\ Advance(my)

\* A block that picks again until it holds something.
PickAtSpawn(i) ==
  /\ i.op = "take"
  /\ world' \in PickFood(world, i.dish)
  /\ IF world'.hand = None THEN UNCHANGED <<pc, my>> ELSE Advance(my)

PickOnce(i) ==
  /\ i.op = "takeOnce"
  /\ world' \in PickFood(world, i.dish)
  /\ Advance(my)

PutBeside(i) ==
  /\ i.op = "stage"
  /\ world' \in Put(world, i.to)
  /\ Advance(Count(my, i.dish, 1))

PutInPot(i) ==
  /\ i.op = "throw"
  /\ world' \in Put(world, i.to)
  /\ Advance(my)

Skip(i) ==
  /\ \/ /\ i.op = "unless"
        /\ Jump(IF Believed(i.dish) = 0 THEN 1 ELSE 1 + i.skip, my)
     \/ /\ i.op = "unlessStored"
        /\ Jump(IF my.taskWait > 0 THEN 1 ELSE 1 + i.skip, my)
     \/ /\ i.op = "skip"
        /\ Jump(1 + i.skip, my)
  /\ UNCHANGED world

TakeStored(i) ==
  /\ i.op = "takeStored"
  /\ world' \in PickDish(world, "TomatoFriedEgg")
  /\ Advance([my EXCEPT !.taskWait = @ - 1])

\* Each dish on the cooker is picked and thrown beside it; what the player
\* holds goes with the first throw, or changes places with the first dish.
ClearPot(i) ==
  /\ i.op = "clear"
  /\ LET found == world.floor[i.pot]
         moved == IF found = {} /\ Shows(world, i.pot) = None THEN world
                  ELSE [world EXCEPT !.hand = None, !.floor[i.side] = @ \cup found,
                          !.floor[i.pot] = IF found = {} THEN {} ELSE Held(world)]
         moved2 == IF found = {} /\ Shows(world, i.pot) # None
                   THEN [moved EXCEPT !.floor[i.side] = @ \cup Held(world)] ELSE moved
     IN IF world.pot[i.pot].cooking THEN Stop(my) /\ UNCHANGED world
        ELSE world' \in Or(moved2, world) /\ Advance(my)

\* Pick a dish beside the cooker and throw it in; without one give up.
LoadPot(i) ==
  /\ i.op = "load"
  /\ \E w \in PickDish(world, i.dish) :
       IF w.hand = None
       THEN world' = w /\ Stop(Count(my, i.forgets, 0))
       ELSE world' \in Put(w, i.pot) /\ Advance(Count(my, i.dish, -1))

Hold(i) ==
  /\ i.op = "hold"
  /\ world' \in PickDish(world, i.dish)
  /\ IF world'.hand = None THEN Stop(Count(my, i.dish, 0)) ELSE Advance(my)

Unstage(i) ==
  /\ i.op = "unstage"
  /\ world' \in Put(world, i.to)
  /\ Advance(Count(my, i.dish, -1))

\* world.late: what member 2 has done since the last text, if it is a 'p'.
speakToFriend(w, text) == Or([w EXCEPT !.recieveText = text, !.late = "nothing"], w)

StartCooking(i) ==
  /\ i.op = "cook"
  /\ \E w \in UseCooker(world, i.pot) : world' \in speakToFriend(w, "m")
  /\ Advance(my)

\* A dish that takes long is announced with "ml" and, 11 seconds before it is
\* done, with "m" (619-622); both begin with 'm'.
SpeakAgain(i) ==
  /\ i.op = "again"
  /\ world' \in speakToFriend(world, "m")
  /\ Advance(my)

AwaitDish(i) ==
  /\ i.op = "wait"
  /\ world' \in speakToFriend(Ready(world, i.pot), "p")
  /\ Advance(my)

TakeProduct(i) ==
  /\ i.op = "collect"
  /\ \E w \in PickBlock(world, i.pot) :
       IF w.hand \in Garbage THEN world' \in ThrowAway(w) /\ Stop(my)
       ELSE world' = w /\ Advance(my)

\* The task is still posted, or not.
SubmitTask(i) ==
  /\ i.op = "submit"
  /\ \/ world' \in HandIn(world) /\ Stop(my)
     \/ UNCHANGED world /\ Advance(my)

StoreDish(i) ==
  /\ i.op = "store"
  /\ world' \in Put(world, "store")
  /\ Stop(IF my.task # "TomatoFriedEgg" \/ my.taskWait = 2 THEN my
          ELSE [my EXCEPT !.taskWait = @ + 1])

Execute ==
  /\ pc[1] = "run"
  /\ LET i == Instr IN
     \/ MoveNear(i) \/ MovePlayer(i) \/ PickAtSpawn(i) \/ PickOnce(i) \/ PutBeside(i)
     \/ PutInPot(i) \/ Skip(i) \/ TakeStored(i) \/ ClearPot(i) \/ LoadPot(i) \/ Hold(i)
     \/ Unstage(i) \/ StartCooking(i) \/ SpeakAgain(i) \/ AwaitDish(i) \/ TakeProduct(i) \/ SubmitTask(i)
     \/ StoreDish(i)

-----------------------------------------------------------------------------
\* play of member 1: the last 90 seconds have a branch of their own.
Finish(k) == my' = [my EXCEPT !.task = k, !.ip = 1] /\ Goto(1, "run")

LastSeconds ==
  /\ pc[1] = "play" /\ ~ my.ending
  /\ my' = [my EXCEPT !.ending = TRUE]
  /\ UNCHANGED <<pc, world>>

Play ==
  /\ pc[1] = "play" /\ ~ my.ending
  /\ \/ world.at \in InTheMiddle \cup {"road"} /\ Goto(1, "toStore") /\ UNCHANGED my
     \/ world.at \notin InTheMiddle /\ \E k \in my.menu : Finish(k)
  /\ UNCHANGED world

\* No dish is worth it in the time left, or one is.
PlayLast ==
  /\ pc[1] = "play" /\ my.ending
  /\ Goto(1, "toStore") /\ UNCHANGED <<my, world>>

GoToStore ==
  /\ pc[1] = "toStore"
  /\ world' \in Go(world, "store") \cup GoWrong(world)
  /\ Goto(1, "atStore") /\ UNCHANGED my

\* A dish in the store for which there is a task is picked.  Else, in the last
\* 90 seconds, checkwait has not been written: the block is run or not.
LookInStore ==
  /\ pc[1] = "atStore"
  /\ \/ \E d \in world.floor["store"] \cap my.menu :
          world' \in PickDish(world, d) /\ Goto(1, "deliver") /\ UNCHANGED my
     \/ UNCHANGED world /\ \E k \in my.menu : Finish(k)
     \/ my.ending /\ Goto(1, "play") /\ UNCHANGED <<my, world>>

\* After the hand-in PlayerInfo may still show the dish (1454).
Deliver ==
  /\ pc[1] = "deliver"
  /\ \/ world' \in HandIn([world EXCEPT !.at = "commit"])
        /\ my' \in {my} \cup
             (IF world.hand = "TomatoFriedEgg" /\ ~ my.ending /\ my.taskWait > 0
              THEN {[my EXCEPT !.taskWait = @ - 1]} ELSE {})
     \/ world' \in Put([world EXCEPT !.at = "store"], "store") /\ UNCHANGED my
  /\ Goto(1, "play")

-----------------------------------------------------------------------------
\* Member 2: before most of its commands it waits for a text with 'm' first.
SeeText ==
  /\ my.friend /\ pc[2] \in {"go", "pick", "set out", "put", "use"}
  /\ ~ my.sawM /\ world.recieveText = "m"
  /\ my' = [my EXCEPT !.sawM = TRUE]
  /\ UNCHANGED <<pc, world>>

\* It sends a command, or one of a walk: all those of a walk are one thing.
Does(what) ==
  world' = [world EXCEPT !.late =
    IF world.recieveText # "p" \/ (@ = "walk" /\ what = "walk") THEN @
    ELSE IF @ = "nothing" THEN what ELSE "more"]

\* Mutant of Gated: the text is not waited for.
Ungated(from) ==
  /\ my.friend /\ pc[2] = from
  /\ my' = [my EXCEPT !.sawM = FALSE]
  /\ Does("command")

Gated(from) ==
  /\ my.friend /\ my.sawM /\ pc[2] = from
  /\ my' = [my EXCEPT !.sawM = FALSE]
  /\ Does("command")

\* Move_player_1 to the potatoes: one command after another.
FriendMoves == Gated("go") /\ (Goto(2, "go") \/ Goto(2, "pick"))
FriendPicks == Gated("pick") /\ (Goto(2, "pick") \/ Goto(2, "set out"))

\* Before the way to the cooker it looks at the text (1474), and on the way,
\* which takes up to 13 seconds, it does not: Move_player sends command after
\* command.
FriendSetsOut ==
  /\ my.friend /\ my.sawM /\ pc[2] = "set out"
  /\ my' = [my EXCEPT !.sawM = FALSE]
  /\ Goto(2, "walk") /\ UNCHANGED world

FriendWalks ==
  /\ my.friend /\ pc[2] = "walk"
  /\ Does("walk")
  /\ Goto(2, "walk") \/ Goto(2, "look")
  /\ UNCHANGED my

\* The list is a copy: if its first object cooks, the loop never ends.
FriendLooks ==
  /\ my.friend /\ pc[2] = "look"
  /\ Goto(2, "put") \/ Goto(2, "stuck")
  /\ UNCHANGED <<my, world>>
FriendPuts == Gated("put") /\ Goto(2, "use")
FriendUses == Gated("use") /\ Goto(2, "go")

Friend ==
  \/ SeeText \/ FriendMoves \/ FriendPicks \/ FriendSetsOut \/ FriendWalks \/ FriendLooks
  \/ FriendPuts \/ FriendUses

Theft == world' \in Taken(world) /\ UNCHANGED <<pc, my>>

Cooks ==
  \/ Execute \/ Play \/ PlayLast \/ GoToStore \/ LookInStore \/ Deliver

Next == Cooks \/ LastSeconds \/ Friend \/ Theft

-----------------------------------------------------------------------------
\* A dish that is done is brought to the task point or to the store.
Brings ==
  \/ pc[1] = "run" /\ world.hand = my.task /\ Instr.op = "submit"
  \/ pc[1] = "deliver" /\ world.hand \in my.menu

\* Infinitely often: whatever was lost or stolen and whatever the program
\* believes of it, it cooks dishes again and again; except beef noodles, and in
\* the last 90 seconds.
DishDone == Brings \/ my.ending \/ "BeefNoodle" \in my.menu

\* Member 2 reads the text and then acts, so one thing may come after a 'p',
\* and only one: a command, or its walk to the cooker, which sends many.
FriendStops == world.late # "more"

\* Its strengthening: after that it has no text with 'm' in mind, and a walk it
\* is still on is what it does.
LateOnce ==
  /\ {"recieveText", "late"} \subseteq DOMAIN world /\ "sawM" \in DOMAIN my
  /\ DOMAIN pc = {1, 2} /\ (pc[2] = "walk" => ~ my.sawM)
  /\ \/ world.late = "nothing"
     \/ /\ world.late \in {"command", "walk"} /\ world.recieveText = "p" /\ ~ my.sawM
        /\ pc[2] = "walk" => world.late = "walk"
=============================================================================
