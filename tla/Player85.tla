------------------------------ MODULE Player85 ------------------------------
(***************************************************************************)
(* player_codes/85/player1.cpp: the member of team 85 that cooks.  Its     *)
(* partner (Partner85) throws food to a spot beside the cooker; the two    *)
(* tell each other to stop and to go on (Talk85), of which only the flag   *)
(* stop is here.                                                           *)
(*                                                                         *)
(* pc is the flag of play, or the loop it is in under a flag: a loop tries *)
(* until error, a counter that all loops share, is at its limit.           *)
(* Positions are the spot, the cooker ("pot"), a dustbin, and the road,    *)
(* from where the kitchen is out of sight; a walk (Walk85) is one step.    *)
(***************************************************************************)
EXTENDS Kitchen

CONSTANTS
  Foods,   \* the food that is brought
  MaxWait  \* bound: max_wait_time, in rounds of the wait

max_error == 3

\* What is made of what is in sight: the first that can be, unless that is there;
\* without those whose food has no food point.
Recipes == <<
  [need |-> <<"Tomato", "Egg">>, unless |-> {}],
  [need |-> <<"TomatoFriedEgg", "Noodle">>, unless |-> {}],
  [need |-> <<"Beef", "Noodle">>, unless |-> {}],
  [need |-> <<"Pork", "Potato", "Rice">>, unless |-> {}],
  [need |-> <<"Lettuce", "Pork">>, unless |-> {}],
  [need |-> <<"Potato", "Ketchup">>, unless |-> {}],
  [need |-> <<"Beef", "Lettuce", "Bread">>, unless |-> {}],
  [need |-> <<"Wheat">>, unless |-> {}],
  [need |-> <<"Tomato">>, unless |-> {"Ketchup"}],
  [need |-> <<"Rice">>, unless |-> {"CookedRice"}],
  [need |-> <<"Flour">>, unless |-> {"Noodle"}],
  [need |-> <<"Flour", "Egg">>, unless |-> {"Bread"}] >>

\* Tools: what lies about (lies) and what it has (tool).  It uses a buff at once;
\* a bow it keeps for the enemies.
ToolEmpty == "ToolEmpty"
Tools == {"SpeedBuff", "Bow"}
useTool(w) ==
  IF w.tool = "SpeedBuff" THEN Or([w EXCEPT !.tool = ToolEmpty], w) ELSE {w}

Elements(s) == {s[i] : i \in DOMAIN s}

findDish(w) == IF w.at = "road" THEN {} ELSE w.floor["spot"] \cup w.floor["pot"]
CanDo(w) == {i \in DOMAIN Recipes : /\ Elements(Recipes[i].need) \subseteq findDish(w)
                                    /\ Recipes[i].unless \cap findDish(w) = {}}

\* Start and DecideWhereToCook; what others left may lie on the cooker.
Init ==
  /\ pc = "GoToCooker"
  /\ my = [stop |-> TRUE, last_flag |-> "Start", error |-> 0, wait_time |-> 0,
           needThings |-> <<>>, needThings_back |-> {}, aim |-> "spot", dish |-> None]
  /\ \E stray \in SUBSET Foods, t \in BOOLEAN, lies \in Tools :
       LET w == NewWorld({"spot", "pot"}, {"pot"}) IN
       world = [at |-> w.at, hand |-> w.hand, faults |-> w.faults, pot |-> w.pot,
                floor |-> [w.floor EXCEPT !["pot"] = stray],
                task_list |-> IF t THEN {"TomatoFriedEgg"} ELSE {},
                lies |-> lies, tool |-> ToolEmpty]

Goto(flag, mine) == pc' = flag /\ my' = mine

-----------------------------------------------------------------------------
\* Before what the flag says, in most of its values: a dish of a task lies
\* about, or a tool.
Interruptible == {"GoToCooker", "DecideWhichToCook", "DecideWhichToPut", "GoToPutDishToCooker",
  "PutDishToCooker", "CheckCooker", "Cooking", "WaitCookFinish", "ThrowToDustbin"}
SeesTask == findDish(world) \cap world.task_list # {}
SeesTool == world.tool = ToolEmpty /\ world.lies # ToolEmpty /\ world.at # "road"
Interrupted(flag) ==
  Goto(flag, [my EXCEPT !.stop = TRUE, !.last_flag =
                IF pc = "WaitCookFinish" THEN "ReturnToWait" ELSE "GoToCooker"])

FindTaskDish ==
  /\ pc \in Interruptible /\ SeesTask
  /\ \E d \in findDish(world) \cap world.task_list :
     \E p \in {q \in {"spot", "pot"} : d \in world.floor[q]} :
       /\ pc' = "GoingToPickDishToHand"
       /\ my' = [my EXCEPT !.stop = TRUE, !.dish = d, !.aim = p, !.last_flag =
                   IF pc = "WaitCookFinish" THEN "ReturnToWait" ELSE "GoToCooker"]
  /\ UNCHANGED world

FindTool ==
  /\ pc \in Interruptible /\ ~ SeesTask /\ SeesTool
  /\ Interrupted("PickAndUseTool") /\ UNCHANGED world

\* Every call begins with an attack if an enemy is near, and with the use of a
\* tool that could not be used before.
Loops == {"pickToPut", "pickToHand", "putting", "using", "takeDish", "dropDish"}
Attack ==
  /\ pc \notin Loops /\ world.tool = "Bow"
  /\ world' \in Or([world EXCEPT !.tool = ToolEmpty], world) /\ UNCHANGED <<pc, my>>
UseAgain ==
  /\ pc \notin Loops /\ world.tool = "SpeedBuff"
  /\ world' \in useTool(world) /\ UNCHANGED <<pc, my>>

At(flag) == pc = flag /\ (flag \in Interruptible => ~ SeesTask /\ ~ SeesTool)

\* It walks until it is near, and then does what the flag says.
GoTo(flag, place) ==
  /\ At(flag) /\ world.at # place
  /\ world' \in Go(world, place) /\ UNCHANGED <<pc, my>>

-----------------------------------------------------------------------------
\* One try of a loop; w is what it led to.
Try(w, loop, failed) ==
  /\ world' = w
  /\ IF my.error + 1 >= max_error THEN Goto(failed, [my EXCEPT !.error = 0])
     ELSE Goto(loop, [my EXCEPT !.error = @ + 1])

PickLoop(flag, done, failed) ==
  /\ pc = flag
  /\ IF world.hand = my.dish THEN Goto(done, [my EXCEPT !.error = 0]) /\ UNCHANGED world
     ELSE \E w \in PickDish(world, my.dish) : Try(w, flag, failed)

-----------------------------------------------------------------------------
\* Near enough, and with nothing in the way; what keeps it from there is a fault.
put(w, p) == IF w.hand = None THEN {w} ELSE Put(w, p)
isCooking(w) == Shows(w, "pot") # None

GoToCooker ==
  /\ At("GoToCooker") /\ world.at = "pot"
  /\ Goto("DecideWhichToCook", [my EXCEPT !.stop = TRUE]) /\ UNCHANGED world

\* What is held is thrown to the spot, or not; then it looks what can be made.
DecideWhichToCook ==
  /\ At("DecideWhichToCook")
  /\ \E w \in put(world, "spot") :
       /\ world' = w
       /\ IF CanDo(w) = {}
          THEN Goto("DecideWhichToCook", [my EXCEPT !.error = 0, !.stop = FALSE])
          ELSE LET r == Recipes[CHOOSE i \in CanDo(w) : \A j \in CanDo(w) : i <= j] IN
               Goto("DecideWhichToPut",
                    [my EXCEPT !.error = 0, !.stop = TRUE, !.needThings = r.need,
                               !.needThings_back = Elements(r.need)])

Last(s) == s[Len(s)]
DecideWhichToPut ==
  /\ At("DecideWhichToPut")
  /\ IF my.needThings = <<>> THEN Goto("CheckCooker", my)
     ELSE LET d == Last(my.needThings) IN
          IF d \notin findDish(world) THEN Goto("DecideWhichToCook", my)
          ELSE \E p \in {q \in {"spot", "pot"} : d \in world.floor[q]} :
                 Goto("GoToPutDishToCooker",
                      [my EXCEPT !.dish = d, !.aim = p,
                                 !.needThings = SubSeq(@, 1, Len(@) - 1)])
  /\ UNCHANGED world

GoToPutDishToCooker ==
  /\ At("GoToPutDishToCooker") /\ world.at = my.aim
  /\ Goto("pickToPut", my) /\ UNCHANGED world

PutDishToCooker ==
  /\ pc = "putting" \/ At("PutDishToCooker")
  /\ IF world.hand = None
     THEN Goto("DecideWhichToPut", [my EXCEPT !.error = 0]) /\ UNCHANGED world
     ELSE \E w \in put(world, "pot") : Try(w, "putting", "DecideWhichToCook")

\* What is not needed is thrown from the cooker to the spot, as far as it can be
\* picked; then all that is needed has to be there.
Others(w) == w.floor["pot"] \ my.needThings_back
Cleared(w) ==
  Or([w EXCEPT !.floor["pot"] = @ \cap my.needThings_back,
               !.floor["spot"] = @ \cup Others(w)], w)
CheckCooker ==
  /\ At("CheckCooker") /\ world.at = "pot"
  /\ \E w \in IF Others(world) = {} THEN {world} ELSE Cleared(world) :
       /\ world' = w
       /\ Goto(IF my.needThings_back \subseteq w.floor["pot"]
               THEN "Cooking" ELSE "DecideWhichToCook", my)

Cooking ==
  /\ pc = "using" \/ (At("Cooking") /\ world.at = "pot")
  /\ IF isCooking(world)
     THEN Goto("WaitCookFinish", [my EXCEPT !.error = 0]) /\ UNCHANGED world
     ELSE \E w \in UseCooker(world, "pot") : Try(w, "using", "DecideWhichToCook")

-----------------------------------------------------------------------------
\* The wait: the friend may go on, until the dish is done.  wait_time goes on
\* from where the last wait left it when the dish was gone (565).
WaitCookFinish ==
  /\ At("WaitCookFinish")
  /\ LET mine == [my EXCEPT !.stop = FALSE, !.wait_time = IF @ < MaxWait THEN @ + 1 ELSE @] IN
     \/ /\ ~ isCooking(world)
        /\ Goto("DecideWhichToCook", mine) /\ UNCHANGED world
     \/ /\ Shows(world, "pot") \notin {None, "CookingDish"}
        /\ Goto("takeDish", [mine EXCEPT !.stop = TRUE]) /\ UNCHANGED world
     \/ /\ Shows(world, "pot") = "CookingDish"
        /\ IF mine.wait_time >= MaxWait
           THEN Goto("ThrowToDustbin", [mine EXCEPT !.wait_time = 0])
                /\ world' \in PickBlock(world, "pot")
           ELSE Goto("WaitCookFinish", mine) /\ UNCHANGED world

\* What was picked is handed in if there is such a task; error goes with it.
TakeDish ==
  /\ pc = "takeDish"
  /\ \/ /\ world.hand = None
        /\ \E w \in PickBlock(world, "pot") :
             /\ world' = w
             /\ IF my.error + 1 >= max_error
                THEN Goto("DecideWhichToCook", [my EXCEPT !.error = 0, !.wait_time = 0])
                ELSE Goto("takeDish", [my EXCEPT !.error = @ + 1])
     \/ /\ world.hand \in world.task_list
        /\ Goto("GoingToTaskPoint", [my EXCEPT !.wait_time = 0, !.last_flag = "GoToCooker",
                                               !.dish = world.hand])
        /\ UNCHANGED world
     \/ /\ world.hand \notin {None} \cup world.task_list
        /\ Goto("dropDish", my) /\ UNCHANGED world

DropDish ==
  /\ pc = "dropDish"
  /\ IF world.hand = None
     THEN /\ Goto("DecideWhichToCook", [my EXCEPT !.error = 0, !.wait_time = 0])
          /\ UNCHANGED world
     ELSE \E w \in put(world, "spot") :
            /\ world' = w
            /\ IF my.error + 1 >= max_error
               THEN Goto("DecideWhichToCook", [my EXCEPT !.error = 0, !.wait_time = 0])
               ELSE Goto("dropDish", [my EXCEPT !.error = @ + 1])

ThrowToDustbin ==
  /\ At("ThrowToDustbin") /\ world.at = "bin"
  /\ world' \in IF world.hand = None THEN {world} ELSE ThrowAway(world)
  /\ Goto(IF world'.hand = None THEN "GoToCooker" ELSE "ThrowToDustbin", my)

-----------------------------------------------------------------------------
GoingToPickDishToHand ==
  /\ At("GoingToPickDishToHand") /\ world.at = my.aim
  /\ Goto("pickToHand", my) /\ UNCHANGED world

GoingToTaskPoint ==
  /\ At("GoingToTaskPoint")
  /\ world' \in Go(world, "road") /\ Goto("HandingTask", my)

\* error is not reset where the dish was handed in (772).
HandingTask ==
  /\ pc = "HandingTask"
  /\ IF world.hand = None THEN Goto(my.last_flag, my) /\ UNCHANGED world
     ELSE \E w \in HandIn(world) : Try(w, "HandingTask", my.last_flag)

ReturnToWait ==
  /\ At("ReturnToWait") /\ world.at = "pot"
  /\ Goto("WaitCookFinish", my) /\ UNCHANGED world

PickAndUseTool ==
  /\ pc = "PickAndUseTool"
  /\ world' \in UNION {useTool(w) : w \in
       Or([world EXCEPT !.tool = world.lies, !.lies = ToolEmpty], world)}
  /\ Goto(my.last_flag, my)

play ==
  \/ FindTaskDish \/ FindTool \/ Attack \/ UseAgain
  \/ \E f \in {"GoToCooker", "CheckCooker", "Cooking", "ReturnToWait"} : GoTo(f, "pot")
  \/ GoTo("ThrowToDustbin", "bin")
  \/ \E f \in {"GoToPutDishToCooker", "GoingToPickDishToHand"} : GoTo(f, my.aim)
  \/ GoToCooker \/ DecideWhichToCook \/ DecideWhichToPut \/ GoToPutDishToCooker
  \/ PickLoop("pickToPut", "PutDishToCooker", "DecideWhichToCook")
  \/ PickLoop("pickToHand", "GoingToTaskPoint", my.last_flag)
  \/ PutDishToCooker \/ CheckCooker \/ Cooking \/ WaitCookFinish \/ TakeDish \/ DropDish
  \/ ThrowToDustbin \/ GoingToPickDishToHand \/ GoingToTaskPoint \/ HandingTask
  \/ ReturnToWait \/ PickAndUseTool

-----------------------------------------------------------------------------
\* The server: the dish is done.  The partner: it brings food.  The others: a
\* dish is taken, a tool appears, a task comes or goes.
Done == world.pot["pot"].cooking /\ world' = Ready(world, "pot") /\ UNCHANGED <<pc, my>>
Supply ==
  /\ ~ my.stop
  /\ \E f \in Foods : world' = [world EXCEPT !.floor["spot"] = @ \cup {f}]
  /\ UNCHANGED <<pc, my>>
Disturb ==
  /\ \/ world' \in Taken(world)
     \/ \E w \in Fault(world) : \E t \in Tools : world' = [w EXCEPT !.lies = t]
     \/ \E w \in Fault(world) :
          world' = [w EXCEPT !.task_list = {"TomatoFriedEgg"} \ @]
  /\ UNCHANGED <<pc, my>>

Next == play \/ Done \/ Supply \/ Disturb

-----------------------------------------------------------------------------
\* Infinitely often: the partner is told to go on.
LetsGo == ~ my.stop

\* Where nothing went wrong, the cooker is used on what is needed, and that is
\* a dish.
CooksWhatItMeans ==
  pc \in {"Cooking", "using"} /\ world.faults = 0 /\ ~ isCooking(world) =>
    /\ world.floor["pot"] = my.needThings_back
    /\ Product(my.needThings_back) # "DarkDish"

\* The strengthening: from its choice on it has a dish in mind, and at the cooker
\* there is nothing else but what that takes, or it cooks.
Fields == {"at", "hand", "faults", "floor", "pot", "task_list", "lies", "tool"}
Preparing == {"DecideWhichToPut", "GoToPutDishToCooker", "pickToPut", "PutDishToCooker",
  "putting", "CheckCooker", "Cooking", "using"}
Needs == {Elements(Recipes[i].need) : i \in DOMAIN Recipes}

PreparesADish ==
  /\ Fields \subseteq DOMAIN world /\ world.faults \in Nat
  /\ DOMAIN world.floor = {"spot", "pot"} /\ DOMAIN world.pot = {"pot"}
  /\ DOMAIN world.pot["pot"] = {"dish", "cooking"}
  /\ {"stop", "last_flag", "error", "wait_time", "needThings", "needThings_back", "aim", "dish"}
       \subseteq DOMAIN my
  /\ world.pot["pot"].cooking => world.pot["pot"].dish # None
  /\ my.last_flag \notin Preparing
  /\ pc \in Preparing => my.needThings_back \in Needs
  /\ pc \in {"Cooking", "using"} /\ world.faults = 0 /\ ~ isCooking(world) =>
       world.floor["pot"] = my.needThings_back
=============================================================================
