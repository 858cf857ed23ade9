------------------------------ MODULE Partner85 ------------------------------
(***************************************************************************)
(* player_codes/85/player2.cpp: the member of team 85 that brings food to  *)
(* the spot beside the cooker (Player85 cooks it), from the food points in *)
(* a fixed round, or from where it sees food lie about.                    *)
(*                                                                         *)
(* pc is the flag of play, or the loop it is in; positions are the road,   *)
(* a food point, the cooker, and a place far from the cooker where dishes  *)
(* may lie; a walk (Walk85) is one step.  That the other tells it to stop  *)
(* and to go on is here only the flag stop; see Talk85.                    *)
(***************************************************************************)
EXTENDS Kitchen

CONSTANT Lying   \* what lies about far from the cooker

max_error == 3
Raw == {"Wheat", "Rice", "Tomato", "Egg", "Beef", "Pork", "Potato", "Lettuce", "Flour"}

\* Tools: what lies about (lies) and what it has (tool).  It uses a buff at once;
\* a bow it keeps for the enemies.
ToolEmpty == "ToolEmpty"
Tools == {"SpeedBuff", "Bow"}
useTool(w) ==
  IF w.tool = "SpeedBuff" THEN Or([w EXCEPT !.tool = ToolEmpty], w) ELSE {w}

\* initializeQueue: the queue is four of these rounds, whichever cooker it is for.
Round == <<"Pork", "Lettuce", "Tomato", "Potato", "Rice", "Pork", "Potato", "Egg", "Tomato">>
Next1(i) == (i % Len(Round)) + 1

\* Start and DecideWhereToCook.
Init ==
  /\ pc = "DecideWhereToFindDish"
  /\ my = [stop |-> TRUE, last_flag |-> "Start", error |-> 0, Rob |-> FALSE,
           foodPoint |-> Len(Round), dish |-> None]
  /\ \E t \in BOOLEAN, lies \in Tools :
       LET w == NewWorld({"far", "spot"}, {}) IN
       world = [at |-> w.at, hand |-> w.hand, faults |-> w.faults, pot |-> w.pot,
                floor |-> [w.floor EXCEPT !["far"] = Lying],
                task_list |-> IF t THEN {"TomatoFriedEgg"} ELSE {},
                lies |-> lies, tool |-> ToolEmpty]

Goto(flag, mine) == pc' = flag /\ my' = mine

-----------------------------------------------------------------------------
\* The texts: while it is stopped it does nothing (172-192).
Told == my' = [my EXCEPT !.stop = ~ @] /\ UNCHANGED <<pc, world>>

\* A dish of a task lies far from the cooker; one that lies near the cooker can
\* hide it, for the search of the list ends there (208-209).
Loops == {"pickToRob", "pickToHand", "picking", "handing"}
Interruptible == {"DecideWhereToFindDish", "FindingDish", "WaitDishGenerate",
                  "PickDishFromFoodPoint", "ThrowingToCooker", "Robbing"}
Seen == IF world.at \in {"road", "far"} THEN world.floor["far"] ELSE {}
TaskDish == Seen \cap world.task_list
FindTaskDish ==
  /\ ~ my.stop /\ pc \in Interruptible
  /\ \E d \in TaskDish :
       Goto("GoingToPickDishToHand", [my EXCEPT !.dish = d, !.last_flag = pc])
  /\ UNCHANGED world

\* On its way to a food point: it takes what it sees first, or, of several, what
\* is worth more; but what is worth more only where it saw food before it (251).
Rob ==
  /\ ~ my.stop /\ pc = "FindingDish"
  /\ \E d \in Seen \ {"DarkDish"} :
       /\ \E r \in Seen : r \in Raw
       /\ Goto("Robbing", [my EXCEPT !.Rob = TRUE, !.dish = d])
  /\ UNCHANGED world
RobOnlyWorth ==
  /\ ~ my.stop /\ pc = "FindingDish" /\ ~ my.Rob
  /\ \E d \in Seen : d \notin Raw \cup {"DarkDish"}
  /\ my' = [my EXCEPT !.Rob = TRUE] /\ UNCHANGED <<pc, world>>

SeesTool == world.tool = ToolEmpty /\ world.lies # ToolEmpty
FindTool ==
  /\ ~ my.stop /\ pc \in Interruptible /\ SeesTool
  /\ Goto("PickAndUseTool", [my EXCEPT !.last_flag = pc]) /\ UNCHANGED world

\* If an enemy is near it attacks; and it uses a tool that could not be used.
Attack ==
  /\ ~ my.stop /\ pc \notin Loops /\ world.tool = "Bow"
  /\ world' \in Or([world EXCEPT !.tool = ToolEmpty], world) /\ UNCHANGED <<pc, my>>
UseAgain ==
  /\ ~ my.stop /\ pc \notin Loops /\ world.tool = "SpeedBuff"
  /\ world' \in useTool(world) /\ UNCHANGED <<pc, my>>

Diverted ==
  \/ pc \in Interruptible /\ (SeesTool \/ (TaskDish # {} /\ world.floor["spot"] = {}))
  \/ pc = "FindingDish" /\ \E d \in Seen : d \in Raw
At(flag) == ~ my.stop /\ pc = flag /\ ~ Diverted

\* One try of a loop; w is what it led to.
Try(w, loop, failed) ==
  /\ world' = w
  /\ IF my.error + 1 >= max_error THEN Goto(failed, [my EXCEPT !.error = 0])
     ELSE Goto(loop, [my EXCEPT !.error = @ + 1])

PickLoop(flag, done, failed) ==
  /\ pc = flag
  /\ IF world.hand = my.dish THEN Goto(done, [my EXCEPT !.error = 0]) /\ UNCHANGED world
     ELSE \E w \in PickDish(world, my.dish) : Try(w, flag, failed)

-----------------------------------------------------------------------------
\* The next food point, or the same again after it robbed.
DecideWhereToFindDish ==
  /\ At("DecideWhereToFindDish")
  /\ Goto("FindingDish", [my EXCEPT !.Rob = FALSE, !.foodPoint =
                            IF my.Rob THEN @ ELSE Next1(@)])
  /\ UNCHANGED world

FindingDish ==
  /\ At("FindingDish")
  /\ world' \in Go(world, "food") /\ Goto("WaitDishGenerate", my)

\* It does not wait: where there is nothing, it goes on to the next.
DishThere ==
  /\ At("WaitDishGenerate") /\ Goto("PickDishFromFoodPoint", my) /\ UNCHANGED world
NothingThere ==
  /\ At("WaitDishGenerate") /\ Goto("DecideWhereToFindDish", my)
  /\ world' = [world EXCEPT !.at = "road"]

PickDishFromFoodPoint ==
  /\ At("PickDishFromFoodPoint") \/ pc = "picking"
  /\ IF world.hand # None
     THEN /\ Goto("ThrowingToCooker", [my EXCEPT !.error = 0])
          /\ world' = [world EXCEPT !.at = "road"]
     ELSE \E w \in PickFood(world, Round[my.foodPoint]) :
            Try(w, "picking", "DecideWhereToFindDish")

\* It throws when it is near enough, and walks on otherwise; at the cooker it
\* gives up, with the dish in its hand.
put(w, p) == IF w.hand = None THEN {w} ELSE Put(w, p)
ThrowingToCooker ==
  /\ At("ThrowingToCooker")
  /\ \/ \E w \in put(world, "spot") :
          /\ world' = [w EXCEPT !.floor["spot"] = @ \cap Lying]
          /\ Goto(IF w.hand = None THEN "DecideWhereToFindDish" ELSE "ThrowingToCooker", my)
     \/ world' \in GoWrong(world) /\ Goto("DecideWhereToFindDish", my)

Robbing ==
  /\ At("Robbing")
  /\ world' \in Go(world, "far") /\ Goto("pickToRob", my)

-----------------------------------------------------------------------------
GoingToPickDishToHand ==
  /\ At("GoingToPickDishToHand")
  /\ world' \in Go(world, "far") /\ Goto("pickToHand", my)

GoingToTaskPoint ==
  /\ At("GoingToTaskPoint")
  /\ world' \in Go(world, "road") /\ Goto("HandingTask", my)

\* error is not reset where the dish was handed in (606).
HandingTask ==
  /\ At("HandingTask") \/ pc = "handing"
  /\ IF world.hand = None THEN Goto(my.last_flag, my) /\ UNCHANGED world
     ELSE \E w \in HandIn(world) : Try(w, "handing", my.last_flag)

PickAndUseTool ==
  /\ At("PickAndUseTool")
  /\ world' \in UNION {useTool(w) : w \in
       Or([world EXCEPT !.tool = world.lies, !.lies = ToolEmpty], world)}
  /\ Goto(my.last_flag, my)

play ==
  \/ FindTaskDish \/ Rob \/ RobOnlyWorth \/ FindTool \/ Attack \/ UseAgain
  \/ DecideWhereToFindDish \/ FindingDish \/ DishThere \/ NothingThere
  \/ PickDishFromFoodPoint \/ ThrowingToCooker \/ Robbing
  \/ PickLoop("pickToRob", "ThrowingToCooker", "FindingDish")
  \/ GoingToPickDishToHand \/ PickLoop("pickToHand", "GoingToTaskPoint", my.last_flag)
  \/ GoingToTaskPoint \/ HandingTask \/ PickAndUseTool

-----------------------------------------------------------------------------
\* The others: a dish is taken, a tool appears, a task comes or goes.
Disturb ==
  /\ \/ world' \in Taken(world)
     \/ \E w \in Fault(world) : \E t \in Tools : world' = [w EXCEPT !.lies = t]
     \/ \E w \in Fault(world) :
          world' = [w EXCEPT !.task_list = {"TomatoFriedEgg"} \ @]
  /\ UNCHANGED <<pc, my>>

Next == play \/ Told \/ Disturb

-----------------------------------------------------------------------------
\* Infinitely often: it throws food to the cooker, or has been told to stop.
BringsFood == pc = "ThrowingToCooker" \/ my.stop
=============================================================================
