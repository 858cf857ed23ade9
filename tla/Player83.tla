------------------------------ MODULE Player83 ------------------------------
(***************************************************************************)
(* player_codes/83/player1.cpp: a tour past eight food points and one      *)
(* cooker, again and again.                                                *)
(*                                                                         *)
(* lzrtime says where on the tour the program is; each call of play goes   *)
(* on a little and then looks at the task list.  It takes one task, takes  *)
(* what that needs and is not on the cooker yet (foods), uses the cooker   *)
(* when all is there, and hands the dish in.  task is an array into which  *)
(* the task list is copied: what was there behind its end stays, so that a *)
(* task that is gone may look posted.                                      *)
(***************************************************************************)
EXTENDS Kitchen, SequencesExt, TLC

CONSTANTS
  Boards,   \* the task lists that may be posted, sequences
  Spawn     \* which food is found where the tour picks

vars == <<pc, my, world>>

\* lzrtime, in the order of the tour.
Tour == <<0, 250, 260, 300, 400, 1, 2, 3, 4, 5, 6, 7, 2090, 200, 10, 11, 12, 13, 3000, 3050,
          14, 15, 16, 3060, 3070, 17, 18, 4000, 4010, 19>>
After(s) ==
  LET i == CHOOSE j \in DOMAIN Tour : Tour[j] = s
  IN IF i = Len(Tour) THEN 0 ELSE Tour[i + 1]
Picks == DOMAIN Spawn

NoFood == <<None, None, None>>

\* Born in one of the corners; two of them lead onto the tour elsewhere.
Init ==
  /\ pc = "play"
  /\ my = [lzrtime |-> 0, mytask |-> None, lzrtask |-> 0, task |-> <<>>, needs |-> NoFood,
           foods |-> NoFood, lzrclear |-> FALSE]
  /\ \E board \in Boards, corner \in {"other", "right", "top left"} :
       world = [board |-> board, corner |-> corner] @@ NewWorld({"pot"}, {"pot"})

-----------------------------------------------------------------------------
\* The end of a call of play: gettask and getneed.
Cookable == {"TomatoFriedEgg", "Barbecue", "CookedRice"}   \* not left out in line 41
Copied == world.board \o SubSeq(my.task, Len(world.board) + 1, Len(my.task))
Posted(task) == {i \in DOMAIN task : task[i] \in Cookable}

\* Mutant of getneed: an egg for the barbecue.
getneedEgg(k) ==
  CASE k = "TomatoFriedEgg" -> <<"Tomato", "Egg", None>>
    [] k = "Barbecue" -> <<"Egg", "Pork", None>>
    [] OTHER -> <<"Tomato", None, None>>

\* CookedRice has no break and goes on to Flour and to Ketchup.
getneed(k) ==
  CASE k = "TomatoFriedEgg" -> <<"Tomato", "Egg", None>>
    [] k = "Barbecue" -> <<"Lettuce", "Pork", None>>
    [] OTHER -> <<"Tomato", None, None>>

gettask ==
  /\ pc = "play" /\ (my.task # Copied \/ my.lzrtask = 0)
  /\ LET seen == [my EXCEPT !.task = Copied]
         last == CHOOSE i \in Posted(Copied) : \A j \in Posted(Copied) : j <= i
     IN my' = IF my.lzrtask = 1
              THEN IF my.mytask = None \/ my.mytask \notin Range(Copied)
                   THEN [seen EXCEPT !.lzrtask = 0] ELSE seen
              ELSE IF Posted(Copied) = {} THEN [seen EXCEPT !.lzrtask = 1]
              ELSE [seen EXCEPT !.lzrtask = 1, !.mytask = Copied[last], !.lzrclear = TRUE,
                                !.needs = getneed(Copied[last])]
  /\ UNCHANGED <<pc, world>>

-----------------------------------------------------------------------------
GoOn(mine) == my' = [mine EXCEPT !.lzrtime = After(@)] /\ pc' = "play"

\* Pushed into a corner, or born there, it gets out; then it starts anew.
Escape ==
  /\ pc = "play" /\ world.corner # "other"
  /\ my' = [my EXCEPT !.lzrtime = IF world.corner = "right" THEN 19 ELSE 0]
  /\ world' = [world EXCEPT !.corner = "other"]
  /\ UNCHANGED pc

Walk ==
  /\ pc = "play" /\ world.corner = "other" /\ my.lzrtime \notin Picks \cup {1}
  /\ GoOn(my) /\ UNCHANGED world

\* Picked at most eleven times; what is not needed is thrown away.
Wanted(f) == f \in Range(my.needs) \ {None, my.foods[1], my.foods[2]}
pickfood ==
  /\ pc = "play" /\ world.corner = "other" /\ my.lzrtime \in Picks
  /\ world' \in IF world.hand # None THEN {world}
                ELSE {IF Wanted(w.hand) THEN w ELSE [w EXCEPT !.hand = None]
                      : w \in PickFood(world, Spawn[my.lzrtime])}
  /\ GoOn(my)

\* clear: the dish in the hand and all that is on the cooker for an old task.
AtCooker ==
  /\ pc = "play" /\ my.lzrtime = 1
  /\ pc' = "put"
  /\ IF my.lzrclear
     THEN /\ world' = [world EXCEPT !.hand = None, !.floor["pot"] = @ \ Range(my.foods)]
          /\ my' = [my EXCEPT !.lzrclear = FALSE, !.foods = NoFood]
     ELSE UNCHANGED <<my, world>>

\* The dish is written down and then thrown until the hand is empty; one that
\* is not needed is never thrown, and the loop does not end.
Free == CHOOSE i \in 1 .. 3 : my.foods[i] = None /\ \A j \in 1 .. i - 1 : my.foods[j] # None
putfood ==
  /\ pc = "put"
  /\ \/ /\ world.hand = None
        /\ pc' = "judge" /\ UNCHANGED <<my, world>>
     \/ /\ world.hand # None
        /\ my' = IF world.hand \in Range(my.foods) \/ None \notin Range(my.foods) THEN my
                 ELSE [my EXCEPT !.foods[Free] = world.hand]
        /\ IF world.hand \in Range(my.needs)
           THEN world' \in Put(world, "pot") /\ pc' = "put"
           ELSE pc' = "stuck" /\ UNCHANGED world

\* All three needs are in foods, where no need is found in an empty place.
judge == my.mytask # None /\ Range(my.needs) \subseteq Range(my.foods)

Use ==
  /\ pc = "judge"
  /\ IF judge THEN world' \in UseCooker(world, "pot") /\ pc' = "cooked" /\ UNCHANGED my
     ELSE GoOn(my) /\ UNCHANGED world

\* After the time it takes (21 seconds) it is picked.  CookedRice and the like.
Pick ==
  /\ pc = "cooked"
  /\ \E w \in PickBlock(Ready(world, "pot"), "pot") :
       IF w.hand = my.mytask THEN world' = w /\ pc' = "hand" /\ UNCHANGED my
       ELSE world' = [w EXCEPT !.hand = None] /\ GoOn([my EXCEPT !.foods = NoFood])

\* hand: it does not leave before the hand is empty.
hand ==
  /\ pc = "hand"
  /\ world' \in HandIn(world)
  /\ IF world'.hand = None THEN GoOn([my EXCEPT !.foods = NoFood]) ELSE UNCHANGED <<my, pc>>

-----------------------------------------------------------------------------
Tours ==
  \/ gettask \/ Escape \/ Walk \/ pickfood \/ AtCooker \/ putfood \/ Use \/ Pick \/ hand

\* The task list changes, and dishes are taken.
Post ==
  /\ pc = "play"
  /\ \E v \in Fault(world), b \in Boards : world' = [v EXCEPT !.board = b]
  /\ UNCHANGED <<pc, my>>
Theft == pc # "play" /\ world' \in Taken(world) /\ UNCHANGED <<pc, my>>

Next == Tours \/ Post \/ Theft

-----------------------------------------------------------------------------
\* Infinitely often: whatever was lost, and whichever task it goes for, it
\* brings that dish to the task point again and again; except rice, for which
\* it puts tomatoes on (160-165).
DishBrought == pc = "hand" \/ my.mytask \in {None, "CookedRice"}
=============================================================================
