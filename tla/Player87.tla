------------------------------ MODULE Player87 ------------------------------
(***************************************************************************)
(* player_codes/87/player1.cpp, the cook (player2.cpp is the same program  *)
(* for the runner).  Each call of play is a frame: it looks around, decides *)
(* what it is at (now_action, here pc is next_action) and does one thing.  *)
(*                                                                         *)
(* A walk to a place and the waiting for a dish are one step.  bag is what *)
(* the program knows of the stoves: it sees a stove only from nearby.      *)
(* Tools, and the value of one dish against another, are left out.         *)
(***************************************************************************)
EXTENDS Kitchen

CONSTANT Orders     \* the sets of dishes there may be tasks for

vars == <<pc, my, world>>

Stoves == {"stove0", "stove1"}
Places == Stoves \cup {"about"}     \* about: what lies around the player

\* table: what a dish is made of; and all it is made of.
Parts(d) == UNION {r[1] : r \in {s \in CookingTable : s[2] = d}}
Dishes == (UNION {r[1] \cup {r[2]} : r \in CookingTable}) \cup (UNION Orders)
Below(d) ==
  LET below[e \in Dishes] == {e} \cup UNION {below[p] : p \in Parts(e)} IN below[d]

\* FoodPointType, as far as there is use for it.
Foods == {f \in UNION {Below(d) : d \in UNION Orders} : Parts(f) = {}}

initialize ==
  /\ pc = "findFood"
  /\ my = [dish |-> None, target |-> "stove0", bag |-> [s \in Stoves |-> {}],
           cook_time |-> [s \in Stoves |-> 0]]
  /\ \E o \in Orders :
       world = With([orders |-> o, meddled |-> FALSE], NewWorld(Places, Stoves))

-----------------------------------------------------------------------------
\* update_info: where it stands at a stove it learns what is on it.  cook_time
\* is 0 (nothing), 1 (a dish is done, or should be) or 2 (it cooks).
update_stove(s) ==
  IF world.pot[s].cooking THEN (IF my.cook_time[s] = 0 THEN 2 ELSE my.cook_time[s])
  ELSE IF world.pot[s].dish # None THEN 1 ELSE 0
Seen ==
  [my EXCEPT !.bag = [s \in Stoves |-> IF world.at = s THEN world.floor[s] ELSE @[s]],
             !.cook_time = [s \in Stoves |-> IF world.at = s THEN update_stove(s) ELSE @[s]]]

\* parse_food: a dish has a value if it is in a task, or is part of one and not
\* on the stove yet.
is_need(goal, d) == d \in Below(goal) \ Seen.bag[my.target]
Valued(d) == \E goal \in world.orders : d = goal \/ is_need(goal, d)

\* What lies about and, as the program believes, at another stove (it takes the
\* place of a food point for that stove's).
Targets == {d \in world.floor["about"] : Valued(d)}
Elsewhere ==
  {d \in UNION {Seen.bag[s] : s \in {t \in Stoves \ {my.target} : Cardinality(Seen.bag[t]) >= 2}}
     : Valued(d)}

\* What play makes of the dish in the hand.
Now ==
  IF world.hand = None THEN {pc}
  ELSE IF world.hand \in world.orders THEN {"pendMission"}
  ELSE IF pc = "cookFood" \/ ~ Valued(world.hand) THEN {"putAway"}
  ELSE IF Targets \cup Elsewhere # {} THEN {"setFood", "putAway"}
  ELSE {"setFood"}

\* At the cooker it is put down, else thrown as far away as possible.
PutAway ==
  /\ "putAway" \in Now
  /\ my' = Seen
  /\ IF pc = "cookFood"
     THEN world' \in Put(world, "about") /\ pc' = pc
     ELSE world' \in ThrowAway(world) /\ pc' = "findFood"

pendMission ==
  /\ "pendMission" \in Now
  /\ world' \in HandIn([world EXCEPT !.at = "task"])
  /\ pc' = "findFood" /\ my' = Seen

setFood ==
  /\ "setFood" \in Now
  /\ world' \in Put([world EXCEPT !.at = my.target], my.target)
  /\ my' = [Seen EXCEPT !.dish = "unknown"]
  /\ pc' = IF Seen.cook_time[my.target] <= 1 THEN "cookFood" ELSE "findFood"

-----------------------------------------------------------------------------
\* cookFood: it walks to the stove, and on the spot until the dish is done.
AtStove == "cookFood" \in Now /\ world.at = my.target /\ Seen.cook_time[my.target] <= 1

Approach ==
  /\ "cookFood" \in Now /\ ~ AtStove
  /\ \E w \in Go(world, my.target) : world' \in {w, Ready(w, my.target)}
  /\ my' = [Seen EXCEPT !.cook_time[my.target] = IF @ = 2 THEN 1 ELSE @]
  /\ pc' = pc

\* Mutant of is_synchronized: some of it.
is_synchronizedSome(d, bag) == Parts(d) \cap bag # {}

is_synchronized(d, bag) == Parts(d) # {} /\ Parts(d) \subseteq bag

\* What of a dish can be made: itself, else a part that is not there yet, else
\* a part that is there.
get_synchronized_dish(goal, bag) ==
  LET dish[d \in Dishes] ==
        IF is_synchronized(d, bag) THEN {d}
        ELSE LET found == UNION {dish[p] : p \in Parts(d)}
             IN IF found \subseteq bag THEN found ELSE found \ bag
  IN dish[goal]

\* The dish on the cooker is taken and one chosen that can be cooked.
Choose ==
  /\ AtStove /\ my.dish = "unknown"
  /\ \E w \in PickBlock(world, my.target) : world' = [w EXCEPT !.meddled = FALSE]
  /\ LET can == UNION {get_synchronized_dish(o, Seen.bag[my.target]) : o \in world.orders}
     IN \E d \in IF can = {} THEN {None} ELSE can :
          my' = [Seen EXCEPT !.dish = d, !.cook_time[my.target] = 0]
  /\ pc' = pc

NothingToCook ==
  /\ AtStove /\ my.dish = None
  /\ pc' = "findFood" /\ my' = Seen /\ UNCHANGED world

get_what_is_redundant == Seen.bag[my.target] \ Parts(my.dish)
MayCook == AtStove /\ my.dish \notin {"unknown", None}

RemoveRedundant ==
  /\ MayCook
  /\ \E d \in get_what_is_redundant : world' \in PickDish(world, d)
  /\ my' = Seen /\ pc' = pc

Cook ==
  /\ MayCook /\ get_what_is_redundant = {}
  /\ world' \in UseCooker(world, my.target)
  /\ my' = [Seen EXCEPT !.cook_time[my.target] = 2]
  /\ pc' = "findFood"

-----------------------------------------------------------------------------
\* The cook is called back when the dish is done, or by a text of the runner;
\* but in this frame it still goes on.
CalledBack == {"findFood", "setFood"}

PickUp ==
  /\ "findFood" \in Now
  /\ \E d \in Targets : world' \in PickDish([world EXCEPT !.at = "about"], d)
  /\ my' = Seen /\ pc' \in CalledBack

\* The food points are sorted: first those whose food has a value.
food_point_compare(f) == Valued(f) \/ \A g \in Foods : ~ Valued(g)
Fetch ==
  /\ "findFood" \in Now /\ Targets = {}
  /\ \E f \in Foods :
       /\ Elsewhere # {} \/ food_point_compare(f)
       /\ world' \in PickFood([world EXCEPT !.at = "road"], f)
  /\ my' = Seen /\ pc' \in CalledBack

-----------------------------------------------------------------------------
\* Stuck for 60 frames it moves somewhere and looks for food.
Emergency ==
  /\ world' \in GoWrong(world)
  /\ pc' = "findFood" /\ my' = Seen

\* Every 2400 frames: a stove with fewer enemies around; now_dish stays.
change_target ==
  /\ \E s \in Stoves, w \in Fault(world) :
       my' = [Seen EXCEPT !.target = s] /\ world' = [w EXCEPT !.meddled = TRUE]
  /\ pc' = pc

NewTasks ==
  /\ \E o \in Orders, w \in Fault(world) : world' = [w EXCEPT !.orders = o]
  /\ UNCHANGED <<pc, my>>

\* The runner throws food on a stove; others take some.
Others ==
  /\ \/ \E w \in Taken(world) : world' = [w EXCEPT !.meddled = TRUE]
     \/ \E w \in Fault(world), s \in Stoves, f \in Foods :
          world' = [w EXCEPT !.floor[s] = @ \cup {f}, !.meddled = TRUE]
  /\ UNCHANGED <<pc, my>>

Done == (\E s \in Stoves : world' = Ready(world, s)) /\ UNCHANGED <<pc, my>>

Acts ==
  \/ PutAway \/ pendMission \/ setFood \/ Approach \/ Choose \/ NothingToCook
  \/ RemoveRedundant \/ Cook \/ PickUp \/ Fetch

Next == Acts \/ Emergency \/ change_target \/ NewTasks \/ Others \/ Done

-----------------------------------------------------------------------------
\* Infinitely often: it comes back to looking for food with empty hands.
LooksForFood == pc = "findFood" /\ world.hand = None

\* What the cooker is used on is what the chosen dish is made of, unless others
\* throw, take, or the stove is changed between the choice and the use (nothing
\* looks at the stove again before it is used, so that then it may be anything).
CooksWhatItMeans ==
  MayCook /\ get_what_is_redundant = {} /\ ~ world.meddled
    => world.floor[my.target] = Parts(my.dish)

\* The strengthening: from the choice to the use it stands at the stove, and all
\* that the chosen dish is made of lies there; what it removes is no part of it.
Fields == {"at", "hand", "faults", "floor", "pot", "orders", "meddled"}
HasItsParts ==
  /\ Fields \subseteq DOMAIN world /\ DOMAIN world.floor = Places
  /\ world.orders \in Orders
  /\ {"dish", "target", "bag", "cook_time"} \subseteq DOMAIN my
  /\ my.target \in Stoves /\ DOMAIN my.bag = Stoves
  /\ pc = "cookFood" /\ my.dish \notin {"unknown", None} /\ ~ world.meddled =>
       world.at = my.target /\ Parts(my.dish) \subseteq world.floor[my.target]
=============================================================================
