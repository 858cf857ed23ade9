------------------------------ MODULE Player92a ------------------------------
(***************************************************************************)
(* player_codes/92/player1.cpp: a cook that goes to and fro between two    *)
(* cookers and cooks whatever food others have left there.                 *)
(*                                                                         *)
(* It finds its way by dead reckoning: a route is a sequence of legs, each *)
(* along one axis to an aim, and each begins where the one before is       *)
(* meant to end.  A leg is done again until the aim is reached; the time   *)
(* it takes is computed from the distance, so that a leg that begins       *)
(* beyond its aim makes the program sleep for a negative time, which does  *)
(* not end.  Coordinates are in tenths of a cell, borders of the map 15    *)
(* and 485.                                                                *)
(***************************************************************************)
EXTENDS Kitchen

CONSTANT Foods    \* what others may have left at the cookers

vars == <<pc, my, world>>

\* Legs: computed from the distance, or in steps and tested first.
Do(dir, aim) == <<[dir |-> dir, aim |-> aim, steps |-> FALSE]>>
Steps(dir, aim) == <<[dir |-> dir, aim |-> aim, steps |-> TRUE]>>

\* To the border below or above, to the left border, on to (8.5, 27.5).
first(low) ==
  Steps(IF low THEN "Down" ELSE "Up", IF low THEN 15 ELSE 485) \o Steps("Left", 15)
  \o (IF low THEN Steps("Up", 275) ELSE Steps("Down", 275)) \o Steps("Right", 85)

\* Mutant of Shangjiao: from the task point straight back to the left.
ShangjiaoStraight(n) ==
  IF n = 1 THEN Do("Right", 115) \o Do("Down", 233) \o Do("Right", 245)
  ELSE Do("Down", 364) \o Do("Left", 264)

\* To the task point ...
Shangjiao(n) ==
  IF n = 1 THEN Do("Right", 115) \o Do("Down", 233) \o Do("Right", 245)
  ELSE Do("Down", 364) \o Do("Right", 285) \o Do("Down", 255) \o Do("Left", 264)

\* ... and back from it.
Return(n) ==
  IF n = 1 THEN Do("Left", 104) \o Do("Up", 275) \o Do("Left", 104) \o Do("Left", 85)
  ELSE Do("Right", 285) \o Do("Up", 367) \o Do("Left", 225) \o Do("Up", 385)
       \o Steps("Down", 385)

ToPot(n) == IF n = 1 THEN Steps("Down", 255) ELSE Steps("Right", 245)
FromPot(n) == IF n = 1 THEN Do("Up", 275) ELSE Do("Left", 225)
ToLeft == Do("Left", 73) \o Do("Down", 245)
FromLeft == Do("Up", 275) \o Do("Right", 85)
ToSecond ==
  Do("Up", 305) \o Do("Left", 75) \o Do("Up", 405) \o Do("Right", 225)
  \o Do("Down", 385) \o Steps("Down", 385)
ToFirst ==
  Do("Up", 404) \o Do("Left", 85) \o Do("Down", 395) \o Do("Left", 75)
  \o Do("Down", 305) \o Do("Right", 85) \o Do("Down", 275)

Pot(n) == IF n = 1 THEN "pot1" ELSE "pot2"
Near(n) == IF n = 1 THEN "near1" ELSE "near2"
Raw == Foods \cup {"Ketchup"}                  \* Wheat .. Ketchup
Meals == {"TomatoFriedEgg"}                    \* CookedRice .. SpicedPot6

\* Born in one of the four corners; what lies about is anybody's.
Init ==
  /\ pc = "walk"
  /\ \E low \in BOOLEAN :
       /\ my = [n |-> 1, route |-> first(low), next |-> "scan", what |-> None, ok |-> FALSE]
       /\ \E x \in {35, 465}, on1, beside, left, on2 \in {{}, Foods},
             dish \in {None} \cup Meals :
            world = With(
              [x |-> x, y |-> IF low THEN 35 ELSE 465, late |-> FALSE, lost |-> FALSE],
              [NewWorld({"pot1", "near1", "left1", "pot2", "near2"}, {"pot1", "pot2"})
                 EXCEPT !.floor["pot1"] = on1, !.floor["pot2"] = on2,
                        !.floor["near1"] = beside, !.floor["left1"] = left,
                        !.pot["pot2"].dish = dish])

-----------------------------------------------------------------------------
\* Walking.
Walk(route, next, mine) ==
  /\ pc' = "walk"
  /\ my' = [mine EXCEPT !.route = route, !.next = next]

Vertical(leg) == leg.dir \in {"Up", "Down"}
Sign(leg) == IF leg.dir \in {"Up", "Right"} THEN 1 ELSE -1
Beyond(w, leg) == (leg.aim - (IF Vertical(leg) THEN w.y ELSE w.x)) * Sign(leg) < 0
Reach(w, leg, c) == IF Vertical(leg) THEN [w EXCEPT !.y = c] ELSE [w EXCEPT !.x = c]

\* A player that is fast may stop three tenths late.
Leg(w, leg, late) ==
  IF ~ Beyond(w, leg) THEN Reach(w, leg, leg.aim + (IF late THEN 3 * Sign(leg) ELSE 0))
  ELSE IF leg.steps THEN w ELSE [w EXCEPT !.lost = TRUE]

\* The whole route, with the lateAt-th leg late (none: 0).  Being held up on a
\* leg only repeats it.
Walked(lateAt) ==
  LET after[i \in 0 .. Len(my.route)] ==
        IF i = 0 THEN world ELSE Leg(after[i - 1], my.route[i], i = lateAt)
  IN after[Len(my.route)]

Arrive ==
  /\ pc = "walk"
  /\ \/ world' = Walked(0)
     \/ /\ world.faults < MaxFaults
        /\ \E i \in DOMAIN my.route :
             world' = [Walked(i) EXCEPT !.faults = @ + 1, !.late = TRUE]
  /\ pc' = IF world'.lost THEN "asleep" ELSE my.next
  /\ my' = [my EXCEPT !.route = <<>>, !.next = ""]

-----------------------------------------------------------------------------
\* At the cooker.
Cooker == Pot(my.n)
Onward(mine) ==
  IF mine.n = 1 THEN Walk(ToSecond, "scan", [mine EXCEPT !.n = 2])
  ELSE Walk(ToFirst, "scan", [mine EXCEPT !.n = 1])
Checked == IF my.n = 1 THEN pc' = "left" /\ UNCHANGED my ELSE Onward(my)
BackAndCheck == Walk(FromPot(my.n), IF my.n = 1 THEN "left" ELSE "onward", my)

Dishes(places) == UNION {world.floor[p] : p \in places}
OnCooker == Cardinality(Dishes({Cooker})) + (IF Shows(world, Cooker) \in Raw THEN 1 ELSE 0)

Scan ==
  /\ pc = "scan"
  /\ LET dish == Shows(world, Cooker)
         found == Dishes({Cooker, Near(my.n)}) \cup ({dish} \cap Raw)
     IN IF dish \in Meals THEN Walk(ToPot(my.n), "takeMeal", my)
        ELSE IF OnCooker >= 2 \/ (OnCooker >= 1 /\ world.hand # None)
        THEN Walk(ToPot(my.n), "load", my)
        ELSE IF found # {} /\ world.hand = None
        THEN \E d \in found : Walk(ToPot(my.n), "grab", [my EXCEPT !.what = d])
        ELSE Checked
  /\ UNCHANGED world

\* Refused it picks again while it is stunned.
TakeMeal ==
  /\ pc = "takeMeal"
  /\ \E w \in PickBlock(world, Cooker) :
       IF w.hand \in Meals THEN world' = w /\ Walk(Shangjiao(my.n), "handIn", my)
       ELSE /\ world' \in (IF w.hand = "DarkDish" THEN ThrowAway(w) ELSE {w})
            /\ \/ w.faults > world.faults /\ UNCHANGED <<pc, my>>
               \/ Walk(FromPot(my.n), "onward", my)

HandInDish ==
  /\ pc = "handIn"
  /\ world' \in HandIn(world)
  /\ Walk(Return(my.n), "onward", my)

GoOn ==
  /\ pc = "onward"
  /\ Onward(my) /\ UNCHANGED world

LoadPot ==
  /\ pc = "load"
  /\ world' \in Put(world, Cooker)
  /\ pc' = IF my.n = 1 THEN "recheck" ELSE "use"
  /\ UNCHANGED my

\* Whatever lies where it stands goes on the cooker, until nothing is left.
Recheck ==
  /\ pc = "recheck"
  /\ \/ /\ world.floor["near1"] = {}
        /\ pc' = "use" /\ UNCHANGED world
     \/ \E d \in world.floor["near1"] : \E w \in PickDish([world EXCEPT !.at = "near1"], d) :
          world' \in Put(w, "pot1") /\ UNCHANGED pc
  /\ UNCHANGED my

\* It has cooked if fewer dishes lie on the cooker than were shown there.
Use ==
  /\ pc = "use"
  /\ \E w \in UseCooker(world, Cooker) :
       /\ world' = w
       /\ IF Cardinality(w.floor[Cooker]) <
               Cardinality(world.floor[Cooker]) + (IF Shows(world, Cooker) # None THEN 1 ELSE 0)
          THEN pc' = "wait" /\ UNCHANGED my
          ELSE BackAndCheck

\* For a minute at most, and while something cooks.
Wait ==
  /\ pc = "wait"
  /\ \/ /\ world.pot[Cooker].cooking
        /\ world' = Ready(world, Cooker) /\ UNCHANGED <<pc, my>>
     \/ /\ ~ world.pot[Cooker].cooking /\ world.pot[Cooker].dish \in Meals \cup {"Ketchup"}
        /\ world' \in PickBlock(world, Cooker)
        /\ IF world'.hand \in Meals THEN Walk(Shangjiao(my.n), "handIn", my)
           ELSE UNCHANGED <<pc, my>>
     \/ BackAndCheck /\ UNCHANGED world

Grab ==
  /\ pc = "grab"
  /\ \/ /\ Dishes({Cooker}) = {} /\ Shows(world, Cooker) \notin Raw
        /\ world' \in PickDish([world EXCEPT !.at = Near(my.n)], my.what)
     \/ /\ Dishes({Cooker}) # {} \/ Shows(world, Cooker) \in Raw
        /\ \E w \in PickBlock(world, Cooker) :
             world' \in IF w.hand = None THEN PickDish([w EXCEPT !.at = Cooker], my.what) ELSE {w}
  /\ Walk(FromPot(my.n), IF my.n = 1 THEN "left" ELSE "onward", [my EXCEPT !.what = None])

-----------------------------------------------------------------------------
\* What lies to the left of the first cooker, and where it stands.
CheckLeft ==
  /\ pc = "left"
  /\ IF world.floor["left1"] # {}
     THEN Walk(ToLeft, "loadLeft", [my EXCEPT !.ok = FALSE])
     ELSE pc' = "up" /\ UNCHANGED my
  /\ UNCHANGED world

\* The last one stays in the hand.
LoadLeft ==
  /\ pc = "loadLeft"
  /\ \/ /\ world.hand = None /\ ~ my.ok
        /\ \E d \in world.floor["left1"] :
             world' \in PickDish([world EXCEPT !.at = "left1"], d)
        /\ my' = [my EXCEPT !.ok = world'.floor["left1"] # {}] /\ UNCHANGED pc
     \/ /\ world.hand # None \/ my.ok
        /\ \E d \in world.floor["left1"] : \E w \in Put(world, "pot1") :
             world' \in PickDish([w EXCEPT !.at = "left1"], d)
        /\ Walk(FromLeft, "scan", [my EXCEPT !.ok = FALSE])
     \/ /\ world.floor["left1"] = {}
        /\ Walk(FromLeft, "up", my) /\ UNCHANGED world

CheckUp ==
  /\ pc = "up"
  /\ IF world.floor["near1"] # {} THEN Walk(Do("Down", 255), "loadUp", my) ELSE Onward(my)
  /\ UNCHANGED world

LoadUp ==
  /\ pc = "loadUp"
  /\ \E w \in Put(world, "pot1") :
       \/ \E d \in w.floor["near1"] : \E v \in PickDish([w EXCEPT !.at = "near1"], d) :
            \E u \in Put(v, "pot1") : world' \in UseCooker(u, "pot1")
       \/ w.floor["near1"] = {} /\ world' \in UseCooker(w, "pot1")
  /\ pc' = "wait" /\ UNCHANGED my

Cooks ==
  \/ Arrive \/ Scan \/ TakeMeal \/ HandInDish \/ GoOn \/ LoadPot \/ Recheck \/ Use
  \/ Wait \/ Grab \/ CheckLeft \/ LoadLeft \/ CheckUp \/ LoadUp

\* Others bring food, and take it: while the program walks it sees nothing of
\* it, so it is enough that they do so when it is there.
Gift ==
  /\ pc # "walk"
  /\ \E v \in Fault(world), p \in {"pot1", "near1", "left1"}, f \in Foods :
       world' = [v EXCEPT !.floor[p] = @ \cup {f}]
  /\ UNCHANGED <<pc, my>>
Theft == pc # "walk" /\ world' \in Taken(world) /\ UNCHANGED <<pc, my>>

Next == Cooks \/ Gift \/ Theft

-----------------------------------------------------------------------------
\* The routes fit together: unless the player is stopped late, no leg begins
\* beyond its aim, whichever way the program has come to where it is (246-506).
RoutesMeet == pc = "asleep" => world.late

\* It comes to its first cooker again and again.
BackAtWork == (pc = "scan" /\ my.n = 1) \/ pc = "asleep"
=============================================================================
