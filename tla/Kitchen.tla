------------------------------- MODULE Kitchen -------------------------------
(***************************************************************************)
(* The server as a player's program meets it through API.h: what the       *)
(* player faces and holds, the dishes that lie about, and the cookers.     *)
(* The modules Player* model programs of player_codes against it.          *)
(*                                                                         *)
(* A program's commands can fail: SendCommandMessage refuses one, the      *)
(* player is stunned or does not get where it wants, somebody else takes a *)
(* dish.  Each is a fault, and a behaviour has at most MaxFaults of them   *)
(* (a bound): every operator gives the set of the worlds a command may     *)
(* lead to.  A cell has at most one dish of a type here: a cooker takes    *)
(* equal dishes for one (the SortedSet of UseCooker).                      *)
(***************************************************************************)
EXTENDS Integers, Sequences, FiniteSets

CONSTANT MaxFaults

VARIABLES
  pc,      \* where the program is
  my,      \* its variables
  world    \* the server's side, and whatever else is not the program's

None == "DishEmpty"
Garbage == {"OverCookedDish", "DarkDish", "CookingDish"}   \* DishType >= 28
Idle == [dish |-> None, cooking |-> FALSE]

\* Config.json: what becomes of what.
CookingTable == {
  <<{"Wheat"}, "Flour">>, <<{"Flour"}, "Noodle">>, <<{"Egg", "Flour"}, "Bread">>,
  <<{"Rice"}, "CookedRice">>, <<{"Tomato"}, "Ketchup">>,
  <<{"Tomato", "Egg"}, "TomatoFriedEgg">>,
  <<{"Noodle", "TomatoFriedEgg"}, "TomatoFriedEggNoodle">>,
  <<{"Beef", "Noodle"}, "BeefNoodle">>, <<{"Rice", "Pork", "Potato"}, "OverRice">>,
  <<{"Pork", "Lettuce"}, "Barbecue">>, <<{"Potato", "Ketchup"}, "FrenchFries">>,
  <<{"Beef", "Lettuce", "Bread"}, "Hamburger">>}

Product(s) ==
  IF \E r \in CookingTable : r[1] = s
  THEN (CHOOSE r \in CookingTable : r[1] = s)[2] ELSE "DarkDish"

NewWorld(floors, pots) ==
  [at |-> "road", hand |-> None, faults |-> 0,
   floor |-> [p \in floors |-> {}], pot |-> [p \in pots |-> Idle]]

\* more @@ w, written out for the proofs.
With(more, w) ==
  [f \in DOMAIN more \cup DOMAIN w |-> IF f \in DOMAIN more THEN more[f] ELSE w[f]]

Fault(w) == IF w.faults < MaxFaults THEN {[w EXCEPT !.faults = @ + 1]} ELSE {}
Or(done, w) == {done} \cup Fault(w)

Held(w) == {w.hand} \ {None}
Shows(w, p) == IF w.pot[p].cooking THEN "CookingDish" ELSE w.pot[p].dish

\* It walks to a place and faces it.
Go(w, p) == {[w EXCEPT !.at = p]}
GoWrong(w) == {[v EXCEPT !.at = "road"] : v \in Fault(w)}

\* Pick, ObjType.Block: the dish that was held falls where the player stands,
\* where no program looks for it.
PickFood(w, f) == Or([w EXCEPT !.hand = f], w)
PickBlock(w, p) ==
  Or(IF Shows(w, p) = None THEN w
     ELSE [w EXCEPT !.hand = Shows(w, p), !.pot[p].dish = None, !.pot[p].cooking = FALSE], w)

\* Pick, ObjType.Dish: the dish faced and the dish held change places.
PickDish(w, d) ==
  Or(IF w.at \in DOMAIN w.floor /\ d \in w.floor[w.at]
     THEN [w EXCEPT !.hand = d, !.floor[w.at] = (@ \ {d}) \cup Held(w)]
     ELSE w, w)

\* Put: the dish is thrown to a place.
Put(w, p) == Or([w EXCEPT !.hand = None, !.floor[p] = @ \cup Held(w)], w)
ThrowAway(w) == Or([w EXCEPT !.hand = None], w)

\* Use, at a cooker: it cooks whatever lies on it; and at the task point,
\* which takes the dish whether there is such a task or not.
UseCooker(w, p) ==
  Or(IF w.pot[p].cooking \/ w.floor[p] = {} THEN w
     ELSE [w EXCEPT !.pot[p] = [dish |-> Product(w.floor[p]), cooking |-> TRUE],
                    !.floor[p] = {}], w)
Ready(w, p) == [w EXCEPT !.pot[p].cooking = FALSE]
HandIn(w) == Or([w EXCEPT !.hand = None], w)

\* Somebody else takes a dish, from the floor or from a cooker.
Taken(w) ==
  (UNION { {[v EXCEPT !.floor[p] = @ \ {d}] : p \in {q \in DOMAIN w.floor : d \in w.floor[q]}}
           : v \in Fault(w), d \in UNION {w.floor[q] : q \in DOMAIN w.floor} })
  \cup {[v EXCEPT !.pot[p].dish = None] :
        v \in Fault(w), p \in {q \in DOMAIN w.pot : ~ w.pot[q].cooking /\ w.pot[q].dish # None}}
=============================================================================
