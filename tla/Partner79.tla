------------------------------ MODULE Partner79 ------------------------------
(***************************************************************************)
(* player_codes/79/player2.cpp: the cook of team 79 takes the last task of *)
(* the list, and for each dish it does what is written down for it: walks  *)
(* (Walk79), picks, puts, uses and sleeps, and looks at nothing but the    *)
(* food it picks and the dish it has in the end.                           *)
(***************************************************************************)
EXTENDS Kitchen

CONSTANT TaskList   \* tasks that may be the last of the list, which is not empty

pot == "41,28"
table == "42,28"

\* object_to_food is in the steps.  "cook" is put, use and the sleep after it.
fetch(f) == <<"fetch", f>>
to(p) == <<"moveto", p>>
put == <<"put", "">>
use == <<"use", "">>
wait == <<"Sleep", "">>
pick == <<"pick", "">>
cook == <<to(pot), put, use, wait>>

CookedRice == <<fetch("Rice")>> \o cook
TomatoFriedEgg == <<fetch("Tomato"), to(pot), put, fetch("Egg")>> \o cook
\* What lies on a table is no Block to be picked: the noodle is cooked alone.
TomatoFriedEggNoodle ==
  TomatoFriedEgg \o <<pick, to(table), put, fetch("Wheat")>> \o cook
  \o <<pick, put, use, wait, pick, put, to(table), pick>> \o cook
\* The sleep at the end is missing.
BeefNoodle ==
  <<fetch("Wheat")>> \o cook \o <<pick, put, use, wait, pick, put, fetch("Beef"), to(pot), put, use>>
\* The rice is cooked before it is used.
OverRice ==
  <<fetch("Rice")>> \o cook \o <<pick, put, fetch("Pork"), to(pot), put, fetch("Potato")>> \o cook
Barbecue == <<fetch("Pork"), to(pot), put, fetch("Lettuce")>> \o cook
FrenchFries == <<fetch("Tomato")>> \o cook \o <<pick, put, fetch("Potato")>> \o cook

Steps(object) ==
  CASE object = "CookedRice" -> CookedRice
    [] object = "TomatoFriedEgg" -> TomatoFriedEgg
    [] object = "TomatoFriedEggNoodle" -> TomatoFriedEggNoodle
    [] object = "BeefNoodle" -> BeefNoodle
    [] object = "OverRice" -> OverRice
    [] object = "Barbecue" -> Barbecue
    [] object = "FrenchFries" -> FrenchFries
    [] OTHER -> <<>>

Init ==
  /\ pc = "play" /\ my = [object |-> None, step |-> 1]
  /\ world = NewWorld({pot, table}, {pot})

-----------------------------------------------------------------------------
TakeTask ==
  /\ pc = "play" /\ pc' = "cook"
  /\ \E object \in TaskList : my' = [object |-> object, step |-> 1]
  /\ UNCHANGED world

Now(what) ==
  /\ pc = "cook" /\ my.step <= Len(Steps(my.object)) /\ Steps(my.object)[my.step][1] = what
Thing == Steps(my.object)[my.step][2]
GoOn == my' = [my EXCEPT !.step = @ + 1] /\ UNCHANGED pc

Fetch ==
  /\ Now("fetch")
  /\ \E w \in PickFood([world EXCEPT !.at = "food"], Thing) :
       world' = w /\ IF w.hand = Thing THEN GoOn ELSE UNCHANGED <<my, pc>>
Walk == Now("moveto") /\ world' \in Go(world, Thing) /\ GoOn
Throw == Now("put") /\ world' \in Put(world, world.at) /\ GoOn
Start ==
  /\ Now("use")
  /\ world' \in IF world.at = pot THEN UseCooker(world, pot) ELSE {world}
  /\ GoOn
Sleep == Now("Sleep") /\ world' = Ready(world, pot) /\ GoOn
AtBlock(w) == IF w.at = pot THEN PickBlock(w, pot) ELSE {w}
Pick == Now("pick") /\ world' \in AtBlock(world) /\ GoOn

\* A dark dish is thrown away, whatever else it has goes to the task point.
Done == pc = "cook" /\ my.step = Len(Steps(my.object)) + 1
Take ==
  /\ Done /\ UNCHANGED my
  /\ \E w \in AtBlock(world) :
       world' = w
       /\ pc' = IF w.hand \in {"OverCookedDish", "DarkDish"} THEN "drop" ELSE "hand in"
Drop == pc = "drop" /\ world' \in ThrowAway(world) /\ pc' = "play" /\ UNCHANGED my

\* Three times: what one use fails to do the next one does.
Uses(W) == UNION {HandIn(w) : w \in W}
Deliver ==
  /\ pc = "hand in" /\ pc' = "play"
  /\ world' \in {[w EXCEPT !.at = "task point"] : w \in Uses(Uses(Uses({world})))}
  /\ UNCHANGED my

play == TakeTask \/ Fetch \/ Walk \/ Throw \/ Start \/ Sleep \/ Pick \/ Take \/ Drop \/ Deliver

Theft == world' \in Taken(world) /\ UNCHANGED <<pc, my>>

Next == play \/ Theft

-----------------------------------------------------------------------------
\* The dishes whose steps are right.
Right == {"CookedRice", "TomatoFriedEgg", "Barbecue", "FrenchFries"}

\* Where nothing went wrong it brings the dish it means to, whatever it has
\* cooked before and left on the cooker (79/player2.cpp:504-757).
BringsWhatItMeans ==
  pc = "hand in" /\ my.object \in Right /\ world.faults = 0 => world.hand = my.object

\* Infinitely often, whatever went wrong: it brings the dish it means, unless it
\* means one whose steps are wrong.  What a lost command leaves on the cooker
\* spoils a dish or two and is gone.
BringsADish == my.object \in Right => pc = "hand in" /\ world.hand = my.object

\* The strengthening, by the number of the step that is next: where it faces the
\* cooker, and for the dishes whose steps are right what it holds, what lies on
\* the cooker and what has been made there ("?": whatever).
Facing(object) ==
  CASE object = "CookedRice" -> 3 .. 6
    [] object \in {"TomatoFriedEgg", "Barbecue"} -> {3, 4} \cup 6 .. 9
    [] object = "TomatoFriedEggNoodle" -> 6 .. 10 \cup 14 .. 23 \cup 26 .. 29
    [] object = "BeefNoodle" -> 3 .. 12 \cup 14 .. 16
    [] object = "OverRice" -> 3 .. 8 \cup 13 .. 16
    [] object = "FrenchFries" -> 3 .. 8 \cup 10 .. 13
    [] OTHER -> {}

OfTwo(a, b, dish) ==
  [hand |-> <<"?", a, a, None, b, b, None, None, None>>,
   lies |-> <<{}, {}, {}, {a}, {a}, {a}, {a, b}, {}, {}>>,
   made |-> <<"?", "?", "?", "?", "?", "?", "?", dish, dish>>]
Course(object) ==
  CASE object = "CookedRice" ->
         [hand |-> <<"?", "Rice", "Rice", None, None, None>>,
          lies |-> <<{}, {}, {}, {"Rice"}, {}, {}>>,
          made |-> <<"?", "?", "?", "?", "CookedRice", "CookedRice">>]
    [] object = "TomatoFriedEgg" -> OfTwo("Tomato", "Egg", object)
    [] object = "Barbecue" -> OfTwo("Pork", "Lettuce", object)
    [] object = "FrenchFries" ->
         [hand |-> <<"?", "Tomato", "Tomato", None, None, None, "Ketchup",
                     None, "Potato", "Potato", None, None, None>>,
          lies |-> <<{}, {}, {}, {"Tomato"}, {}, {}, {},
                     {"Ketchup"}, {"Ketchup"}, {"Ketchup"}, {"Ketchup", "Potato"}, {}, {}>>,
          made |-> <<"?", "?", "?", "?", "Ketchup", "Ketchup", "?", "?", "?", "?", "?", object, object>>]

Before(kinds) == my.step > 1 /\ Steps(my.object)[my.step - 1][1] \in kinds
OnCourse(c) ==
  /\ c.hand[my.step] \in {"?", world.hand}
  /\ c.lies[my.step] = world.floor[pot]
  /\ c.made[my.step] \in {"?", world.pot[pot].dish}

GoesByItsSteps ==
  /\ {"at", "hand", "faults", "floor", "pot"} \subseteq DOMAIN world /\ world.faults \in Nat
  /\ pot \in DOMAIN world.floor /\ DOMAIN world.pot = {pot}
  /\ DOMAIN world.pot[pot] = {"dish", "cooking"}
  /\ DOMAIN my = {"object", "step"}
  /\ world.faults = 0 /\ pc = "cook" =>
       /\ my.step \in 1 .. Len(Steps(my.object)) + 1
       /\ my.step \in Facing(my.object) => world.at = pot
       /\ world.pot[pot].cooking => Before({"use"})
       /\ my.step = 1 \/ Before({"use", "Sleep"}) => world.floor[pot] = {}
       /\ my.object \in Right => OnCourse(Course(my.object))
  /\ world.faults = 0 /\ pc # "cook" => world.floor[pot] = {} /\ ~ world.pot[pot].cooking
  /\ BringsWhatItMeans
=============================================================================
