------------------------------ MODULE Player79 ------------------------------
(***************************************************************************)
(* player_codes/79/player1.cpp: the runner of team 79 spoils what others   *)
(* cook on two cookers, robs what is done there, and brings a tomato to    *)
(* the place where the cook is thought to be.                              *)
(*                                                                         *)
(* A round is a list of steps, each a walk (Walk79) and what is done at    *)
(* its end; flag is 6 in the first nine, then 1 and 2.                     *)
(***************************************************************************)
EXTENDS Kitchen

CONSTANT Bringing   \* food that others put on the two cookers

left == "8,24"
top == "25,38"
Round == <<
  <<"fetch", "Egg">>, <<"spoil", left>>, <<"fetch", "Rice">>, <<"spoil", top>>,
  <<"rob", top>>, <<"hand in", "">>, <<"rob", left>>, <<"hand in", "">>,
  <<"collect", "Tomato">>, <<"lay down", "">> >>
Doing(what) == pc = Round[my.step][1] /\ what = pc
Thing == Round[my.step][2]

Init ==
  /\ pc = "fetch" /\ my = [step |-> 1, k1 |-> 0]
  /\ world = NewWorld({left, top}, {left, top})

GoOn ==
  \E n \in {IF my.step = Len(Round) THEN 1 ELSE my.step + 1} :
    my' = [step |-> n, k1 |-> 0] /\ pc' = Round[n][1]

\* It picks until it has this food, no matter what the hand holds.
Fetch ==
  /\ Doing("fetch")
  /\ \E w \in PickFood(world, Thing) :
       world' = w /\ IF w.hand = Thing THEN GoOn ELSE UNCHANGED <<my, pc>>

\* It throws the food on the cooker and starts it, with all that lies there.
Spoil ==
  /\ Doing("spoil")
  /\ world' \in UNION {UseCooker(w, Thing) : w \in Put(world, Thing)}
  /\ GoOn

\* Twenty-one picks; the dish that was picked before falls down.
Rob ==
  /\ Doing("rob")
  /\ world' \in PickBlock(world, Thing)
  /\ IF my.k1 < 20 THEN my' = [my EXCEPT !.k1 = @ + 1] /\ UNCHANGED pc ELSE GoOn

\* A dark dish is dropped, any other is brought to the task point.
Bring ==
  /\ Doing("hand in")
  /\ world' \in IF world.hand \in {"OverCookedDish", "DarkDish"} THEN ThrowAway(world)
                ELSE IF world.hand # None THEN HandIn(world) ELSE {world}
  /\ GoOn

\* flag 1: anything in the hand will do, also what it could not get rid of.
Collect ==
  /\ Doing("collect")
  /\ \E w \in PickFood(world, Thing) :
       world' = w /\ IF w.hand # None THEN GoOn ELSE UNCHANGED <<my, pc>>

\* flag 2: at its own feet, beside the task point.
LayDown == Doing("lay down") /\ world' \in ThrowAway(world) /\ GoOn

play == Fetch \/ Spoil \/ Rob \/ Bring \/ Collect \/ LayDown

\* Others put food on the cookers, start them, and take what is done.
Others ==
  /\ \/ \E p \in {left, top}, f \in Bringing :
          /\ f \notin world.floor[p]
          /\ world' \in {[v EXCEPT !.floor[p] = @ \cup {f}] : v \in Fault(world)}
     \/ \E p \in {left, top} : world.pot[p].cooking /\ world' = Ready(world, p)
     \/ world' \in Taken(world)
  /\ UNCHANGED <<pc, my>>

Next == play \/ Others

-----------------------------------------------------------------------------
\* Infinitely often: it sets out for the next round (79/player1.cpp:624-728).
SetsOut == my.step = 1
=============================================================================
