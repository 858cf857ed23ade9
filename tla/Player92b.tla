------------------------------ MODULE Player92b ------------------------------
(***************************************************************************)
(* player_codes/92/player2.cpp: a runner between two cookers.  It takes    *)
(* what is done to the task point, cooks where two dishes lie, and picks   *)
(* up and uses the tools it passes.                                        *)
(*                                                                         *)
(* istool is the tool it believes to hold: it is set and reset without a   *)
(* look at whether the command was carried out.  Of tools only the use is  *)
(* kept: at once ("self"), at a cooker ("mine"), against people            *)
(* ("thrown"), or never ("useless": Condiment, Fertilizer, SpaceGate,      *)
(* Stealer).  How movetoa and movetob get round what is in the way is left *)
(* out: a walk ends where it should.  Dishes are counted to tell whether a *)
(* cooker is to be used, tools that lie on it are not.                     *)
(***************************************************************************)
EXTENDS Kitchen

CONSTANT Foods    \* what team mates throw on the cookers

vars == <<pc, my, world>>

Tools == {"self", "mine", "thrown", "useless"}
Pots == {"pot33", "pot41"}
Meals == {"TomatoFriedEgg"}     \* 14 .. 26, CookedRice to SpicedPot6

Init ==
  /\ pc = "play"
  /\ my = [istool |-> None, gl |-> "pot33", next |-> "look"]
  /\ world = With([tool |-> None], NewWorld(Pots, Pots))

-----------------------------------------------------------------------------
\* Mutant of gettool: one that it has does not keep it from taking another.
gettoolAlways(l) ==
  /\ \E t \in Tools :
       /\ world' \in Or([world EXCEPT !.tool = t], world)
       /\ my' = [my EXCEPT !.istool = t]
  /\ pc' = l

\* What it holds the server exchanges for what it picks.
gettool(l) ==
  /\ my.istool = None
  /\ \E t \in Tools :
       /\ world' \in Or([world EXCEPT !.tool = t], world)
       /\ my' = [my EXCEPT !.istool = t]
  /\ pc' = l

\* use(1): the server uses what there is.
usetool(l) ==
  /\ world' \in Or([world EXCEPT !.tool = None], world)
  /\ my' = [my EXCEPT !.istool = None]
  /\ pc' = l

\* Each step of a walk, and each round at the middle, begins with gettool.
Steps == pc \in {"walk", "look"}
PassTool == Steps /\ gettool(pc)
UseSelf == Steps /\ my.istool = "self" /\ usetool(pc)

Walk(next) == pc' = "walk" /\ my' = [my EXCEPT !.next = next]

\* movetoa
Arrive ==
  /\ pc = "walk" /\ my.istool # "self"
  /\ pc' = my.next /\ my' = [my EXCEPT !.next = "look"]
  /\ UNCHANGED world

\* play is called again and again: first to the middle between the cookers.
Play ==
  /\ pc = "play"
  /\ Walk("look") /\ UNCHANGED world

\* searchren looks for people where no block is people, in a list that may be
\* empty: whether it finds any is open.
Throw == pc = "look" /\ my.istool = "thrown" /\ usetool("look")

-----------------------------------------------------------------------------
Cooked(p) == Shows(world, p) \in Meals
Full(p) == Cardinality(world.floor[p]) >= 2

\* The first cooker that has a dish, else the first that has two to be cooked.
Look ==
  /\ pc = "look" /\ my.istool # "self"
  /\ LET To(p, then) ==
           /\ my' = [my EXCEPT !.gl = p, !.next = then] /\ pc' = "walk"
     IN IF Cooked("pot33") THEN To("pot33", "near")
        ELSE IF Cooked("pot41") THEN To("pot41", "near")
        ELSE IF Full("pot33") THEN To("pot33", "nearFull")
        ELSE Full("pot41") /\ To("pot41", "nearFull")
  /\ UNCHANGED world

\* A mine, trap or bomb is left at the cooker.
After == IF pc = "near" THEN "jiancai" ELSE "use"
Near ==
  /\ pc \in {"near", "nearFull"}
  /\ \/ my.istool = "mine" /\ usetool(After)
     \/ my.istool # "mine" /\ pc' = After /\ UNCHANGED <<my, world>>

Use ==
  /\ pc = "use"
  /\ world' \in UseCooker(world, my.gl)
  /\ pc' = "jiancai" /\ UNCHANGED my

\* A dish that is shown is picked until the player holds one; what it held
\* before will do, too.  Without a dish the cooker is used, if it is full.
jiancai ==
  /\ pc = "jiancai"
  /\ UNCHANGED my
  /\ IF Cooked(my.gl)
     THEN /\ world' \in PickBlock(world, my.gl)
          /\ pc' = IF world'.hand # None THEN "judge" ELSE pc
     ELSE IF world.hand # None THEN pc' = "judge" /\ UNCHANGED world
     ELSE /\ pc' = "play"
          /\ world' \in IF Full(my.gl) THEN UseCooker(world, my.gl) ELSE {world}

\* There is a task for it or not.
Judge ==
  /\ pc = "judge"
  /\ \/ Walk("submit") /\ UNCHANGED world
     \/ pc' = "play" /\ UNCHANGED my /\ world' \in ThrowAway(world)

submit ==
  /\ pc = "submit"
  /\ world' \in HandIn(world)
  /\ Walk("play")

-----------------------------------------------------------------------------
Runs ==
  \/ UseSelf \/ Arrive \/ Play \/ Look \/ Near \/ Use \/ jiancai \/ Judge \/ submit

\* Team mates throw food, cookers get ready, somebody else takes what is done.
Gift ==
  /\ \E p \in Pots : \E f \in Foods \ world.floor[p] : world' = [world EXCEPT !.floor[p] = @ \cup {f}]
  /\ UNCHANGED <<pc, my>>
Cooking ==
  /\ \E p \in {q \in Pots : world.pot[q].cooking} : world' = Ready(world, p)
  /\ UNCHANGED <<pc, my>>
Theft == world' \in Taken(world) /\ UNCHANGED <<pc, my>>

Next == PassTool \/ Throw \/ Runs \/ Gift \/ Cooking \/ Theft

-----------------------------------------------------------------------------
Using ==
  \/ Steps /\ my.istool \in {"self", "thrown"}
  \/ pc \in {"near", "nearFull"} /\ my.istool = "mine"

\* One command that is lost never makes it use another tool than it means to,
\* as a mine under its own feet: because it picks one only when it believes it
\* has none (36).  Two may.
UsesWhatItMeans == Using /\ world.faults <= 1 => world.tool \in {None, my.istool}

\* Its strengthening: as long as nothing is lost it knows what it has; once a
\* command is lost it may have less than it believes, or have something and
\* believe it has nothing.
KnowsItsTool ==
  /\ {"tool", "faults"} \subseteq DOMAIN world /\ "istool" \in DOMAIN my
  /\ world.faults \in Nat
  /\ world.faults = 0 => world.tool = my.istool
  /\ world.faults <= 1 => my.istool = None \/ world.tool \in {None, my.istool}

\* It comes back to the middle again and again, whatever fails, or waits there.
BackInTheMiddle == pc = "look"
=============================================================================
