------------------------------ MODULE Recipes88 ------------------------------
(***************************************************************************)
(* player_codes/88/player1.cpp, task_finish: what the program does for     *)
(* each dish, as a sequence of the instructions Player88 carries out.      *)
(* side0, side1 and side3 are the places beside the cookers pot0, pot1 and *)
(* pot3 where food is put down; a food point has the name of its food.     *)
(***************************************************************************)
EXTENDS Integers, Sequences

\* The instructions of a block.
GoTo(p) == <<[op |-> "go", to |-> p]>>
Walk(p) == <<[op |-> "walk", to |-> p]>>
Take(f) == <<[op |-> "take", dish |-> f]>>
TakeOnce(f) == <<[op |-> "takeOnce", dish |-> f]>>
Stage(d, p) == <<[op |-> "stage", dish |-> d, to |-> p]>>
Throw(p) == <<[op |-> "throw", to |-> p]>>
Clear(pot, side) == <<[op |-> "clear", pot |-> pot, side |-> side]>>
LoadOr(d, pot, forgets) == <<[op |-> "load", dish |-> d, pot |-> pot, forgets |-> forgets]>>
Load(d, pot) == LoadOr(d, pot, d)
Cook(pot) == <<[op |-> "cook", pot |-> pot], [op |-> "wait", pot |-> pot]>>
CookLong(pot) ==
  <<[op |-> "cook", pot |-> pot], [op |-> "again"], [op |-> "wait", pot |-> pot]>>
Collect(pot) == <<[op |-> "collect", pot |-> pot]>>
Unless(d, n) == <<[op |-> "unless", dish |-> d, skip |-> n]>>

Fetch(key, f, side) ==
  Unless(key, 4) \o GoTo(f) \o Take(f) \o GoTo(side) \o Stage(f, side)

\* checktask, then hand in, or leave the dish at the store (PREX, PREY).
Submit == GoTo("commit") \o <<[op |-> "submit"]>> \o GoTo("store") \o <<[op |-> "store"]>>

\* Mutant of LoadTomatoAndEgg: an egg that is missing is still believed in.
LoadTomatoOnly == Load("Tomato", "pot3") \o LoadOr("Egg", "pot3", "Tomato")

LoadTomatoAndEgg == Load("Tomato", "pot3") \o Load("Egg", "pot3")

CookTomatoFriedEgg ==
  Fetch("Egg", "Egg", "side3") \o Fetch("Tomato", "Tomato", "side3")
  \o GoTo("pot3") \o Clear("pot3", "side3") \o GoTo("side3")
  \o LoadTomatoAndEgg \o GoTo("pot3") \o CookLong("pot3") \o Collect("pot3")

TomatoFriedEgg == CookTomatoFriedEgg \o Submit

\* A TomatoFriedEgg that waits in the store is used, if there is one.
EggForNoodle ==
  <<[op |-> "unlessStored", skip |-> 4]>> \o GoTo("store") \o <<[op |-> "takeStored"]>>
  \o GoTo("side3") \o <<[op |-> "skip", skip |-> Len(CookTomatoFriedEgg)]>>
  \o CookTomatoFriedEgg \o Stage("TomatoFriedEgg", "side3")

CookFlour ==
  GoTo("pot3") \o Clear("pot3", "side3") \o GoTo("side3") \o Load("Wheat", "pot3")
  \o GoTo("pot3") \o Cook("pot3") \o Collect("pot3")

CookNoodle == Throw("pot3") \o Cook("pot3") \o Collect("pot3")

TomatoFriedEggNoodle ==
  EggForNoodle \o Fetch("Wheat", "Wheat", "side3") \o CookFlour \o CookNoodle
  \o Throw("pot3") \o GoTo("side3")
  \o <<[op |-> "hold", dish |-> "TomatoFriedEgg"]>> \o GoTo("pot3")
  \o <<[op |-> "unstage", dish |-> "TomatoFriedEgg", to |-> "pot3"]>>
  \o CookLong("pot3") \o Collect("pot3") \o Submit

\* Where no beef is found it is the noodle that is forgotten (895).
BeefNoodle ==
  Fetch("Wheat", "Wheat", "side3") \o CookFlour \o CookNoodle
  \o GoTo("side0") \o Stage("Noodle", "side0")
  \o Unless("Beef", 4) \o GoTo("Beef") \o TakeOnce("Beef") \o GoTo("side0")
  \o Stage("Beef", "side0")
  \o Walk("pot0") \o Clear("pot0", "side0") \o GoTo("side0")
  \o Load("Noodle", "pot0") \o LoadOr("Beef", "pot0", "Noodle")
  \o GoTo("pot0") \o CookLong("pot0") \o Collect("pot0") \o Submit

Barbecue ==
  Fetch("Pork", "Pork", "side1") \o Fetch("Lettuce", "Lettuce", "side1")
  \o GoTo("pot1") \o Clear("pot1", "side1") \o GoTo("side1")
  \o Load("Pork", "pot1") \o Load("Lettuce", "pot1")
  \o GoTo("pot1") \o CookLong("pot1") \o Collect("pot1") \o Submit

FrenchFries ==
  Fetch("Potato", "Potato", "side3") \o Fetch("Tomato", "Tomato", "side3")
  \o GoTo("pot3") \o Clear("pot3", "side3") \o GoTo("side3") \o Load("Tomato", "pot3")
  \o GoTo("pot3") \o Cook("pot3") \o Collect("pot3") \o Throw("pot3")
  \o GoTo("side3") \o Load("Potato", "pot3")
  \o GoTo("pot3") \o Cook("pot3") \o Collect("pot3") \o Submit

Bread ==
  Fetch("Egg", "Egg", "side3") \o Fetch("Wheat", "Wheat", "side3") \o CookFlour
  \o Throw("pot3") \o GoTo("side3") \o Load("Egg", "pot3")
  \o GoTo("pot3") \o Cook("pot3") \o Collect("pot3")
  \o GoTo("side0") \o Stage("Bread", "side0")

Hamburger ==
  Bread \o Fetch("Lettuce", "Lettuce", "side0") \o Fetch("Beef", "Beef", "side0")
  \o GoTo("pot0") \o Clear("pot0", "side0") \o GoTo("side0")
  \o Load("Bread", "pot0") \o Load("Beef", "pot0") \o Load("Lettuce", "pot0")
  \o GoTo("pot0") \o CookLong("pot0") \o Collect("pot0") \o Submit

CookedRice ==
  Fetch("Rice", "Rice", "side3")
  \o GoTo("pot3") \o Clear("pot3", "side3") \o GoTo("side3") \o Load("Rice", "pot3")
  \o GoTo("pot3") \o Cook("pot3") \o Collect("pot3") \o Submit

\* Rice is fetched unless there is wheat, which is never counted (1306).
OverRice ==
  Fetch("Wheat", "Rice", "side1") \o Fetch("Pork", "Pork", "side1")
  \o Fetch("Potato", "Potato", "side1")
  \o GoTo("pot1") \o Clear("pot1", "side1") \o GoTo("side1")
  \o Load("Rice", "pot1") \o Load("Pork", "pot1") \o Load("Potato", "pot1")
  \o GoTo("pot1") \o CookLong("pot1") \o Collect("pot1") \o Submit

task_finish ==
  [TomatoFriedEgg |-> TomatoFriedEgg, TomatoFriedEggNoodle |-> TomatoFriedEggNoodle,
   BeefNoodle |-> BeefNoodle, Barbecue |-> Barbecue, FrenchFries |-> FrenchFries,
   Hamburger |-> Hamburger, CookedRice |-> CookedRice, OverRice |-> OverRice]
=============================================================================
