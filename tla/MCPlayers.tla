------------------------------ MODULE MCPlayers ------------------------------
(***************************************************************************)
(* An instance of Players: the client with the player and one thing on two *)
(* by one cells, and every program with few dishes and one fault.          *)
(***************************************************************************)
EXTENDS Players, TLC

CONSTANTS self, thing

Two == {self, thing}
OneThread == {Main}
X2 == {0, 1}
Y1 == {0}
At(s, t) == [o \in Two |-> IF o = self THEN s ELSE t]
ThreeMessages == {At(<<0, 0>>, Absent), At(<<1, 0>>, <<0, 0>>), At(<<1, 0>>, <<1, 0>>)}
MinusOne == -1

R88 == INSTANCE Recipes88
Blocks88 == R88!task_finish
EightMenus == { {"TomatoFriedEgg"}, {"TomatoFriedEgg", "TomatoFriedEggNoodle"},
  {"BeefNoodle"}, {"Barbecue"}, {"FrenchFries"}, {"Hamburger"}, {"CookedRice"}, {"OverRice"} }
OneMenu == {{"CookedRice"}}
TomatoAndEgg == {"Tomato", "Egg"}
FiveBoards ==
  {<<>>, <<"TomatoFriedEgg">>, <<"TomatoFriedEgg", "Barbecue">>, <<"CookedRice">>,
   <<"Hamburger", "Barbecue">>}
Picks83 ==
  250 :> "Tomato" @@ 2 :> "Egg" @@ 2090 :> "Pork" @@ 200 :> "Lettuce" @@ 3050 :> "Beef"
  @@ 3060 :> "Rice" @@ 17 :> "Egg" @@ 4010 :> "Wheat"
TwoFoods == <<<<6, 5>>, <<1, 4>>>>
OneCook == <<<<3, 1>>>>
TwoOrders == {{"TomatoFriedEgg"}, {"Barbecue"}}
\* Another player, or none; what lies where the partner of 85 sees it.
OneStands == {<<-1, -1>>, <<1, 0>>}
FarLying == {"Tomato", "TomatoFriedEgg"}
\* All that it has steps for, and one other dish.
AllTasks == {"CookedRice", "TomatoFriedEgg", "TomatoFriedEggNoodle", "BeefNoodle", "OverRice",
  "Barbecue", "FrenchFries", "Hamburger"}
\* Three of the four corners: see Walk79 for the other.
ThreeCorners == {<<25, 15>>, <<485, 25>>, <<25, 485>>}
TwoOrFour == {2, 4}
\* Walls with one way through, a trap, and one cell alone.
ThreeMazes == {{<<1, 1>>, <<1, 2>>}, {<<3, 1>>, <<2, 0>>, <<2, 2>>}, {<<2, 1>>}}
=============================================================================
