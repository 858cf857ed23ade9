CONSTANTS
  a = a
  b = b
  c1 = c1
  Teams <- TwoTeams
  Users <- OneTeam
  Pool = {c1}
  Foods <- EveryProduct
  CookTime = 2
  MaxUses = 2
  Prompt = TRUE
SPECIFICATION FairSpec
INVARIANTS NeverStuck FreshWillBurn
PROPERTIES CookingEnds FreshDishesGo
CHECK_DEADLOCK FALSE
