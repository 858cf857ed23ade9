CONSTANTS
  a = a
  b = b
  c1 = c1
  Teams <- TwoTeams
  Users <- TwoTeams
  Pool = {c1}
  Foods <- RecipeOnly
  CookTime = 4
  MaxUses = 2
  Prompt = TRUE
SPECIFICATION Spec
INVARIANT ProtectionHolds
CHECK_DEADLOCK FALSE
