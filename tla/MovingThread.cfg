CONSTANTS
  None = none
  Setters = {a, b}
  Movers = {m1, m2}
  Speeds = {0, 1}
  MaxSets = 3
SPECIFICATION FairSpec
PROPERTY StartedMoves
INVARIANTS NoLostWakeup MovingInv
CHECK_DEADLOCK FALSE
