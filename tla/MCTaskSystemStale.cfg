CONSTANTS
  rice = rice
  pot = pot
  Handlers = {t1, t2}
  MayThrow = {t1, t2}
  Pool = {p1, p2}
  Teams = {a}
  Producer = producer
  Delays = {2, 3}
  Control = Control
  MaxTime = 5
  DishTypes <- Types
  SpicedPot = pot
  SpicedPotFrom = 0
  SpicedPots = 1
  TaskTime <- Limits
  HandedIn = {rice}
  UIntMax = 7
SPECIFICATION TaskSpec
INVARIANT TasksKeepTheirLimit
CHECK_DEADLOCK FALSE
