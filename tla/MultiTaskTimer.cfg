CONSTANTS
  Handlers = {h1, h2, h3}
  Pool = {p1, p2}
  Delays = {1, 2}
  MayThrow = {h1}
  Control = Control
  MaxTime = 4
SPECIFICATION FairSpec
INVARIANTS HeadSubscribed AloneInTime TimerInv NeverStranded
PROPERTY EntriesDrain
CHECK_DEADLOCK FALSE
