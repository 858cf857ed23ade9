CONSTANTS
  a = a
  b = b
  i = i
  Free = free
  Players <- TwoPlayers
  Items <- Nobody
  Width = 7
  Unit = 60
  Grain = 3
  Errors <- Exact
  Walls <- BothEnds
  Start <- NearTheWall
  Steps <- Run
  Aims <- NoGate
  MaxMoves <- Twice
SPECIFICATION Spec
INVARIANT OnePlayerPerCell
CHECK_DEADLOCK FALSE
