CONSTANTS
  a = a
  b = b
  i = i
  Free = free
  Players <- TwoPlayers
  Items <- OneItem
  Width = 7
  Unit = 60
  Grain = 3
  Errors <- Half
  Walls <- BothEnds
  Start <- NearTheWall
  Steps <- Walk
  Aims <- Gates
  MaxMoves <- Unevenly
SPECIFICATION FairSpec
PROPERTY OperationsEnd
INVARIANTS LockInv PlacedUnderLock ListedWhereItStands NobodyInAWall
CHECK_DEADLOCK FALSE
