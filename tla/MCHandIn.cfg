CONSTANTS
  a = a
  m = m
  Teams <- OneTeam
  Movers <- OneMover
  TeamOf <- TeamOfMover
  Producer = producer
  Expiry = expiry
  Free = free
  Worth = 4
  Spiced = 5
  Loss = 3
  DishTypes = {dish}
  UIntMax = 3
  MaxPosts = 2
  MaxDishes = 2
  MaxHits = 1
SPECIFICATION FairSpec
INVARIANTS ScoresAdd LockInv
PROPERTY HandInsEnd
CHECK_DEADLOCK FALSE
