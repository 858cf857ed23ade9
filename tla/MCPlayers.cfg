CONSTANTS
  Programs = {"client", "limit", "83", "88", "92a", "92b", "105", "87", "87path", "84", "84walk",
    "85", "85partner", "85talk", "85walk",
    "79", "79partner", "79walk"}
  self = self
  thing = thing
  Objects <- Two
  Xs <- X2
  Ys <- Y1
  Main = Main
  Readers <- OneThread
  Messages <- ThreeMessages
  Receiver = Receiver
  Nobody = Nobody
  Absent = Absent
  SightRange = 1
  NoId <- MinusOne
  Id = 1
  Self = self
  MaxInbox = 1
  MaxDrops = 1
  SendTimeLimit = 3
  Slack = 1
  MaxFaults = 1
  Given <- TomatoAndEgg
  Boards <- FiveBoards
  Spawn <- Picks83
  Blocks <- Blocks88
  Menus <- EightMenus
  Partnered <- OneMenu
  Edge = 8
  Sought <- TwoFoods
  Cookers <- OneCook
  Centre = 4
  Orders <- TwoOrders
  Columns = 2
  Rows = 3
  Width = 4
  Height = 3
  Mazes <- ThreeMazes
  Patience = 20
  Standing <- OneStands
  max_go_time = 5
  MaxWait = 2
  Lying <- FarLying
  max_speak = 2
  TaskList <- AllTasks
  Born <- ThreeCorners
  Strides <- TwoOrFour
SPECIFICATION PlayersSpec
INVARIANTS
  MapInv CopiesAgree Shown KnowsItself
  FriendStops WaysAreRight UsesWhatItMeans ActsOnWholeCells NeverPastItsAim
PROPERTIES PlayGoesOn AtMostThree RoundsGoOn

\* The connection is down for good, or a program sleeps for ever.
CHECK_DEADLOCK FALSE
