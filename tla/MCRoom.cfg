CONSTANTS
  ann = ann
  bob = bob
  cyd = cyd
  Clients <- ThreeClients
  Conns <- ThreeConns
  MaxDrops = 1
  Capacity = 2
SPECIFICATION FairSpec
INVARIANTS SlotInv SlotKept RoomHolds
PROPERTY RoomFills
CHECK_DEADLOCK FALSE
