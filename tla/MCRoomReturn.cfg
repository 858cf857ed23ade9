CONSTANTS
  ann = ann
  bob = bob
  cyd = cyd
  Clients <- TwoClients
  Conns <- ThreeConns
  MaxDrops = 1
  Capacity = 2
SPECIFICATION FairSpec

PROPERTY IdComesBack
CHECK_DEADLOCK FALSE
