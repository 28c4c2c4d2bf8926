CONSTANTS
  p1 = p1
  p2 = p2
  p3 = p3
  Self = Self
  Service = Service
  Peer <- Peers
  Targets <- SomeTargets
  Attempts = 2
SPECIFICATION FairSpec
INVARIANTS
  TypeOK
  DialsToTarget
  ServesConnected
PROPERTY SetupEnds
CHECK_DEADLOCK FALSE
