CONSTANTS
  a = a
  b = b
  Peer <- TwoPeers
  Booked <- TwoPeers
  Prompt <- OnlyA
  Slowest = 1
  PingInterval = 6
  PingBatch = 1
  BatchGap = 0
  DialTimeout = 2
  PingTimeout = 2
  CloseTimeout = 1
  IdleTimeout = 15
  Lookups <- SomeLookups
  ResolveAttempts = 2
  DialAttempts = 2
  SelfTrigger = TRUE
SPECIFICATION FairSpec
INVARIANTS
  TypeOK
  KeepsAlive
  InFlightBounded
  SeedsAreReached
PROPERTIES
  QuietAfterMessages
  PhasesEnd
CHECK_DEADLOCK FALSE
