CONSTANTS
  h1 = h1
  h2 = h2
  HubAddrs <- TwoHubs
  Attempts = 2
  DialTimeout = 2
  MaxBackoff = 1
  Interval = 3
  MaxChanges = 2
SPECIFICATION FairSpec
INVARIANTS
  TypeOK
  CallsBounded
  AgeBounded
PROPERTIES
  HubsRegained
