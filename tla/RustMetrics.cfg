CONSTANTS
  MaxPeers = 2
  DLow = 2
  MaxInputs = 2
  Watched <- FourLines
SPECIFICATION FairSpec
INVARIANTS
  TypeOK
  SubscriptionsBalance
  GaugesFit
  PagesReadable
PROPERTIES
  MetricsSettle
CHECK_DEADLOCK FALSE
