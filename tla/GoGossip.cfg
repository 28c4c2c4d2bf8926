CONSTANTS
  n1 = n1
  n2 = n2
  n3 = n3
  m1 = m1
  m2 = m2
  None = None
  Node <- ThreeNodes
  Message <- OneMessage
  Sizes <- AllSizes
  Chunks = 2
  MaxLost = 1
SPECIFICATION FairSpec
INVARIANTS
  TypeOK
  ReportsAreWhole
PROPERTIES
  MeasuresOnce
  PublisherMeasuresItself
CHECK_DEADLOCK FALSE
