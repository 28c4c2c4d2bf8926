CONSTANTS
  n1 = n1
  n2 = n2
  n3 = n3
  m1 = m1
  m2 = m2
  None = None
  Node <- ThreeNodes
  Message <- TwoMessages
  Chunks = 2
  SelfTriggered <- First
  MaxLost = 1
SPECIFICATION FairSpec
INVARIANTS
  TypeOK
  ReportsAreWhole
PROPERTIES
  MeasuresOnce
  WholeIsReported
CHECK_DEADLOCK FALSE
