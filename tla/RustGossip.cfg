CONSTANTS
  n1 = n1
  n2 = n2
  m1 = m1
  m2 = m2
  m3 = m3
  None = None
  Node <- TwoNodes
  Message <- ThreeMessages
  Distinct <- Alone
  Sizes <- AllSizes
  Stamp <- Times
  Chunks = 2
  MaxLost = 1
SPECIFICATION FairSpec
INVARIANTS
  TypeOK
  CountsAreExact
  ReportsAreWhole
PROPERTIES
  MeasuresOnce
  WholeIsReported
CHECK_DEADLOCK FALSE
