CONSTANTS
  n1 = n1
  n2 = n2
  n3 = n3
  m1 = m1
  m2 = m2
  None = None
  Node <- TwoNodes
  Message <- OneMessage
  Sizes <- AllSizes
  Chunks = 2
  MaxLost = 0
SPECIFICATION Spec
INVARIANT FragmentsDiffer
CHECK_DEADLOCK FALSE
