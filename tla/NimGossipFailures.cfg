CONSTANTS
  n1 = n1
  n2 = n2
  n3 = n3
  m1 = m1
  m2 = m2
  None = None
  Node <- TwoNodes
  Message <- OneMessage
  Chunks = 2
  SelfTriggered <- First
  MaxLost = 0
SPECIFICATION Spec
INVARIANT FailuresCounted
CHECK_DEADLOCK FALSE
