CONSTANTS
  r1 = r1
  r2 = r2
  r3 = r3
  None = None
  Request <- ThreeRequests
  Sizes <- AllSizes
  Chunks = 2
  Capacity = 1
  MaxClock = 2
SPECIFICATION FairSpec
INVARIANTS
  TypeOK
  LockConsistent
  Custody
  AnswerTellsOutcome
  CounterLag
PROPERTIES
  FirstInFirstOut
  PublishesAtOnce
  EveryRequestEnds
