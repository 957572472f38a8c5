SPECIFICATION Spec
CONSTANTS
  Producer = {p1, p2}
  Consumer = {c1, c2}
  None = None
  B = 2
  NUM_SEGMENTS = 3
  Bad = {1}
  MaxFetchFailures = 1
  MaxForkFailures = 1
INVARIANTS
  TypeOK
  SemaphoreBalance
  NeverRefused
  StackExclusive
  Collected
  NeverStuck
PROPERTIES
  Ends
  ImplementsPipeline
CHECK_DEADLOCK FALSE
