SPECIFICATION Spec
CONSTANTS
  NThreads = 3
  NUM_SEGMENTS = 3
  bodies <- MCBodies
INVARIANTS
  TypeOK
  CountsStored
  OvershootBounded
  CompleteWhenGood
PROPERTIES
  Terminates
