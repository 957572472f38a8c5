SPECIFICATION Spec
CONSTANTS
  B = 2
  P = 1
  C = 2
  NUM_SEGMENTS = 2
  NUM_ITEMS = 2
  STACK_SIZE = 3
  NUM_CHILD = 3
  BUF_SIZE = 3
  Bodies <- MCBodies
  Run <- PasterOnly
  Layouts <- BadLayouts
  FirstId = 1
  MaxFailures = 1
INVARIANTS
  ItemsRightAfter
