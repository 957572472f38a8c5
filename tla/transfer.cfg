SPECIFICATION Spec
CONSTANTS
  BUF_SIZE = 3
  BUF_INC = 2
  B = 2
  Chunk <- MCChunk
  Fragment = {5}
  Junk = Junk
  NULL = NULL
  MaxBody = 8
INVARIANTS
  BodyHeld
  HandedOn
