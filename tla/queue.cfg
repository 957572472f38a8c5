SPECIFICATION Spec
CONSTANTS
  NULL = NULL
  Queue = {frontier, results}
  Value = {u1, u2}
  Node = {n1, n2, n3}
INVARIANTS
  WellLinked
PROPERTIES
  ImplementsFifo
