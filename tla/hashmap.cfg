SPECIFICATION Spec
CONSTANTS
  n_buckets = 2
  SizeMod = 8
  Value <- MCValue
INVARIANTS
  WellHashed
PROPERTIES
  ImplementsSet
