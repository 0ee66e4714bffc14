CONSTANTS
  PAGE_SHIFT = 1
  PmdBits = 1
  PudBits = 2
  PfnBits = 4
  ZeroPfn = 5
SPECIFICATION Spec
INVARIANTS
  DescendsThroughTables
  PaddrCorrect
  FlagsCorrect
  UnmappedReported
CHECK_DEADLOCK FALSE
