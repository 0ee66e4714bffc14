CONSTANTS
  PAGE_SHIFT = 1
  Frames = 3
  VPages = 2
  VPage = 0
  TypeBits = 1
  OffsetBits = 1
SPECIFICATION Spec
INVARIANT PgtableSupported
CHECK_DEADLOCK FALSE
