SPECIFICATION Spec
CONSTANTS
  Tiles <- OneTile
  MapWidth = 32
  FieldBits = 3
  MaxBlocks = 1
INVARIANT PointsKept
CHECK_DEADLOCK FALSE
