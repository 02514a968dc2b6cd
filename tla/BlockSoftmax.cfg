CONSTANTS
  BlockSize = 4
  Cols = 6
SPECIFICATION Spec
CHECK_DEADLOCK FALSE
INVARIANTS AgreesWithReference
