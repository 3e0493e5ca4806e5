CONSTANTS
  WorldSize = 8
  BatchSize = 2
  Lines = {7, 9}
  MaxAccesses = 7
SPECIFICATION Spec
INVARIANTS StoresInBounds
CHECK_DEADLOCK FALSE
