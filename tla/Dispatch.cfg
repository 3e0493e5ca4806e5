CONSTANTS
  WorldSize = 11
  BatchSize = 2
  Lines = {7, 9}
  MaxAccesses = 7
SPECIFICATION FairSpec
INVARIANTS TypeOK StoresInBounds NoWriteInTransit
PROPERTIES WorkersInOrder FullBatchesSimulated
CHECK_DEADLOCK FALSE
