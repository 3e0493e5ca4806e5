CONSTANTS
  BufSize = 4
  Sizes = {1, 2, 3, 4}
  TraceSize = 21
SPECIFICATION FairSpec
INVARIANTS TypeOK NoMutualWait
PROPERTIES StreamSpec PublishedBytesAreRead
CHECK_DEADLOCK FALSE
