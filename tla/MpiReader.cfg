CONSTANTS
  BufSize = 4
  Sizes = {1, 2, 3, 4}
  Buffered = 8
  TraceSize = 21
SPECIFICATION FairSpec
INVARIANTS TypeOK
PROPERTIES StreamSpec SentBytesAreRead
CHECK_DEADLOCK FALSE
