CONSTANTS
  Cpus = {0, 1}
  Blocks = {0, 1}
  Caches <- GemCaches
  NoCache = "null"
  DataCache <- GemData
  InstrCache <- GemInstr
  Higher <- GemHigher
  Level <- GemLevel
  BusOf <- GemBus
  NoBus = "null"
  Coherent <- GemCaches
  MissFunc = {"llc"}
  Size <- GemOneLine
  Assoc <- GemOneLine
  MaxTime = 0
SPECIFICATION Spec
PROPERTIES EvictionReachesLower
