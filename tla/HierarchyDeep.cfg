CONSTANTS
  Cpus = {0, 1}
  Blocks = {0, 1}
  Caches <- DeepCaches
  NoCache = "null"
  DataCache <- GemData
  InstrCache <- GemInstr
  Higher <- DeepHigher
  Level <- DeepLevel
  BusOf <- DeepBus
  NoBus = "null"
  Coherent <- DeepCaches
  MissFunc = {"llc"}
  Size <- DeepOneLine
  Assoc <- DeepOneLine
  MaxTime = 0
SPECIFICATION FairSpec
INVARIANTS SingleWriter FillOnlyWhatIsAbsent ServedByHigherLevel
PROPERTIES AccessReturns
