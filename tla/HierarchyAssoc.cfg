CONSTANTS
  Cpus = {0, 1}
  Blocks = {0, 1, 2}
  Caches <- PairCaches
  NoCache = "null"
  DataCache <- PairData
  InstrCache <- PairData
  Higher <- PairHigher
  Level <- PairLevel
  BusOf <- PairBus
  NoBus = "null"
  Coherent <- PairCaches
  MissFunc = {"c0", "c1"}
  Size <- PairTwo
  Assoc <- PairTwo
  MaxTime = 0
SPECIFICATION Spec
INVARIANTS TypeOK OneLinePerBlock
PROPERTIES CoherenceSpec
