CONSTANTS
  Cpus = {0, 1}
  Blocks = {0, 1}
  Caches <- PairCaches
  NoCache = "null"
  DataCache <- PairData
  InstrCache <- PairData
  Higher <- PairHigher
  Level <- PairLevel
  BusOf <- PairBus
  NoBus = "null"
  Coherent <- PairCaches
  MissFunc = {"c0", "c1"}
  Size <- PairFour
  Assoc <- PairTwo
  MaxTime = 0
SPECIFICATION Spec
INVARIANTS SingleWriter
