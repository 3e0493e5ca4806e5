CONSTANTS
  AmountCpus = 2
  MaxLevels = 3
  Chunk = 2
  Geometries <- MCGeometries
  Plan <- MCPlan
  MaxCaches = 4
  Worlds = {2, 4}
  Processors = 2
  MaxRanges = 3
  Registers = 4
  Dumped = 3
  IdMask = 8
  Names = {"load", "store", "cr", "invlpg", "tb"}
  None = None
  Inputs <- MCInputs
  PageSize = 8
  Level2 = 2
  Level1 = 4
  AddressLimit = 2000
  Base = 32
  WordBytes = 3
  InfoSizes = 4
  InfoStore = 8
  LineSize = 4
  Limit = 2
  CoordinatorLimit = 3
  Interval = 2
  UserPages = {2}
  Uncached = {2}
  Unmapped = {3}
  Events <- MCEvents
  GemEvents <- MCGemEvents
  MaxEvents = 3
  Lead = 1
  TableWords = {0, 56, 2001}
SPECIFICATION Spec
INVARIANTS SetupTypes LinksAgree BusJoinsLevel LevelsServed HalfBuiltConfined BuiltIsClimbable
  StartupTypes InputsArrive MemoryIsFlat LostOnlyInSplits LoopTypes TraceIsDecoded BlocksAreFetched CountsAgree
PROPERTIES PlanBuilt StartupSettles ProgramEnds
CHECK_DEADLOCK FALSE
