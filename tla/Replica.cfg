SPECIFICATION Spec
CONSTANTS
  Cpus <- MCTwoCpus
  Fan = 2
  Frames = 32
  RAM <- MCRAM
  KernelFrames <- MCKernel
  Roots <- MCRoots
  Virtual <- MCVirtual
  Backing <- MCBacking
  InitialCr <- MCInitialCr
  CrValues <- MCCrValues
  Values <- MCValues
  RealMode <- OnlySimple
  MaxStores = 1
INVARIANTS TypeOK TablesAgree TranslatesLikeGuest ForwardsGuestAccess
CHECK_DEADLOCK FALSE
