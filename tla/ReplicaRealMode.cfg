SPECIFICATION Spec
CONSTANTS
  Cpus <- MCCpus
  Fan = 2
  Frames = 32
  RAM <- MCRAM
  KernelFrames <- MCKernel
  Roots <- MCRoots
  Virtual <- MCVirtual
  Backing <- MCBacking
  InitialCr <- MCInitialCr
  CrValues <- MCCrValues
  Values <- MCValues
  RealMode <- Both
  MaxStores = 2
PROPERTY StoreReachesMemory
CHECK_DEADLOCK FALSE
