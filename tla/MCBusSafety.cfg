CONSTANTS
  LineCycles = 2
  LongLines = 2
  ShortLines = 1
  Latency = 2
  CopperStart = 1
  CopperStep = 2
  CopperPenalty = 1
  CopperWait <- Wait
  CpuTime <- Times
  AbortTime <- Abort
  CiaDelay <- Cias
  BlitDelay <- Blits
  HostUses <- Nothing
  StaleClock = TRUE
  Disable = 31
SPECIFICATION Spec
INVARIANTS TypeOK QueueConsistent NothingOverdue RasterInStep
PROPERTIES ImplementsTimers
