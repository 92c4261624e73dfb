CONSTANTS
  LineCycles = 3
  LongLines = 2
  ShortLines = 1
  Latency = 2
  CopperStart = 1
  CopperStep = 2
  CopperPenalty = 1
  CopperWait <- Wait
  CpuTime <- Times
  AbortTime <- LongAbort
  CiaDelay <- Nothing
  BlitDelay <- Nothing
  HostUses <- User
  StaleClock = FALSE
  Disable = 31
SPECIFICATION Spec
INVARIANTS InterruptInTime
PROPERTIES StopIsHonoured RasterKeepsMoving
