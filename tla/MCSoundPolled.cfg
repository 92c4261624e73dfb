CONSTANTS
  Capacity = 4
  BlockSize = 2
  LineSamples <- OneOrTwo
  Blocks = 3
  Polled = TRUE
  BufferLoss = TRUE
  ResetWhilePlaying = TRUE
SPECIFICATION Spec
CHECK_DEADLOCK FALSE
INVARIANTS OneOwner
PROPERTIES PlayReturns StopCompletes
