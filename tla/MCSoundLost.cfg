CONSTANTS
  Capacity = 4
  BlockSize = 2
  LineSamples <- OneOrTwo
  Blocks = 3
  Polled = FALSE
  BufferLoss = TRUE
  ResetWhilePlaying = FALSE
SPECIFICATION Spec
PROPERTIES LostBufferIsRestored
CHECK_DEADLOCK FALSE
