CONSTANTS
  Capacity = 4
  BlockSize = 2
  LineSamples <- OneOrTwo
  Blocks = 3
  Polled = FALSE
  BufferLoss = FALSE
  ResetWhilePlaying = FALSE
SPECIFICATION Spec
INVARIANTS TypeOK WholeBlocksInOrder
