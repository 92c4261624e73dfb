SPECIFICATION LineSpec
CONSTANTS
  Disk <- OddTracks
  Raw = {}
  PlainSyncs <- Known
  SyncWords <- Loading
  Gap = 2
  LineWords = 2
  WaitInitial = 1
  Overrun = 0
  Lengths = {3}
  Ports <- PortWrites
  Noise = {9}
  Words = {0, 1, 2}
  Times = {2, 8}
  Line = 3
  Frame = 6
  Blocks = 3
  BlockLengths = {1, 2, 3}
  Periods = {1, 2}
  Full = 2
  Steps = 2
  Byte = 2
INVARIANTS TransferIsRight TransferEndsInTime WordsAreSent BlocksFollow CounterIsRight
