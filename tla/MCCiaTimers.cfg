SPECIFICATION MCSpec
CONSTANTS
  Cia = {0}
  Ratio = 2
  Byte = 2
  Frame = 3
  RecheckDelay = 2
INVARIANTS TimersKeepTime EventIsEarliest
PROPERTIES TimersExpire
