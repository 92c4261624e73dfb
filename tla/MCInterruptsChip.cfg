\* Three INTREQ bits on three levels, every vector even.
CONSTANTS
  ChipIrq <- ChipBits
  SrLevel = {0, 2, 3}
  CiaFlag <- NoFlag
  OddVector = {}
  ResetWhileStopped = TRUE
SPECIFICATION Spec
INVARIANTS
  RaiseAboveLevel
PROPERTIES
  EventuallyServiced
  RaiseIsTaken
