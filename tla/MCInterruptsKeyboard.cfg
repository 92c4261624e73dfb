\* The keyboard's reset comes while the CPU is in STOP: nothing wakes it.
CONSTANTS
  ChipIrq <- CiaBits
  SrLevel = {0, 7}
  CiaFlag <- NoFlag
  OddVector = {}
  ResetWhileStopped = TRUE
SPECIFICATION Spec
PROPERTIES
  KeyboardResetRestarts
