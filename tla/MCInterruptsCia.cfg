\* Both CIAs and only their two INTREQ bits, one flag each; the vector of
\* level 6 is odd.
CONSTANTS
  ChipIrq <- CiaBits
  SrLevel = {0, 2, 7}
  CiaFlag <- OneFlag
  OddVector = {6}
  ResetWhileStopped = FALSE
SPECIFICATION Spec
INVARIANTS
  TypeOK
  NoLostInterrupt
  NoLostCiaInterrupt
  StoppedIffDescheduled
