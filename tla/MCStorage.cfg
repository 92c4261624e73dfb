SPECIFICATION MCSpec
CONSTANTS
  Drives = 2
  Plain = {"adf"}
  Packed = {"adz"}
  Dms = {}
  ReadOnly = {}
  Faults = {"none", "noTemp", "open", "size", "format", "pack", "close"}
  MaxWrites = 1
  MaxFaults = 1
  Units = 2
  File = {hdf1, hdf2}
  Content <- HardDisks
  NoHardFile = NoHardFile
  NoRdb = NoRdb
  Fast = TRUE
  Kickstarts <- KickstartSystems
SYMMETRY Same
INVARIANTS NoWriteIsLost ChangeIsSeen UnitsAreSound MountsAreRight
