SPECIFICATION FairSpec
CONSTANTS
  Targets = {s1, s2}
  MaxSaves = 3
  MaxLosses = 1
  MaxCrashes = 1
INVARIANTS
  LastSaveWins
PROPERTIES
  NoUploadBeginsPrivate
  CopyIsRestored
CHECK_DEADLOCK FALSE
