SPECIFICATION Spec
CONSTANTS
  Targets = {s1}
  MaxSaves = 2
  MaxLosses = 1
  MaxCrashes = 0
PROPERTIES
  NeverUploadedPrivate
CHECK_DEADLOCK FALSE
