SPECIFICATION FairSpec
CONSTANTS
  w1 = w1
  v1 = v1
  v2 = v2
  Windows = {w1}
  Versions = {v1, v2}
  Elsewhere = Elsewhere
  NoVersion = NoVersion
  Startup = Startup
  MaxOps = 2
  MaxBytes = 2
  MaxEvents = 2
INVARIANTS
  UpdaterSound
  OverrunsOnlyLateEdits
PROPERTIES
  OperationsEnd
CHECK_DEADLOCK FALSE
