SPECIFICATION Spec
CONSTANTS
  d1 = d1
  hwp1 = hwp1
  hwpx1 = hwpx1
  Docs = {d1}
  Paths = {hwp1, hwpx1}
  HwpxPaths = {hwpx1}
  Pages = {0}
  NoDoc = NoDoc
  NoPath = NoPath
  MaxContent = 3
  MaxRevision = 3
PROPERTIES
  FailedCommitLeavesSession
CHECK_DEADLOCK FALSE
