SPECIFICATION ExportSpec
CONSTANTS
  w1 = w1
  a = a
  s1 = s1
  x = x
  y = y
  j1 = j1
  Windows = {w1}
  Targets = {a}
  Snapshots = {s1}
  Bodies = {x}
  JobIds = {j1}
  MaxPages = 2
  PageSizes = {1}
  MaxPageBytes = 1
  MaxJobBytes = 2
  MaxActive = 2
  IdleTTL = 1
  MaxLifetime = 3
  ReaperInterval = 1
  MaxExport = 1
  PagesOf <- TwoAndOne
  Deadline = 2
  NoTarget = NoTarget
  NoSnapshot = NoSnapshot
  NoJob = NoJob
INVARIANT LateLeavesTarget
