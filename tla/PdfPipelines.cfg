SPECIFICATION ExportSpec
CONSTANTS
  w1 = w1
  w2 = w2
  a = a
  s1 = s1
  s2 = s2
  x = x
  y = y
  j1 = j1
  j2 = j2
  Windows = {w1, w2}
  Targets = {a}
  Snapshots = {s1, s2}
  Bodies = {x, y}
  JobIds = {j1, j2}
  MaxPages = 2
  PageSizes = {1}
  MaxPageBytes = 1
  MaxJobBytes = 2
  MaxActive = 2
  IdleTTL = 1
  MaxLifetime = 3
  ReaperInterval = 1
  MaxExport = 1
  PagesOf <- TwoAndOne
  Deadline = 2
  NoTarget = NoTarget
  NoSnapshot = NoSnapshot
  NoJob = NoJob
SYMMETRY Symmetry
INVARIANTS
  ExportSound
