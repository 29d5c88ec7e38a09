SPECIFICATION ProgramsSpec
CONSTANTS
  Main = "main"
  Others = {"w1"}
  NoWindow = "none"
  MaxFiles = 2
  MaxReloads = 2
  MaxTurns = 2
  MaxFailures = 2
  TempDirs = {"d1", "d2", "d3"}
  MaxScan = 3
  MaxRemovals = 1
  MaxPageFiles = 1
  MaxIncidents = 2
  MaxInput = 1
  Chunk = 2
  PipeFrames = 1
  ChannelBound = 2
  MaxStrays = 1
  MaxReplaced = 2
  Windows = {"w1", "w2", "w3"}
  Targets = {"a", "b", "c"}
  Snapshots = {"s1", "s2"}
  Bodies = {"x"}
  JobIds = {1, 2, 3}
  MaxPages = 2
  PageSizes = {1, 2}
  MaxPageBytes = 2
  MaxJobBytes = 2
  MaxActive = 2
  IdleTTL = 1
  MaxLifetime = 2
  ReaperInterval = 1
  MaxExport = 1
INVARIANTS
  ProgramsTypeOK
  FilesKept
  JobsSound
  RenderingSound
  ThumbnailerSound
PROPERTIES
  NothingCutShort
  LaunchedIsOpened
  PrintEnds
  WaitEnds
  OrphansGo
  ForeignSafe
  CallReturns
  SupervisorEnds
CHECK_DEADLOCK FALSE
