SPECIFICATION ServicesSpec
CONSTANTS
  one = one
  two = two
  hwp1 = hwp1
  hwpx1 = hwpx1
  Docs = {one, two}
  Paths = {hwp1, hwpx1}
  HwpxPaths = {hwpx1}
  Pages = {0}
  NoDoc = NoDoc
  NoPath = NoPath
  MaxContent = 3
  MaxRevision = 3
  a = a
  b = b
  c = c
  Documents = {a, b, c}
  MaxRecent = 2
  MaxLists = 2
  MaxMishaps = 1
  Views = {one, two}
  MaxSaves = 2
  MaxLooks = 1
  MaxTroubles = 1
  Callers = {"c1", "c2"}
  Runtimes = {"r1", "r2"}
  NoRuntime = "none"
  ExtensionCount = 2
  Handlers = {"viewer"}
  Missing = "absent"
  Ours = "ours"
  MaxEdits = 1
  MaxFaults = 2
  Threads = {one, two}
  Objects = {"o1", "o2"}
  NoObject = "none"
  MaxReferences = 1
  MaxLocks = 1
  MaxInput = 1
  Chunk = 2
SYMMETRY Symmetry
INVARIANTS
  ServicesTypeOK
  SessionsSound
  ListIsTrue
  FontsAgree
  WaitersAreServed
  RegistrationSound
  ServerSound
PROPERTIES
  OverwritesKnownOrLater
  RevisionSpentOnce
  LossIsExplained
  LastWishOnly
  OthersKept
CHECK_DEADLOCK FALSE
