SPECIFICATION FlowSpec
CONSTANTS
  Docs = {d1, d2}
  Paths = {hwp1}
  HwpxPaths = {}
  Pages = {}
  NoDoc = NoDoc
  NoPath = NoPath
  Tasks = {t1}
  Nobody = Nobody
  Overlap <- OneAtATime
  Modal = {"open", "new", "close"}
  MaxContent = 4
  MaxRevision = 3
SYMMETRY Symmetry
INVARIANTS
  UnsavedWorkIsKnown
CHECK_DEADLOCK FALSE
