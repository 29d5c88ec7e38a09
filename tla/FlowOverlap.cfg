SPECIFICATION FlowSpec
CONSTANTS
  Docs = {d1, d2}
  Paths = {hwp1}
  HwpxPaths = {}
  Pages = {}
  NoDoc = NoDoc
  NoPath = NoPath
  Tasks = {t1, t2}
  Nobody = Nobody
  Overlap <- Anything
  Modal = {"open", "new", "save", "close"}
  MaxContent = 4
  MaxRevision = 2
SYMMETRY Symmetry
INVARIANTS
  FlowSound
CHECK_DEADLOCK FALSE
