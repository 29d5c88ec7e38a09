SPECIFICATION FlowSpec
CONSTANTS
  Docs = {d1, d2, d3}
  Paths = {hwp1}
  HwpxPaths = {}
  Pages = {}
  NoDoc = NoDoc
  NoPath = NoPath
  Tasks = {t1}
  Nobody = Nobody
  Overlap <- OneAtATime
  Modal = {"open", "new", "save", "close"}
  MaxContent = 5
  MaxRevision = 3
SYMMETRY Symmetry
INVARIANTS
  AllAgree
  UnsavedWorkIsKnown
PROPERTIES
  NoSilentDiscard
  ImplementsSessions
CHECK_DEADLOCK FALSE
