SPECIFICATION FlowSpec
CONSTANTS
  Docs = {d1, d2}
  Paths = {hwp1}
  HwpxPaths = {}
  Pages = {}
  NoDoc = NoDoc
  NoPath = NoPath
  Tasks = {t1, t2}
  Nobody = Nobody
  Overlap <- SaveAndNew
  Modal = {}
  MaxContent = 4
  MaxRevision = 3
SYMMETRY Symmetry
PROPERTIES
  OwnBodySaved
CHECK_DEADLOCK FALSE
