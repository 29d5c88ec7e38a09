SPECIFICATION Spec
CONSTANTS
    Windows = {"main", "editor-1"}
    MaxRequests = 2
    MaxChanges = 1
    SlotFiles = 1
    ReadySets <- MCReady
INVARIANTS
  DiagnosticsSound
PROPERTIES
  UnknownKept
  ImplementsSlot
CHECK_DEADLOCK FALSE
