SPECIFICATION Spec
CONSTANTS
  Uses = {"label", "extract", "fork"}
  Disturbances = {"crash", "empty"}
  MaxEntries = 5
  MaxFiles = 2
INVARIANTS
  ReloadIsFaithful
PROPERTIES
  AnsweredForkCopiesHistory
  FilesOnlyGrow
CHECK_DEADLOCK FALSE
