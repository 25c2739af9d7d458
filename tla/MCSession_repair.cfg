SPECIFICATION Spec
CONSTANTS
  Uses = {}
  Disturbances = {"empty"}
  MaxEntries = 3
  MaxFiles = 1
INVARIANTS
  FileIsWellFormed
CHECK_DEADLOCK FALSE
