SPECIFICATION Spec
CONSTANTS
  Uses = {"label", "extract", "memory"}
  Disturbances = {}
  MaxEntries = 4
  MaxFiles = 1
PROPERTIES
  ExtractionKeepsContext
CHECK_DEADLOCK FALSE
