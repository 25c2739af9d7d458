SPECIFICATION Spec
CONSTANTS
  Uses = {"memory", "label", "branch", "setting", "extract", "compact"}
  Disturbances = {}
  MaxEntries = 4
  MaxFiles = 0
INVARIANTS
  TypeOK
  LabelsReplay
PROPERTIES
  ExtractionKeepsPlainPaths
  MessageExtendsContext
  CompactionKeepsRecent
CHECK_DEADLOCK FALSE
