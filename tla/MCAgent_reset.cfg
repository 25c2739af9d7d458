SPECIFICATION Spec
CONSTANTS
  ToolExecution = "parallel"
  Modes = {"one-at-a-time"}
  Faults = {}
  AppCalls <- QueueCalls
  ResetWhileActive = TRUE
  MaxUser = 2
  MaxPrompt = 1
  MaxCalls = 2
  MaxToolTurns = 2
  MaxRuns = 2
INVARIANTS
  StreamingWhileActive
CHECK_DEADLOCK FALSE
