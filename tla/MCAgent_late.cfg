SPECIFICATION Spec
CONSTANTS
  ToolExecution = "parallel"
  Modes = {"one-at-a-time"}
  Faults = {"hook"}
  AppCalls <- TurnCalls
  ResetWhileActive = FALSE
  MaxUser = 2
  MaxPrompt = 1
  MaxCalls = 2
  MaxToolTurns = 2
  MaxRuns = 2
INVARIANTS
  AgentEndIsLast
CHECK_DEADLOCK FALSE
