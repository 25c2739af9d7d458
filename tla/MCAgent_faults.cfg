SPECIFICATION FairSpec
CONSTANTS
  ToolExecution = "parallel"
  Modes = {"all"}
  Faults = {"listener", "hook", "request"}
  AppCalls <- TurnCalls
  ResetWhileActive = FALSE
  MaxUser = 2
  MaxPrompt = 2
  MaxCalls = 2
  MaxToolTurns = 1
  MaxRuns = 2
INVARIANTS
  IdleIsClean
  CopiesAgree
  CallsAnsweredBeforeRequest
  PendingCallsTrackExecution
PROPERTIES
  RunsSettle
CHECK_DEADLOCK FALSE
