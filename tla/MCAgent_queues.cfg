SPECIFICATION Spec
CONSTANTS
  ToolExecution = "sequential"
  Modes = {"all", "one-at-a-time"}
  Faults = {}
  AppCalls <- QueueCalls
  ResetWhileActive = FALSE
  MaxUser = 3
  MaxPrompt = 1
  MaxCalls = 2
  MaxToolTurns = 1
  MaxRuns = 2
INVARIANTS
  EachMessageInOnePlace
  RequestSeesTranscript
  RunReportsItsMessages
PROPERTIES
  ImplementsMailbox
CHECK_DEADLOCK FALSE
