SPECIFICATION Spec
CONSTANTS
  Client = "interactive"
  Lag = FALSE
  Uses = {"followUp", "abort", "dequeue", "compact", "tree", "cancel", "bash", "custom"}
  Outcomes = {"toolUse", "error", "overflow"}
  RunFailures = TRUE
  MaxTexts = 2
  MaxAnswers = 2
  MaxRetries = 1
  MaxCompactions = 1
  MaxActs = 1
INVARIANTS
  TypeOK
  TranscriptIsContext
  MirrorsFollowQueues
  ToolResultsFollowCalls
  EachTextOnce
CHECK_DEADLOCK FALSE
