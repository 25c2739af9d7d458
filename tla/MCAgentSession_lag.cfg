SPECIFICATION Spec
CONSTANTS
  Client = "interactive"
  Lag = TRUE
  Uses = {"bash"}
  Outcomes = {"toolUse"}
  RunFailures = FALSE
  MaxTexts = 2
  MaxAnswers = 2
  MaxRetries = 1
  MaxCompactions = 1
  MaxActs = 1
INVARIANT
  ToolResultsFollowCalls
CHECK_DEADLOCK FALSE
