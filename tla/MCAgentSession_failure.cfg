SPECIFICATION FairSpec
CONSTANTS
  Client = "rpc"
  Lag = FALSE
  Uses = {}
  Outcomes = {"error"}
  RunFailures = TRUE
  MaxTexts = 2
  MaxAnswers = 2
  MaxRetries = 1
  MaxCompactions = 1
  MaxActs = 1
PROPERTY
  PromptSettles
CHECK_DEADLOCK FALSE
