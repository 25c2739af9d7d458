SPECIFICATION FairSpec
CONSTANTS
  Client = "rpc"
  Lag = FALSE
  Uses = {"stop", "precheck", "early"}
  Outcomes = {"toolUse", "error", "overflow"}
  RunFailures = FALSE
  MaxTexts = 2
  MaxAnswers = 3
  MaxRetries = 1
  MaxCompactions = 1
  MaxActs = 0
INVARIANTS
  RecoveryIsBounded
PROPERTIES
  PromptSettles
CHECK_DEADLOCK FALSE
