SPECIFICATION Spec
CONSTANTS
  Client = "interactive"
  Lag = FALSE
  Uses = {"precheck"}
  Outcomes = {"error"}
  RunFailures = FALSE
  MaxTexts = 3
  MaxAnswers = 2
  MaxRetries = 1
  MaxCompactions = 1
  MaxActs = 1
INVARIANT
  QueuedTextsAreSent
CHECK_DEADLOCK FALSE
