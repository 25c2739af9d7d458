SPECIFICATION ServicesSpec
CONSTANTS
  Parts = {"socket", "narrow", "auth", "settings", "first", "tui", "keys", "gateway", "compaction", "mom", "plan"}
  c1 = c1
  c2 = c2
  EarlyReturn = FALSE
  MaxConns = 3
  MaxInputs = 2
  p1 = p1
  p2 = p2
  Process = {p1, p2}
  MaxTokens = 3
  MaxKeys = 1
  Failures = {"network", "contention", "stale", "crash"}
  f1 = f1
  f2 = f2
  MaxSets = 4
  MaxReloads = 2
  Happens = {"contention", "edit"}
  a = a
  b = b
  MaxLines = 3
  Termux = {FALSE, TRUE}
  ClearOnShrink = {FALSE, TRUE}
  Interface = {"overlay", "stop"}
  MaxPressed = 3
  Pauses = {}
  MaxViewers = 2
  LateBodies = FALSE
  OneContext = TRUE
  MaxEntries = 6
  LongFirstTurns = FALSE
  MaxSaid = 3
  MaxAgain = 1
  Channel = {"crash"}
  MaxTasks = 3
  Planning = {}
SYMMETRY Lines
INVARIANTS
  ClientsAgree
  CredentialsSurvive
  SettingsSurvive
  TerminalIsFollowed
  ViewersFollowSessions
  CompactionsKeepHistory
  ContextFollowsChannel
  PlanIsFollowed
CHECK_DEADLOCK FALSE
