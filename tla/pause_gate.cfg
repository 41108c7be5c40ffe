SPECIFICATION KernelSpec
CONSTANTS
  s1 = s1
  s2 = s2
  e1 = e1
  none = none
  None = none
  Graph <- Serial
  Rank <- RankUp
  Pool = 4
  Scheduler = {s1}
  Event = {}
  AgentReplays = 1
  OtherReplays = 1
  MaxAttempts = 2
  AgentResults = {"success"}
  Costs = {0}
  Operators = {"pause", "resume"}
  WallClock = FALSE
  ExecutorThrows = FALSE
  MaxSegments = 2
  MaxOperations = 1
PROPERTIES PauseGate
CHECK_DEADLOCK FALSE
