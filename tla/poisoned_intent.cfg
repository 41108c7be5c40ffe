SPECIFICATION KernelSpec
CONSTANTS
  s1 = s1
  s2 = s2
  e1 = e1
  none = none
  None = none
  Graph <- Late
  Rank <- RankUp
  Pool = 7
  Scheduler = {s1}
  Event = {}
  AgentReplays = 1
  OtherReplays = 1
  MaxAttempts = 2
  AgentResults = {"success", "parked"}
  Costs = {0}
  Operators = {}
  WallClock = FALSE
  ExecutorThrows = FALSE
  MaxSegments = 3
  MaxOperations = 0
INVARIANTS NoPoisonedIntent
CHECK_DEADLOCK FALSE
