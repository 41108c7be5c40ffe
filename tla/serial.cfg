SPECIFICATION SerialSpec
CONSTANTS
  s1 = s1
  s2 = s2
  e1 = e1
  none = none
  None = none
  Graph <- Serial
  Rank <- RankUp
  Pool = 4
  Scheduler = {s1, s2}
  Event = {}
  AgentReplays = 1
  OtherReplays = 1
  MaxAttempts = 2
  AgentResults = {"success", "blocked"}
  Costs = {1}
  Operators = {}
  WallClock = FALSE
  ExecutorThrows = FALSE
  MaxSegments = 2
  MaxOperations = 0
SYMMETRY Sym
INVARIANTS KernelTypeOK LaneExclusive ClosedIsQuiet
PROPERTIES SerializableRead ClosedAbsorbing SettledAbsorbing
CHECK_DEADLOCK FALSE
