SPECIFICATION Spec
CONSTANTS
  Proc = {p1, p2, p3}
  Nobody = Nobody
  Stalls = FALSE
  MaxCalls = 2
  MaxCrashes = 1
INVARIANTS MutualExclusion
CHECK_DEADLOCK FALSE
