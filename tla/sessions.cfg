SPECIFICATION Spec
CONSTANTS
  Task = {1, 2}
  NoTask = 0
  Limits <- MCLimits
  RetryLimit = 1
  Job = {1, 2}
  MaxConcurrent = 1
  QueueSizes = {0, 1}
  Retries = 1
  MaxTrouble = 1
  MaxCancels = 1
  Worker = {1, 2}
  Unclaimed = 0
  Version = {1, 2}
  Synchronous = FALSE
  Deadline = TRUE
  MaxMisfortune = 2
  Timer = {1, 2}
  NoTimer = 0
  AutoHost = {1, 2}
  MaxAutoTurns = 3
  MaxMishaps = 1
INVARIANTS SessionsTypeOK SeatsAndSlotsHold OneRealOperation WakesOnce
PROPERTIES SettledStays SessionsSettle
CHECK_DEADLOCK FALSE
