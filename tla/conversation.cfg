SPECIFICATION Spec
CONSTANTS
  Call = {c1, c2}
  MaxRecoveries = 1
  TokenLimit = 1
  MaxVerify = 1
  MaxTurns = 2
  MaxBatches = 2
  Budget = 3
  MaxSubmits = 2
  MaxInterrupts = 1
  Request = {a, b}
  RepeatLimit = 3
  PollingLimit = 5
  AlternationWindow = 4
  FailureLimit = 3
  SoftLimit = 2
  IdleLimit = 3
  RecurringLimit = 2
  RecurringWindow = 2
  MaxGuarded = 5
INVARIANTS TalkTypeOK RunsEndWell GuardsSound
PROPERTIES EveryPromptEnds
CHECK_DEADLOCK FALSE
