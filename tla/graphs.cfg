SPECIFICATION Spec
CONSTANTS
  s1 = s1
  e1 = e1
  none = none
  None = none
INVARIANTS LimitsHold JoinsRight ResumedOnce
PROPERTIES EventBeatsTimer Progress
CHECK_DEADLOCK FALSE
