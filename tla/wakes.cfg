SPECIFICATION Spec
CONSTANTS
  r1 = r1
  r2 = r2
  None = None
  Runner = {r1, r2}
  Owner = {r1, r2}
  Wake = {1, 2, 3, 4, 5, 6}
  MaxAttempts = 2
  Disturbances = {"death", "throw", "event"}
  MaxHappen = 2
INVARIANTS TypeOK OneTick Handoff
PROPERTY StaleOwnerFenced
