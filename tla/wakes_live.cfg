SPECIFICATION FairSpec
CONSTANTS
  r1 = r1
  None = None
  Runner = {r1}
  Owner = {r1}
  Wake = {1, 2, 3, 4, 5, 6}
  MaxAttempts = 0
  Disturbances = {"death", "stall", "event", "lost delivery", "pause", "resume"}
  MaxHappen = 1
PROPERTIES WorkServed PauseSettles
