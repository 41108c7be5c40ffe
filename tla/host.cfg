SPECIFICATION HostFairSpec
CONSTANTS
  o1 = o1
  o2 = o2
  o3 = o3
  wa = wa
  wb = wb
  r = r
  s = s
  NoOwner = NoOwner
  Owner = {o1, o2, o3}
  Workspace = {wa, wb}
  Resource = {r, s}
  Requests <- MCRequests
  TurnLimit = 1
  ShareLimit = 2
  NormalizeAt = 2
  MaxLead = 2
  MaxFaults = 1
INVARIANTS HostTypeOK AdmissionSound
PROPERTIES NoHostStarvation
CHECK_DEADLOCK FALSE
