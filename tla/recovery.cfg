SPECIFICATION RecoverySpec
CONSTANTS
  Proc = {p1, p2}
  Nobody = Nobody
  Stalls = TRUE
  MaxCalls = 2
  MaxCrashes = 1
  Daemon = {d1, d2, d3}
  NoDaemon = NoDaemon
  MaxDaemonFaults = 1
  Caller = {c1, c2, c3}
  NoCaller = NoCaller
  MaxLeaks = 1
INVARIANTS RecoveryTypeOK OneScheduler OneProbe
PROPERTIES NewerFailureStands EverythingRecovers
CHECK_DEADLOCK FALSE
