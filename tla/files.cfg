SPECIFICATION FilesSpec
CONSTANTS
  instance = instance
  a1 = a1
  Process = {p, q}
  Nobody = Nobody
  NoProcess = NoProcess
  RecordId <- MCRecordId
  Header <- MCHeader
  Kinds <- MCKinds
  Interval = 1
  Batch = 1
  MaxEvents = 4
  MaxBeats = 1
  MaxDeaths = 1
  MaxLosses = 1
  LossDuringPrune = FALSE
  Client = {c1, c2}
  MaxMessages = 4
  MaxMisfortunes = 2
  Proc = {p1, p2, p3}
  Stalls = FALSE
  MaxCalls = 2
  MaxCrashes = 0
INVARIANTS FilesTypeOK JournalSound WriterIsRight LockKept
PROPERTIES LogImplemented
CHECK_DEADLOCK FALSE
SYMMETRY Sym
