SPECIFICATION AsyncFairSpec
CONSTANTS
  o1 = o1
  o2 = o2
  r1 = r1
  None = None
  Obj = {o1, o2}
  Ref = {r1}
  Endpoints <- OneReference
  Beacon <- OneBeacon
  Oversized = {}
  Rejectable = {r1}
  InitialBatchSize = 2
  BatchSizes = {1}
  MaxPerRequest = 2
  MaxStreams = 2
  AwaitsNodes = FALSE
  Env <- TaskEvents
INVARIANTS IndicesDiffer NothingLost ReportedAtExit
PROPERTIES ImplementsImport Terminates
CHECK_DEADLOCK FALSE
