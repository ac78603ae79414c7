SPECIFICATION Spec
CONSTANTS
  o1 = o1
  o2 = o2
  r1 = r1
  None = None
  Obj = {o1, o2}
  Ref = {r1}
  Endpoints <- OneReference
  Beacon <- OneBeacon
  Oversized = {}
  Rejectable = {o1, r1}
  InitialBatchSize = 2
  BatchSizes = {1}
  MaxPerRequest = 2
  MaxStreams = 2
  AwaitsNodes = TRUE
  Env <- Everything
INVARIANTS TypeOK AtMostOneOutcome RefsAfterObjects
PROPERTIES ImplementsImport
CHECK_DEADLOCK FALSE
