SPECIFICATION FairSpec
CONSTANTS
  o1 = o1
  o2 = o2
  r1 = r1
  None = None
  Obj = {o1, o2}
  Ref = {}
  Endpoints <- NoReferences
  Beacon <- NoReferences
  Oversized = {}
  Rejectable = {o1}
  InitialBatchSize = 2
  BatchSizes = {1}
  MaxPerRequest = 2
  MaxStreams = 3
  AwaitsNodes = FALSE
  Env = {"hangup", "error", "unreachable"}
INVARIANTS NothingLost ReportedAtExit
PROPERTIES Terminates
