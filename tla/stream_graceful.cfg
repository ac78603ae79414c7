SPECIFICATION FairSpec
CONSTANTS
  o1 = o1
  o2 = o2
  r1 = r1
  None = None
  Obj = {o1, o2}
  Ref = {r1}
  Endpoints <- OneReference
  Beacon <- OneBeacon
  Oversized = {}
  Rejectable = {r1}
  InitialBatchSize = 2
  BatchSizes = {1}
  MaxPerRequest = 2
  MaxStreams = 3
  AwaitsNodes = FALSE
  Env = {"shutdown", "oom", "renew", "unreachable", "raises", "oom_wait"}
INVARIANTS SentOnce
PROPERTIES Delivered Terminates
