SPECIFICATION Spec
CONSTANTS
  o1 = o1
  o2 = o2
  o3 = o3
  r1 = r1
  w1 = w1
  w2 = w2
  Obj = {o1, o2, o3}
  Ref = {}
  Endpoints <- NoReferences
  Generated = {}
  Rejectable = {}
  Worker = {w1}
  NumRefs = 1
  NumObjects = 2
  Modes = {"fixed"}
  Loads <- NoLoads
  MaxStops = 0
  max_batch_size = 2
  ScaleUpStep = 1
  LowSize = 1
  BaseRequests = 1
  MAX_CONCURRENT_REQUESTS = 2
  VectorizerRequests = 2
  VECTORIZER_BATCHING_STEP_SIZE = 1
  RetryLimit = 0
  MaxThrottles = 2
  Env = {}
INVARIANTS GivesUp
