SPECIFICATION Spec
CONSTANTS
  o1 = o1
  o2 = o2
  o3 = o3
  r1 = r1
  w1 = w1
  w2 = w2
  Obj = {o1, o2}
  Ref = {r1}
  Endpoints <- OneReference
  Generated = {}
  Rejectable = {o1, r1}
  Worker = {w1, w2}
  NumRefs = 1
  NumObjects = 1
  Modes = {"queue"}
  Loads <- AllLoads
  MaxStops = 1
  max_batch_size = 1
  ScaleUpStep = 1
  LowSize = 1
  BaseRequests = 1
  MAX_CONCURRENT_REQUESTS = 2
  VectorizerRequests = 2
  VECTORIZER_BATCHING_STEP_SIZE = 1
  RetryLimit = 0
  MaxThrottles = 2
  Env = {"call_fails", "submit_fails", "preempt"}
INVARIANTS TypeOK RequestsCounted ExactlyOnce
PROPERTIES ImplementsImport
