SPECIFICATION FairSpec
CONSTANTS
  u1 = u1
  u2 = u2
  upper = upper
  lower = lower
  User = {u1, u2}
  Name = {upper}
  Id = {lower}
  Lower <- ToLower
  MaxRuns <- RunsOnce
INVARIANTS Truthful CanceledOnRequest
PROPERTIES WaitingEnds
