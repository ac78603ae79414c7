SPECIFICATION Spec
CONSTANTS
  Objects = 4
  References = 3
  MAX_STORED_RESULTS = 2
  MaxRetries = 2
CHECK_DEADLOCK FALSE
INVARIANTS LatestKept NoErrorOverwritten OutcomesApart
