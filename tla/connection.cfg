SPECIFICATION FairSpec
CONSTANTS
  u1 = u1
  u2 = u2
  User = {u1}
  Kinds = {"password", "client", "bearer"}
  MaxSessions = 2
  MaxTokens = 3
  RetryLimit = 1
  Env <- Faults
INVARIANTS NothingLeaks FailsOnlyIfDisturbed Renewable
PROPERTIES ExpiredReplaced
