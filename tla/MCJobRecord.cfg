CONSTANTS
    Patterns <- MCPatterns
    ErrorSeconds = {0, 1}
    MaxRetries = 3
    RetryInterval = 2
    PgRetry = 1
    EnqueuedDelta = 1
    RemovalInterval = 3
    MaxTime = 7
    MaxTries = 4
    None = None
SPECIFICATION Spec
INVARIANTS  TriesAreLimited
  
CHECK_DEADLOCK FALSE
