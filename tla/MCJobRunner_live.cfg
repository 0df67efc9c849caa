SPECIFICATION FairSpec
CONSTANTS
    j1 = j1
    j2 = j2
    j3 = j3
    j4 = j4
    r1 = r1
    r2 = r2
    r3 = r3
    u1 = u1
    u2 = u2
    NoJob = NoJob
    Jobs <- TwoJobs
    IgnoreRetry = {}
    Parents <- Chain
    Capacity = 1
    MaxRetries <- TwoTries
    Requests = {r1, r2}
    Users = {u1}
    Allowed <- Cancels
    Vacuumed = {}
    MaxUserOps = 1
    MaxTries = 3
    MaxRunnerStops = 1
    MaxWorkerStops = 1
    MaxTimeouts = 1
INVARIANTS AtMostOneExecution
PROPERTIES JobsEnd
CHECK_DEADLOCK FALSE
