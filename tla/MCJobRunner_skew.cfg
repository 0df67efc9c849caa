SPECIFICATION Spec
CONSTANTS
    j1 = j1
    j2 = j2
    j3 = j3
    j4 = j4
    r1 = r1
    r2 = r2
    r3 = r3
    u1 = u1
    u2 = u2
    NoJob = NoJob
    Jobs <- ThreeJobs
    IgnoreRetry = {}
    Parents <- Join
    Capacity = 2
    MaxRetries <- OneTry
    Requests = {r1, r2}
    Users = {u1}
    Allowed <- SetsFailedDone
    Vacuumed = {}
    MaxUserOps = 1
    MaxTries = 3
    MaxRunnerStops = 0
    MaxWorkerStops = 0
    MaxTimeouts = 0
INVARIANTS NoOrphan
CHECK_DEADLOCK FALSE
