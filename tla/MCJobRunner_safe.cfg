SPECIFICATION Spec
CONSTANTS
    j1 = j1
    j2 = j2
    j3 = j3
    j4 = j4
    r1 = r1
    r2 = r2
    r3 = r3
    u1 = u1
    u2 = u2
    NoJob = NoJob
    Jobs <- ThreeJobs
    IgnoreRetry = {j1}
    Parents <- Join
    Capacity = 1
    MaxRetries <- OneTry
    Requests = {r1, r2}
    Users = {u1}
    Allowed <- AllButDone
    Vacuumed = {"done"}
    MaxUserOps = 1
    MaxTries = 2
    MaxRunnerStops = 1
    MaxWorkerStops = 0
    MaxTimeouts = 1
INVARIANTS ViewIsFresh  NoOrphan ParentsFirst
SYMMETRY RequestSymmetry
CHECK_DEADLOCK FALSE
