SPECIFICATION Spec
CONSTANTS
    r1 = r1
    c1 = c1
    w1 = w1
    w2 = w2
    Requests = {r1}
    Channels = {}
    Workers = {w1, w2}
    Notify = {}
    Sweeps = {}
    RequestPriority <- SweepPriority
    Finished = {}
    MaxAttempts = 2
    FailureLimit = 2
    MaxClaims = 4
    MaxRestarts = 0
INVARIANT FinishedOnce
\* A queue whose jobs have all ended has nothing left to do.
CHECK_DEADLOCK FALSE
