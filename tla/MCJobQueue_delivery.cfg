SPECIFICATION Spec
CONSTANTS
    r1 = r1
    c1 = c1
    w1 = w1
    w2 = w2
    Requests = {r1}
    Channels = {c1}
    Workers = {w1}
    Notify = {r1}
    Sweeps = {}
    RequestPriority <- SweepPriority
    Finished = {r1}
    MaxAttempts = 2
    FailureLimit = 2
    MaxClaims = 4
    MaxRestarts = 1
INVARIANTS
    OnlyLatestLease
    AttemptsBounded
    BackedByResults
PROPERTY ChannelStaysOff
\* A queue whose jobs have all ended has nothing left to do.
CHECK_DEADLOCK FALSE
