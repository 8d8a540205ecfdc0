SPECIFICATION MCSpec
CONSTANTS
    r1 = r1
    c1 = c1
    w1 = w1
    w2 = w2
    Requests = {r1}
    Channels = {c1}
    Workers = {w1}
    Notify = {r1}
    Sweeps = {}
    RequestPriority <- SweepPriority
    Finished = {}
    MaxAttempts = 2
    FailureLimit = 2
    MaxClaims = 4
    MaxRestarts = 1
    b1 = b1
    b2 = b2
    Tabs = {b1, b2}
    MaxCalls = 3
    MaxSessions = 2
    x1 = x1
    x2 = x2
    Runs = {x1, x2}
    RunKind <- RunKinds
    Settings = {1, 2}
    MaxHalts = 1
    l1 = l1
    l2 = l2
    g1 = g1
    d1 = d1
    d2 = d2
    AnalysisCalls = {l1, l2, g1}
    Asked <- AskedFor
    DecisionCalls = {d1, d2}
    MaxStops = 1
INVARIANTS
    RefusedForCause
    LocalConnectedIsProven
    LineupsAreLatest
    DecisionsStand
PROPERTY LifecycleSpec
\* A queue whose jobs have all ended has nothing left to do, nor has a server whose calls have.
CHECK_DEADLOCK FALSE
