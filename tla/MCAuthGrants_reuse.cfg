SPECIFICATION Spec
CONSTANTS
    q1 = q1
    q2 = q2
    s1 = s1
    s2 = s2
    u1 = u1
    a1 = a1
    v1 = v1
    Requests = {q1}
    Submissions = {s1}
    Subjects = {u1}
    OAuthClients = {a1}
    ClientOf <- SameClient
    Calls = {v1}
    MaxPending = 1
    MaxSignIns = 2
    MaxUses = 1
    MaxTokens = 2
INVARIANTS
    ReuseInvalidates
CHECK_DEADLOCK FALSE
