SPECIFICATION MCSpec
CONSTANTS
    q1 = q1
    q2 = q2
    s1 = s1
    s2 = s2
    u1 = u1
    a1 = a1
    v1 = v1
    Requests = {q1, q2}
    Submissions = {s1, s2}
    Subjects = {u1}
    OAuthClients = {a1}
    ClientOf <- SameClient
    Calls = {v1}
    MaxPending = 1
    MaxSignIns = 2
    MaxUses = 2
    MaxTokens = 2
    k1 = k1
    k2 = k2
    k3 = k3
    Kids = {k1, k2, k3}
    KeyTTL = 2
    AccessTTL = 2
    MintDelay = 1
    Published = 4
    Horizon = 9
    t1 = t1
    t2 = t2
    t3 = t3
    t4 = t4
    m1 = m1
    m2 = m2
    h1 = h1
    Attempts = {t1, t2, t3, t4}
    Identifiers = {m1, m2}
    Networks = {h1}
    IdentifierOf <- TwoMails
    NetworkOf <- OneHost
    Limit <- Limits
    Window = 2
    MaxKeys = 1
    MaxOverlap = 2
    LastInstant = 4
    p1 = p1
    p2 = p2
    e1 = e1
    e2 = e2
    UrlClients = {p1}
    RegisteredClients = {p2}
    Uris = {e1, e2}
    Exact = {e1}
    Asking = {1, 2}
    CachePeriod = 2
    FetchTime = 1
    LastTime = 6
SYMMETRY Symmetry
INVARIANTS
    OneGrantPerCode
    ReplayRevokes
    AcceptedWasLive
    BurnedIsGone
    PublishedCoversLive
    StaleOnlyForNewKeys
    GuessesBounded
    NeverLockedOut
    AcceptedWasListed
PROPERTIES
    RevokedIsFinal
CHECK_DEADLOCK FALSE
