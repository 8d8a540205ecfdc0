SPECIFICATION MCSpec
CONSTANTS
    a = a
    b = b
    b1 = b1
    b2 = b2
    b3 = b3
    v1 = v1
    v2 = v2
    Leagues = {a, b}
    Batches = {b1, b2, b3}
    LeagueOf <- Leagues2
    JobKindOf <- Sweeps
    Reviews = {v1, v2}
    PerKind = 1
    MaxRestarts = 1
    k1 = k1
    Connections = {k1}
    Saves = {1, 2}
    Routes = {"sync"}
    Instants = {0, 1}
    HourOf <- SameHour
    SyncAttempts = 2
    p1 = p1
    p2 = p2
    p3 = p3
    BootCalls = {p1, p2, p3}
    Swept = {1, 2, 3, 4, 5}
    PageSize = 2
    Position <- Roster
    EspnSlots <- RosterEspn
    FreeAgents = {5, 6, 7}
    FreeForm <- FreeForms
    Form <- Forms
    ClaimLimit = 2
    SlotLists <- Lists
    IRSpots = 1
    EmptyCost = 20000
    Sentinel = 200000
    TradePosition <- TwoRosters
    Mine = {1, 2, 3, 4, 5}
    Worths <- Values
    StarterLists <- Starting
INVARIANTS
    ProposedAreLatest
    SupersededForCause
    DecisionsAudited
    ConnectedIsProven
    AnsweredIsComplete
    SkippedForCause
    LineupIsBest
    AdviceLeadsToBest
    ClaimsNeverWeaken
    AlertsImprove
    GainIsExact
PROPERTIES
    SavedIsTried
CHECK_DEADLOCK FALSE
