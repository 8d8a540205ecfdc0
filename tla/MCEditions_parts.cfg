SPECIFICATION MCSpec
CONSTANTS
    a = a
    b = b
    Leagues = {a, b}
    Requests = {"jobs"}
    MaxWrites = 1
    MaxClicks = 2
    MaxDrops = 1
    Handlers = {"full", "decide", "save", "sync", "lineup", "report", "add", "test", "disable", "refresh",
                "pulse", "automation"}
    Early = {"sync"}
    MaxEvents = 2
    fa = fa
    fb = fb
    w1 = w1
    Credentials = {w1}
    TeamsOf <- FormTeams
    OwnersOf <- FormOwners
    ReadableBy <- FormReaders
    MaxRequests = 3
INVARIANTS
    ShownIsSelected
    ReadyIsFresh
    SettledIsCurrent
    SavedWasFound
PROPERTIES
    NeverOlder
    LoadingEnds
    ButtonsComeBack
\* Pages and servers may come to rest.
CHECK_DEADLOCK FALSE
