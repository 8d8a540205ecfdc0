SPECIFICATION FairSpec
CONSTANTS
    a = a
    b = b
    Leagues = {a}
    Requests = {"jobs"}
    MaxWrites = 1
    MaxClicks = 0
    MaxDrops = 0
PROPERTIES
    FallsBackToPolling
CHECK_DEADLOCK FALSE
