SPECIFICATION Spec
CONSTANTS
    a = a
    b = b
    b1 = b1
    b2 = b2
    b3 = b3
    v1 = v1
    v2 = v2
    Leagues = {a}
    Batches = {b1}
    LeagueOf <- Leagues2
    JobKindOf <- Full
    Reviews = {v1, v2}
    PerKind = 1
    MaxRestarts = 0
PROPERTIES
    DecisionIsFinal
CHECK_DEADLOCK FALSE
