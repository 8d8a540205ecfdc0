SPECIFICATION Spec
CONSTANTS
    a = a
    b = b
    Leagues = {a, b}
    Requests = {"jobs"}
    MaxWrites = 0
    MaxClicks = 2
    MaxDrops = 0
INVARIANTS
    ShownIsSelected
CHECK_DEADLOCK FALSE
