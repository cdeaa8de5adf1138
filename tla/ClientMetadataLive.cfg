SPECIFICATION BusySpec
CONSTANTS
    Topics = {t1}
    MaxParts = 1
    Nodes = {n1, n2}
    Calls = {c1, c2}
    Kinds = {"fetch", "member"}
    MaxMoves = 1
INVARIANT
    WaitersAreServed
PROPERTY
    StaleRouteHeals
CHECK_DEADLOCK FALSE
