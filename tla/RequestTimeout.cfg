SPECIFICATION TimedSpec
CONSTANTS
    MaxRequests = 3
    Kinds = {"reply", "noreply"}
    Conn = {c1, c2}
    Loop = {l1, l2}
    Addr = {a1}
    Live = {a1}
    None = None
    DisconnectOnTimeout = TRUE
CHECK_DEADLOCK FALSE
PROPERTIES
    TimeoutIsFinal
    EveryRequestEnds
