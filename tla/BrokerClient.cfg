SPECIFICATION FairSpec
CONSTANTS
    MaxRequests = 2
    Kinds = {"reply", "noreply", "unsendable"}
    Conn = {c1, c2}
    Loop = {l1, l2}
    Addr = {a1, a2}
    Live = {a2}
    None = None
CHECK_DEADLOCK FALSE
INVARIANTS
    PendingIffTracked
    NeverForgotten
    WrittenInOrder
    OneConnection
PROPERTIES
    ImplementsLedger
    EveryRequestResolved
    CloseCompletes
