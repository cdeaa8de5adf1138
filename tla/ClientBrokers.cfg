SPECIFICATION FairSpec
CONSTANTS
    Nodes = {n1, n2}
    Addrs = {a1, a2}
    Hosts = {h1}
    Calls = {c1, c2}
    Kinds = {"full", "direct"}
    MaxDying = 1
    None = None
INVARIANTS
    ClientsFollowTable
    RequestsHaveAClient
    CloseWaitsForAll
PROPERTIES
    EveryCallEnds
CHECK_DEADLOCK FALSE
