SPECIFICATION Spec
CONSTANTS
    Topics = {t1}
    MaxParts = 2
    Nodes = {n1, n2}
    Calls = {c1, c2}
    Kinds = {"produce", "load", "partitions"}
    MaxMoves = 1
SYMMETRY Symmetry
INVARIANTS
    
    PayloadsAccounted
    
CHECK_DEADLOCK FALSE
