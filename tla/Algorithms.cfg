SPECIFICATION Spec
CONSTANTS
    NTopics = 2
    NMembers = 3
    MaxPartitions = 2
    PartitionLists <- Lists
    RandomStart = TRUE
    MaxPicks = 7
    Sets <- SomeSets
    Overhead = 2
INVARIANTS
    AssignmentIsRight
    PicksInTurn
    
PROPERTY
    AssignmentEnds
CHECK_DEADLOCK FALSE
