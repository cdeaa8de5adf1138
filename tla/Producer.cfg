SPECIFICATION FairSpec
CONSTANTS
    MaxSends = 3
    MaxMsgs = 1
    MaxBytes = 0
    Part = {p1, p2}
    Acks = TRUE
    CanEncode = TRUE
    EveryN = 2
    EveryB = 2
    Timer = TRUE
    MaxAttempts = 2
CHECK_DEADLOCK FALSE
INVARIANTS
    BatchesGoOut
    
PROPERTIES
    
    EverySendAnswered
