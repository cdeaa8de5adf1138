SPECIFICATION FairSpec
CONSTANTS
  LastOffset = 1
  StartAt = "zero"
  Group = TRUE
  EveryN = 1
  Timer = FALSE
  MaxAttempts = 0
  Reset = "none"
  Corrupt = FALSE
  MaxStarts = 1
  MaxWaiters = 0
PROPERTIES
  CommitsAreAnswered
  EverythingProcessed
CHECK_DEADLOCK FALSE
