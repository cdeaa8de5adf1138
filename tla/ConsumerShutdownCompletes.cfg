SPECIFICATION FairSpec
CONSTANTS
  LastOffset = 1
  StartAt = "zero"
  Group = TRUE
  EveryN = 1
  Timer = FALSE
  MaxAttempts = 2
  Reset = "none"
  Corrupt = FALSE
  MaxStarts = 1
  MaxWaiters = 1
PROPERTIES
  ShutdownCompletes
CHECK_DEADLOCK FALSE
