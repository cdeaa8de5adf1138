SPECIFICATION Spec
CONSTANTS
  LastOffset = 2
  StartAt = "committed"
  Group = TRUE
  EveryN = 1
  Timer = TRUE
  MaxAttempts = 3
  Reset = "none"
  Corrupt = FALSE
  MaxStarts = 1
  MaxWaiters = 2
INVARIANTS
  BlocksInOrder
  NothingUnprocessedCommitted
  WaitersHaveACommit
  KeepsFetching
  
  NothingSkippedSilently
  
CHECK_DEADLOCK FALSE
