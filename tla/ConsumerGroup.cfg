SPECIFICATION Spec
CONSTANTS
  Partitions = {"p1", "p2"}
  Tasks = {"t1", "t2", "t3"}
  MaxJoins = 2
  MaxStops = 1
INVARIANTS
  StaysMember
  NoOverlap
  FatalIsReported
  StopLeavesOnlyLate
CHECK_DEADLOCK FALSE
