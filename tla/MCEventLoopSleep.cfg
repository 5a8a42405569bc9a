\* The threads stop for good once main is done.
SPECIFICATION Spec
CONSTANTS
  NumSources = 2
  NumProcs = 1
  Setups <- SleepSetups
INVARIANTS
  SrcWokenToStop
CHECK_DEADLOCK FALSE
