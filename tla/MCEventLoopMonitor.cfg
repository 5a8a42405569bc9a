\* The threads stop for good once main is done.
SPECIFICATION Spec
CONSTANTS
  NumSources = 2
  NumProcs = 1
  Setups <- MonitorSetups
INVARIANTS
  NoLooseSignal
CHECK_DEADLOCK FALSE
