\* Every thread stops for good at exit.
SPECIFICATION FairBenchSpec
CONSTANTS
  NumSources = 1
  NumProcs = 1
  NumIdle = 0
  Setups <- WfeSetups

PROPERTIES
  RunEndsIfClean
CHECK_DEADLOCK FALSE
