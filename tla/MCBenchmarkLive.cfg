\* Every thread stops for good at exit.
SPECIFICATION FairBenchSpec
CONSTANTS
  NumSources = 2
  NumProcs = 1
  NumIdle = 1
  Setups <- WfeSetups

PROPERTIES
  RunEndsIfClean
CHECK_DEADLOCK FALSE
