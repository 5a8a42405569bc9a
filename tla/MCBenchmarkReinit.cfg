\* Every thread stops for good at exit.
SPECIFICATION FairBenchSpec
CONSTANTS
  NumSources = 1
  NumProcs = 1
  NumIdle = 1
  Setups <- WfeSetups

PROPERTIES
  RunEnds
CHECK_DEADLOCK FALSE
