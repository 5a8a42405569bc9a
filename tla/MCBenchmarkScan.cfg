\* Every thread stops for good at exit.
SPECIFICATION BenchSpec
CONSTANTS
  NumSources = 1
  NumProcs = 1
  NumIdle = 1
  Setups <- NodbSetups
INVARIANTS
  ScansReady

CHECK_DEADLOCK FALSE
