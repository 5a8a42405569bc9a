\* The threads stop for good once main is done.
SPECIFICATION FairSpec
CONSTANTS
  NumSources = 2
  NumProcs = 1
  Setups <- LiveSetups
PROPERTIES
  EventServiced
  StopTerminates
CHECK_DEADLOCK FALSE
