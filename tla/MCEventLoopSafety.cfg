\* The threads stop for good once main is done.
SPECIFICATION Spec
CONSTANTS
  NumSources = 3
  NumProcs = 1
  Setups <- SafetySetups
INVARIANTS
  TypeOK
  NoLooseSev
  NoStrandedEvent
  EpWokenToStop
PROPERTIES
  ImplementsNotify
  StopsSoon
  ServesSoon
CHECK_DEADLOCK FALSE
