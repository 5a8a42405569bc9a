\* Every thread stops for good at exit.
SPECIFICATION BenchSpec
CONSTANTS
  NumSources = 2
  NumProcs = 1
  NumIdle = 1
  Setups <- SafetySetups
INVARIANTS
  BenchTypeOK
  ScanAfterInit
  StartTogether
  ReportAfterQuiescence
  NoStrandedEvent
  NoDeadlock
PROPERTIES
  SignalsOnlyLive
  ImplementsEventLoop
  ImplementsNotify
CHECK_DEADLOCK FALSE
