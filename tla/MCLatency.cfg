\* The clock and the events are bounded: deadlock where both are spent.
SPECIFICATION Spec
CONSTANTS
  s1 = s1
  s2 = s2
  NoSource = NoSource
  Sources <- TwoSources
  SECOND = 2
  UINT64_MAX = 15
  MaxTime = 3
  MaxEvents = 2
SYMMETRY Symmetry
INVARIANTS
  TypeOK
  StatsConsistent
PROPERTIES
  LatencyExact
  LatencyBounded
  ImplementsNotify
CHECK_DEADLOCK FALSE
