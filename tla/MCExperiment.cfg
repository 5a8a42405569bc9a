\* The sweep ends or hangs: deadlock in both.
SPECIFICATION ExpSpec
CONSTANTS
  Machines = {3, 5}
  Counts <- SmallCounts
  Rates <- SmallRates
  MaxOptions = 3
  W64 = 16
  SCALE = 5
  NaN = NaN
  Infinity = Infinity
  NSEC_IN_SECOND = 4
  TIME_MAX = 4
  NEVER = 2
  Unset = Unset
  Runs = 2
INVARIANTS
  ConfigTypeOK
  ScriptTypeOK
  PinnedAtStart
  StartsIfFits
  EndCountRight
  DelayRight
  LogBrackets
PROPERTIES
  SweepEnds
CHECK_DEADLOCK FALSE
