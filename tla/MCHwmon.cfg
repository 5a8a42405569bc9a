\* The loads, the calls and the energy are bounded: deadlock where all are spent.
SPECIFICATION HwmonSpec
CONSTANTS
  Tables <- SmallTables
  WORD = 2
  MaxData = 2
  MaxLoads = 2
  MaxBeyond = 1
  NoList = NoList
  Cores = {0, 1}
  NoArray = NoArray
  NoPath = NoPath
INVARIANTS
  HwTypeOK
  StoresInBounds
  FaultsExplained
  SensorsInRange
  ReadsItsCore
  NoGarbage
  WarmReads
CHECK_DEADLOCK FALSE
