SPECIFICATION MCSpec
CONSTANTS
  NumSets = 1
  Assoc = 2
  MaxInflight = 2
  Policy = "LRU"
  Blocks <- MCBlocks
  MaxLatency = 3
  MaxCycle = 4
  MaxAccess = 1
INVARIANTS
  TypeOK
  NoDuplicateLine
  MSHRBound
  NoOverdue
  AccessAccounting
  PrefetchVerdicts
PROPERTIES
  EvictsOldest
  ImplementsBlockLife
CHECK_DEADLOCK FALSE
