SPECIFICATION FairSpec
CONSTANTS
  NumLines = 3
  Geometry <- Small
  L1HitLatency <- HitLatency
  LLC_HIT_LATENCY = 1
  MEMORY_MISS_PENALTY = 1
  PrefetcherKind <- NextLineBoth
  QueueSize <- One
  IssuePerCycle <- One
  LoadsPerCycle = 2
  Loads <- AllLoads
  CodeLines <- Lines
  Pcs = {4}
  MaxLoads = 2
  MaxFetches = 2
  LastArrival = 2
  MaxCycle = 12
INVARIANTS
  TypeOK
  TrafficAgrees
PROPERTIES
  FillsFromBelow
  LevelsImplementBlockLife
  EveryRequestServed
CHECK_DEADLOCK FALSE
