SPECIFICATION Spec
CONSTANTS
  RobSize = 2
  IQSize <- IQ2
  FUWidth <- FU1
  Latency <- Latency1
  FetchWidth = 2
  DispatchWidth = 2
  CommitWidth = 2
  InstBufferSize = 2
  MemDepModel = "ORACLE_STLF"
  EnableSTLF = TRUE
  Regs <- MCRegs
  Addrs <- MCAddrs
  Insts <- RawInsts
  MemResults <- HitMiss
  MaxSimTime = 24
  MaxFetch = 3
  MaxIdle = 0
  MaxBlocked = 0
INVARIANTS
  HeadWaitIsMemoryBound
CHECK_DEADLOCK FALSE
