SPECIFICATION Spec
CONSTANTS
  RobSize = 4
  IQSize <- IQ2
  FUWidth <- FU1
  Latency <- Latency1
  FetchWidth = 2
  DispatchWidth = 2
  CommitWidth = 2
  InstBufferSize = 1
  MemDepModel = "ORACLE_STLF"
  EnableSTLF = TRUE
  Regs <- MCRegs
  Addrs <- MCAddrs
  Insts <- MemoryInsts
  MemResults <- HitMiss
  MaxSimTime = 24
  MaxFetch = 5
  MaxIdle = 1
  MaxBlocked = 0
INVARIANTS
  TypeOK
  InOrder
  QueuesExact
PROPERTIES
  LoadsRespectStores
  ImplementsInOrderPipe
CHECK_DEADLOCK FALSE
