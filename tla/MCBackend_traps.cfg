SPECIFICATION FairSpec
CONSTANTS
  RobSize = 2
  IQSize <- IQ1
  FUWidth <- FU2
  Latency <- Latency1
  FetchWidth = 2
  DispatchWidth = 2
  CommitWidth = 2
  InstBufferSize = 2
  MemDepModel = "CONSERVATIVE_STA_VISIBLE"
  EnableSTLF = FALSE
  Regs <- MCRegs
  Addrs <- MCAddrs
  Insts <- TrapInsts
  MemResults <- HitMissRefused
  MaxSimTime = 24
  MaxFetch = 3
  MaxIdle = 1
  MaxBlocked = 1
INVARIANTS
  QueuesBounded
PROPERTIES
  EveryInstructionRetires
CHECK_DEADLOCK FALSE
