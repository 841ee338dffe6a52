SPECIFICATION FairSpec
CONSTANTS
  Insts <- Small
  Modes = {"TRACE", "RESTORE"}
  BP_TYPES = {"GSHARE", "ALWAYS_NOT_TAKEN"}
  HistoryBits = 2
  LineSize = 2
  FETCH_WIDTH = 2
  COMMIT_WIDTH = 2
  INST_BUFFER_SIZE = 2
  BRANCH_MISPREDICT_PENALTY = 3
  FETCH_REDIRECT_LATENCY = 1
  WARMUP_INSTRUCTIONS = 1
  SAMPLE_INSTRUCTIONS = 2
  max_instructions = 2
  MAX_SIM_TIME = 40
  Latencies = {2}
  MaxTrace = 3
  MaxDelays = 2
INVARIANTS
  TypeOK
  TraceInOrder
  
  CyclesAccounted
  MeasuresWholeSample
  PredictorIsReplay
PROPERTIES
  StallsAreServed
  
CHECK_DEADLOCK FALSE
