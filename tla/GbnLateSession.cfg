SPECIFICATION Spec
CONSTANTS
  COBS_SEQ_SPACE = 5
  PIPELINE_WINDOW = 2
  ARQ_CHUNK_BUDGET = 3
  AdmitWindow = 2
  PoolSize = 4
  BurstMax = 2
  RingCap = 2
  AppCap = 3
  BodyLen = 2
  NoChunk = NoChunk
  rIsMaster = FALSE
  MaxSent = 2
  MaxLoss = 1
  MaxSessions = 2
CHECK_DEADLOCK FALSE
INVARIANT
  ReleasedWasDelivered
