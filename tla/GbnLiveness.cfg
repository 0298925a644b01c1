SPECIFICATION FairSpec
CONSTANTS
  COBS_SEQ_SPACE = 5
  PIPELINE_WINDOW = 2
  ARQ_CHUNK_BUDGET = 3
  AdmitWindow = 2
  PoolSize = 4
  BurstMax = 2
  RingCap = 2
  AppCap = 3
  BodyLen = 2
  NoChunk = NoChunk
  rIsMaster = TRUE
  MaxSent = 3
  MaxLoss = 2
  MaxSessions = 1
CHECK_DEADLOCK FALSE
INVARIANT
  IInv
PROPERTIES
  InFlightIsReleased
  SentIsRead
