SPECIFICATION FairSpec
CONSTANTS
  COBS_SEQ_SPACE = 6
  PIPELINE_WINDOW = 2
  ARQ_CHUNK_BUDGET = 4
  BodyLens = {1}
  MSG_HDR = 2
  MaxRetx = 1
  AckTimeout = 2
  RingCap = 2
  AppCap = 4
  ScanMax = 3
  errThreshold = 1
  MaxMsgs = 2
  MaxLoss = 1
  MaxSessions = 2
CHECK_DEADLOCK FALSE
INVARIANTS
  TypeOK
  ConfirmedIsReceived
  ReceivedInOrder

PROPERTIES
  NoParserError
  CallReturns
  BufferDrains
