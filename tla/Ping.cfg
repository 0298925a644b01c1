SPECIFICATION Spec
CONSTANTS
  COBS_SEQ_SPACE = 5
  PIPELINE_WINDOW = 2
  ARQ_CHUNK_BUDGET = 3
  Window = 2
  MaxSize = 2
  MAX_TX_PER_LOOP = 2
  MaxMsgs = 3
  MaxFaults = 1
  MaxClicks = 2
CHECK_DEADLOCK FALSE
INVARIANTS
  TypeOK
  GapWasReported
PROPERTIES
  CountedWasAcked
  RetainedIsAdmitted
  StopEnds
  FlowContinues
