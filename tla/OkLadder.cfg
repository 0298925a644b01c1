SPECIFICATION Spec
CONSTANTS
  Window = 2
  Pool = 4
  MaxRetx = 2
  BurstMax = 1
  Rto = 1
  Sync = 1
  ChunkDrain = 0
  BackoffCap = 2
  KeepCap = 1
  BacklogCap = 1
  Idle = 0
  FastIdleTx = 2
  StalledFloor = 2
  Camp = 2
  FairChance = 1
  Mismatch = 2
  Roles = {FALSE}
  MaxLate = 1
  MaxRingFull = 1
INVARIANTS
  TypeOK
  MismatchHasEvidence
  LadderIsCoherent
PROPERTY
  StuckBaseEnds
