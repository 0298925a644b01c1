SPECIFICATION Spec
CONSTANTS
  Window = 2
  Pool = 4
  MaxRetx = 5
  BurstMax = 1
  Rto = 1
  Sync = 1
  ChunkDrain = 0
  BackoffCap = 8
  KeepCap = 1
  BacklogCap = 0
  Idle = 20
  FastIdleTx = 2
  StalledFloor = 4
  Camp = 8
  FairChance = 4
  Mismatch = 3
  Roles = {TRUE}
  MaxLate = 0
  MaxRingFull = 0
PROPERTY
  RepairBeforeDrop
