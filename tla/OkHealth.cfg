SPECIFICATION Spec
CONSTANTS
  Window = 1
  Pool = 2
  MaxRetx = 1
  BurstMax = 1
  Rto = 1
  Sync = 1
  ChunkDrain = 0
  BackoffCap = 1
  KeepCap = 1
  BacklogCap = 0
  Idle = 2
  FastIdleTx = 2
  StalledFloor = 2
  Camp = 2
  FairChance = 1
  Mismatch = 1
  Roles = {FALSE, TRUE}
  MaxLate = 1
  MaxRingFull = 0
PROPERTIES
  DeadPeerEndsSession
  HeardPeerIsKept
