SPECIFICATION Spec
CONSTANTS
  Slots = {s0, s1, s2, s3}
  PoolSize = 3
  BufMax = 2
  WindowMax = 2
  Bodies = {x, y}
  NoBody = none
  MaxLen = 2
SYMMETRY Symmetry
INVARIANTS
  TypeOK
  assertInvariants
  RetxSendsWhatWasInserted
  RoomIsReal
