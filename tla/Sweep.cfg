SPECIFICATION Spec
CONSTANTS
  Bauds = 3
  Delay = 50
  SubTick = 250
  Dwell = 825
  Extra = 200
  T3 = 250
  T3Again = 200
  Budget = 5000
  Margin = 100
  Floor = 250
  Idle = 10000
  OkTick = 750
  FairChance = 2100
  Confirm = 150
  Coalesce = 10
  Grace = 2
  Guard = 80
  Debounce = 120
  UpgradeDelay = 10000
  UpgradeMax = 3
  Skews = {0, 310}
  MaxLoss = 2
  MaxDrop = 1
  MaxReboot = 1
  Mixed = FALSE
INVARIANTS
  TypeOK
  CampEndsOnTime
PROPERTIES
  EpochResetIsJustified
  RestartIsNoticed
  BoardsMeet
