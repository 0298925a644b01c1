SPECIFICATION Spec
CONSTANTS
  Bauds = 6
  Delay = 50
  SubTick = 250
  Dwell = 1650
  Extra = 200
  T3 = 250
  T3Again = 200
  Budget = 4000
  Margin = 100
  Floor = 250
  Idle = 10000
  OkTick = 500
  FairChance = 1600
  Confirm = 150
  Coalesce = 10
  Grace = 2
  Guard = 80
  Debounce = 120
  UpgradeDelay = 10000
  UpgradeMax = 3
  Skews = {0, 310}
  MaxLoss = 1
  MaxDrop = 0
  MaxReboot = 0
  Mixed = FALSE
PROPERTY KeepaliveEndsCamp
