SPECIFICATION Spec
CONSTANTS
  WindowSec = 3
  MinVolumeRaw = 5
  MinTrades = 2
  SpikeNum = 2
  SpikeDen = 1
  AlphaNum = 1
  AlphaDen = 4
  AlertCooldownSec = 2
  VolMod = 64
  CntMod = 4
  Amounts <- MCAmounts
  Seconds <- MCSeconds
  MaxLag = 6
  MaxTrades = 3
CHECK_DEADLOCK FALSE
INVARIANTS
  WindowIsRecent
