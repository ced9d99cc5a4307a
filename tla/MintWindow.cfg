SPECIFICATION Spec
CONSTANTS
  WindowSec = 3
  MinVolumeRaw = 5
  MinTrades = 2
  SpikeNum = 2
  SpikeDen = 1
  AlphaNum = 1
  AlphaDen = 4
  AlertCooldownSec = 2
  VolMod = 16
  CntMod = 4
  Amounts <- MCAmounts
  Seconds <- MCSeconds
  MaxLag = 2
  MaxTrades = 5
CHECK_DEADLOCK FALSE
INVARIANTS
  TypeOK
  TotalsMatchSlots
  WindowIsRecent
  AlertsSpaced
  BaselineBounded
PROPERTIES
  AlertNeedsJump
  ImplementsSlidingWindow
