SPECIFICATION Spec
CONSTANTS
  p1 = p1
  p2 = p2
  Programs <- MCPrograms
  ChannelSize = 1
  Threshold = 2
  Exported = FALSE
  MaxNotices = 1
  MaxDials = 0
CHECK_DEADLOCK FALSE
INVARIANTS
  SubscribesToAll
