SPECIFICATION FairSpec
CONSTANTS
  p1 = p1
  p2 = p2
  Programs <- MCPrograms
  ChannelSize = 1
  Threshold = 3
  Exported = TRUE
  MaxNotices = 3
  MaxDials = 3
CHECK_DEADLOCK FALSE
INVARIANTS
  TypeOK
  SubscriptionsAreServers
PROPERTIES
  ImplementsNotificationStream
  ReaderDropsOnlyItsOwn
  ReaderEndsOnCancel
