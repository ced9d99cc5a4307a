SPECIFICATION FairServiceSpec
CONSTANTS
  p1 = p1
  p2 = p2
  r1 = r1
  Programs <- MCPrograms
  Posts <- MCPosts
  ChannelSize = 1
  Threshold = 2
  Exported = FALSE
  MaxNotices = 3
  MaxDials = 0
CHECK_DEADLOCK FALSE
PROPERTIES
  ShutdownCompletes
  PathEnds
