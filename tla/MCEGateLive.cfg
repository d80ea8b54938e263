CONSTANTS
  Fd = {f1, f2}
  Player = {p1}
  Map = {m1}
  PidTool = tool
  None = none
  Encode = TRUE
  ToolUp = FALSE
  emap <- HomeMap
  Account <- OneAccount
  MayMove = FALSE
  SrvDrops = FALSE
  MaxConns = 4
  MaxQueue = 0
  Chatty = FALSE
SPECIFICATION FairSpec
CHECK_DEADLOCK FALSE
PROPERTIES ServerLearns DescriptorsComeBack
