CONSTANTS
  Fd = {f1, f2}
  Player = {p1}
  Map = {m1}
  PidTool = tool
  None = none
  Encode = FALSE
  ToolUp = FALSE
  emap <- HomeMap
  Account <- OneAccount
  MayMove = FALSE
  SrvDrops = FALSE
  MaxConns = 2
  MaxQueue = 0
  Chatty = FALSE
SPECIFICATION Spec
CHECK_DEADLOCK FALSE
INVARIANT SigninFindsLogin
