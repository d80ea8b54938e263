CONSTANTS
  Fd = {f1, f2}
  MoreFd = {f1, f2, f3}
  Player = {p1, p2}
  Home = p1
  Map = {m1}
  PidTool = tool
  None = none
  Encode = FALSE
  ToolUp = FALSE
  emap <- HomeMap
  Account <- OneAccount
  MayMove = FALSE
  SrvDrops = FALSE
  MaxConns = 4
  MaxQueue = 1
  Chatty = TRUE
SPECIFICATION BothSpec
CHECK_DEADLOCK FALSE
SYMMETRY BothSym
INVARIANTS TableInBoth CertifiedInBoth
