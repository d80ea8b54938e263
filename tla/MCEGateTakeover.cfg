CONSTANTS
  Fd = {f1, f2, f3}
  Player = {p1}
  Map = {m1, m2}
  PidTool = tool
  None = none
  Encode = FALSE
  ToolUp = FALSE
  emap <- HomeMap
  Account <- OneAccount
  MayMove = TRUE
  SrvDrops = FALSE
  MaxConns = 3
  MaxQueue = 1
  Chatty = FALSE
SPECIFICATION Spec
CHECK_DEADLOCK FALSE
SYMMETRY Sym
INVARIANTS TableMatchesSessions CountsAgree MapFollowsPlayer
