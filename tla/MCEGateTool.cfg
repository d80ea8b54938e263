CONSTANTS
  Fd = {f1, f2}
  Player = {p1}
  Map = {m1}
  PidTool = tool
  None = none
  Encode = FALSE
  ToolUp = TRUE
  emap <- HomeMap
  Account <- OneAccount
  MayMove = FALSE
  SrvDrops = TRUE
  MaxConns = 3
  MaxQueue = 1
  Chatty = TRUE
SPECIFICATION Spec
CHECK_DEADLOCK FALSE
SYMMETRY Sym
INVARIANTS RightKind FreshSession
