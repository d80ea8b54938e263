CONSTANTS
  Eid = {res, ply}
  Upper = {ply}
  Pid = {p1}
  Width = 10
  Height = 3
  BlockWidth = 2
  Foot = 2
  Spot <- CSpot
  MaxPost = 3
  None = none
SPECIFICATION RoiSpec
INVARIANT NoOverlap
CHECK_DEADLOCK FALSE
