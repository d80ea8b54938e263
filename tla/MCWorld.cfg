CONSTANTS
  Eid = {res, ply}
  Upper = {ply}
  Pid = {p1}
  Width = 10
  Height = 3
  BlockWidth = 2
  Foot = 2
  Spot <- CSpot
  MaxPost = 4
  None = none
SPECIFICATION RoiSpec
INVARIANTS ViewAgrees BroadcastOfKnown MarksAgree TroopsShown TriggersPaired CrossingSeen
PROPERTY KeepsPace
CHECK_DEADLOCK FALSE
