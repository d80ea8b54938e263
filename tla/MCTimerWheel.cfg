CONSTANTS
  Timer = {t1, t2}
  First = t1
  NoTimer = none
  Delay = {0, 1, 3, 4, 5, 7, 8, 15}
  Outage = {0, 6}
  R = 4
  N = 2
  NVecs = 3
  MaxTurns = 2
  AddUntil = 16
  MaxLag = 3
  MaxFrame = 36
  EarlyUntil = 1
  EarlyEnd = 11
  EarlyDelay = {1, 5}
SPECIFICATION PartSpec
INVARIANT OnTime
PROPERTIES EngineSpec Fires
CHECK_DEADLOCK FALSE
