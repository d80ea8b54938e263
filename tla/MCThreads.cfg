CONSTANTS
  Producers = {p1, p2}
  MaxPut = 2
  Conn = {1, 2}
  Called = {2}
  Fd = {7}
  Size = {0, 1, 3, 4}
  Room = 2
  MaxPacket = 4
  MaxTraffic = 3
SPECIFICATION PartsSpec
INVARIANTS WaitCounts NoLostSignal LookStillTrue OwnDescriptor InOrder
PROPERTIES QueueSpec EndsWithCause EverythingArrives
CHECK_DEADLOCK FALSE
