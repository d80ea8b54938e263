CONSTANTS
  Member = {1, 2, 3}
  Score = {1, 2}
  MaxLevel = 3
  Header = header
  Nil = nil
  Absent = absent
SPECIFICATION LuaSpec
INVARIANTS SpansMeasure UnpackedAsPacked ReadsBack HandsOutAll HandledAsSent PlacesFit StreamIntact
PROPERTIES SortedSetSpec ListsSpec
CHECK_DEADLOCK FALSE
