SPECIFICATION Spec
CONSTANTS
  MaxPending = 2
  KeyInterval = 3
  MaxUnits = 4
  MaxId = 4
  MaxRefreshes = 1
  MaxStarved = 1
  WireCap = 1
  Base = 8
  Types = 4
  Magic = 2611
  MaxUnit = 200
  MaxSide = 100
  Slice = 1
  Idr = 2
  Sps = 3
INVARIANTS
  TypeOK
  LossNoticed
  FailureReported
  PacketsReadBack
  UnitsFoundAgain
PROPERTIES
  IdrKept
  AllEnd
CHECK_DEADLOCK FALSE
