SPECIFICATION Safety
CONSTANTS
  MaxPending = 2
  KeyInterval = 3
  MaxUnits = 4
  MaxId = 5
  MaxRefreshes = 0
  MaxStarved = 1
  WireCap = 1
PROPERTIES
  RecoveryEndsAtIdr
CHECK_DEADLOCK FALSE
