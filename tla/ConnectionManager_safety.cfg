SPECIFICATION Spec
CONSTANTS
  MaxGeneration = 4
  MaxSurfaces = 2
  MaxFaults = 1
INVARIANTS
  TypeOK
  LoopAlive
  OpenStreamIsReachable
  StaleReportsOnce
  StatusIsTrue
PROPERTIES
  StopReleasesAll
  StreamStarts
CHECK_DEADLOCK FALSE
