SPECIFICATION Spec
CONSTANTS
  MaxFrames = 2
  MaxClients = 2
  Limits = {0, 1}
  Faults = {"accept", "ring", "encoder", "send", "cursor"}
INVARIANTS
  TypeOK
PROPERTIES
  QueuedFrameSent
  EndsTogether
  StopEndsHost
  CursorShown
CHECK_DEADLOCK FALSE
