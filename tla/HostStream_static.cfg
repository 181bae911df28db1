SPECIFICATION Safety
CONSTANTS
  MaxFrames = 2
  MaxClients = 1
  Limits = {0}
  Faults = {}
PROPERTIES
  StaticSceneKeepsClient
CHECK_DEADLOCK FALSE
