SPECIFICATION Spec
CONSTANTS
  SlotCount = 2
  MaxCaptures = 3
  MaxProcessors = 2
  MaxCrashes = 0
  MaxHosts = 1
  MaxClients = 1
  Faults = {}
PROPERTIES
  ReadyFrameReachesClient
