SPECIFICATION Safety
CONSTANTS
  SlotCount = 2
  MaxCaptures = 4
  MaxProcessors = 3
  MaxCrashes = 2
  MaxHosts = 1
  MaxClients = 2
  Faults = {"clock"}
INVARIANTS
  NoTornFrame
  OrphansBounded
CHECK_DEADLOCK FALSE
