SPECIFICATION Spec
CONSTANTS
  SlotCount = 2
  MaxCaptures = 4
  MaxProcessors = 1
  MaxCrashes = 0
  MaxHosts = 2
  MaxClients = 1
  Faults = {"event"}
INVARIANTS
  TypeOK
  ClaimNeverFails
  SlotExclusion
PROPERTIES
  ChannelSpec
  ReadyFrameReachesClient
CHECK_DEADLOCK FALSE
