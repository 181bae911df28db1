SPECIFICATION Spec
CONSTANTS
  SlotCount = 3
  KeyInterval = 3
  Latency = 1
  MaxFrames = 4
INVARIANTS
  TypeOK
  SentUnderItsId
  DrainSendsAll
PROPERTIES
  UnitsDecodable
  NeverBack
  FrameIsSent
CHECK_DEADLOCK FALSE
