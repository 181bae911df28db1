SPECIFICATION Safety
CONSTANTS
  Buffers = 3
  Sizes = {1}
  MaxFrames = 5
  MaxRestarts = 1
  Faults = {}
INVARIANTS
  ViewMappedWhileWriting
