SPECIFICATION Spec
CONSTANTS
  Buffers = 3
  Sizes = {1}
  MaxFrames = 3
  MaxRestarts = 0
  Faults = {}
PROPERTIES
  EveryFramePublished
