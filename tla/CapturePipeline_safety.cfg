SPECIFICATION Spec
CONSTANTS
  Buffers = 3
  Sizes = {1, 2}
  MaxFrames = 5
  MaxRestarts = 1
  Faults = {"start", "swapchain", "format", "finish", "texture", "alloc", "map", "publish"}
INVARIANTS
  TypeOK
  SinglePublisher
  BuffersAccounted
  PublishedInOrder
  DrainedAtShutdown
  PathsAgree
PROPERTIES
  ShutdownReturns
  PredecessorPublished
