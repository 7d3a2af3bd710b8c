SPECIFICATION ChunkFairSpec
CONSTANTS
  Formats <- MCFormats
  FilterLen = 3
  ChunkSizes = {1, 2, 5}
  MaxSamples = 9
INVARIANTS
  InOrder
  NothingLost
  OldFramesInFirstBlockOnly
  SoundWhileConfigured
PROPERTIES
  ChunkReturns
CHECK_DEADLOCK FALSE
