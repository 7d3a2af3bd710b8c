\* Two channels, blocks of two samples, a table of seven random numbers;
\* bytes of four values.
CONSTANTS
  NChannels = 2
  SampleRate = 1
  MaxSize = 6
  BlockLength = 2
  RandtabSpacing = 10
  MinRandtabSpacing = 1
  Numbers <- MCNumbers
  Random <- MCRandom
  Byte = 4
  One = 768
  Pairs <- MCPairs
  Samples <- MCSamples
  MaxBlocks = 4
SPECIFICATION Spec
INVARIANTS WindowsFit SamplesPass EveryClipIsCounted DitherStaysNear
PROPERTIES NoiseIsContinuous
CHECK_DEADLOCK FALSE
