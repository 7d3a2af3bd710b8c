\* Filters of 4 and 8 coefficients a block, in the field of 17 elements.
CONSTANTS
  P = 17
  Generator = 3
  Lengths = {4, 8}
  RealSizes = {4, 8}
  Nets = {"single", "partitioned", "runtime", "series", "dirac", "mixed", "crossfade", "subsample"}
  CoeffLengths = {3, 11}
  Taps <- MCTaps
  InScale = 5
  OutScale = 7
  CoeffScale = 3
  Blocks <- MCBlocks
  MaxBlocks = 3
SPECIFICATION Spec
INVARIANTS OutputIsConvolution SubsampleIsSeamless
CHECK_DEADLOCK FALSE
