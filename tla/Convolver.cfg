SPECIFICATION Spec
CONSTANTS
  NChannels = 2
  BlockCounts = {1, 2, 3, 4}
  Wrap = 4
  MaxRuns = 7
  MaxResets = 1
INVARIANTS
  TypeOK
  OutputIsConvolution
  BadInputLeavesNoTrace
