\* Two DSP objects, two files, filter blocks of two samples.
SPECIFICATION Spec
CONSTANTS
  FilterLength = 2
  Instances = {d1, d2}
  Slots <- MCSlots
  FileNames <- MCNames
  Contents <- MCContents
  FirstFiles <- MCFiles
  Settings <- MCSettings
  Streams <- MCStreams
  Equalized <- MCEqualized
  NONE = NONE
  MaxSetUps = 1
  MaxEvents = 0
INVARIANTS ConvolvesIntoOne
SYMMETRY MCSymmetry
CHECK_DEADLOCK FALSE
