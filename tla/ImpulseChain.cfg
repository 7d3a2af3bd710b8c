\* Two DSP objects, two files, filter blocks of two samples.
SPECIFICATION Spec
CONSTANTS
  FilterLength = 2
  Instances = {d1, d2}
  Slots <- MCSlots
  FileNames <- MCNames
  Contents <- MCContents
  FirstFiles <- MCFiles
  Settings <- MCSettings
  Streams <- MCStreams
  Equalized <- MCEqualized
  NONE = NONE
  MaxSetUps = 2
  MaxEvents = 1
INVARIANTS NothingFromBefore AloneAllWhole RightIfShort DiesOnlyIfDisturbed
SYMMETRY MCSymmetry
CHECK_DEADLOCK FALSE
