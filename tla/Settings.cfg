SPECIFICATION Spec
CONSTANTS
  NSlots = 1
  NBands = 2
  Top = 1
  FileNames <- MCFileNames
  Attenuation <- MCAttenuation
  Requests <- MCRequests
  NONE = NONE
  GARBLED = GARBLED
  MaxCommands = 1
  MaxOpen = 1
  MaxClicks = 2
  MaxSetUps = 1
INVARIANTS
  AsIfOneByOne
  PublishedWhole
CHECK_DEADLOCK FALSE
