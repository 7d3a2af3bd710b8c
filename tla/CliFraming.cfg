SPECIFICATION FramingFairSpec
CONSTANTS
  Plain = {"a", "b"}
  Commands <- MCAll
  Window = 1
  BufferSize = 4
  MaxCommands = 4
INVARIANTS
  ExecutedInOrder
  NothingLeftOver
  NeverAnsweredTwice
PROPERTIES
  EveryCommandExecuted
CHECK_DEADLOCK FALSE
