SPECIFICATION FairSpec
CONSTANTS
  Conns = {c1, c2, c3, c4}
  AcceptErrors = TRUE
INVARIANTS
  TypeOK
  ManagedIffOpen
  ReadArmed
  AtMostOneLate
PROPERTIES
  ImplementsService
  StopDrains
  LeaverForgotten
CHECK_DEADLOCK FALSE
