SPECIFICATION ControlSpec
CONSTANTS
  Conns = {c1, c2}
  AcceptErrors = FALSE
  Ports = {p1}
  MaxApplies = 2
INVARIANTS
  StopIsSafe
CHECK_DEADLOCK FALSE
