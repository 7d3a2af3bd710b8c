SPECIFICATION ControlFairSpec
CONSTANTS
  Conns = {c1, c2, c3}
  AcceptErrors = FALSE
  Ports = {p1, p2}
  MaxApplies = 2
INVARIANTS
  ControlTypeOK
  AppliedPrefsInForce
  QuitIsQuiet
  KeepsAccepting
PROPERTIES
  ApplyReturns
CHECK_DEADLOCK FALSE
