SPECIFICATION Spec
CONSTANTS
  Conns = {1, 2}
  Limits = {0, 1}
  MaxSignals = 2
  MaxRequests = 2
INVARIANTS
  LimitKept
PROPERTIES
  StopHeeded
CHECK_DEADLOCK FALSE
