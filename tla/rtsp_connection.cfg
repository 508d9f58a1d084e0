SPECIFICATION Spec
CONSTANTS
  Tracks = {1, 2}
  SessionIds = {1, 2}
  MaxRtp = 2
INVARIANTS
  BlocksOnlyAfterRefusal
  AsTold
PROPERTIES
  AllOrNothing
CHECK_DEADLOCK FALSE
