SPECIFICATION FairSpec
CONSTANTS
  Length = 4
  Loops = FALSE
  Endless = FALSE
  Low = 1
  Full = 2
  MaxSeeks = 3
CHECK_DEADLOCK FALSE
INVARIANTS
  Bounded
PROPERTIES
  ImplementsFrameStream
  ControlReturns
