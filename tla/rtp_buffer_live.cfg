SPECIFICATION FairSpec
CONSTANTS
  Length = 4
  Loops = TRUE
  Endless = TRUE
  Low = 1
  Full = 2
  MaxSeeks = 3
CHECK_DEADLOCK FALSE
INVARIANT
  NeverBothAsleep
PROPERTIES
  ConsumerServed
