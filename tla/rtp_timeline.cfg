SPECIFICATION TimelineSpec
CONSTANTS
  Huge = 1000
  Order <- MCOrder
  Videos = {"v"}
  Films <- MCFilms
  Aims <- MCAims
  MaxTime = 2
INVARIANTS
  InSync
  RtpSteady
PROPERTIES
  InTurn
CHECK_DEADLOCK FALSE
