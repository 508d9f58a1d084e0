SPECIFICATION FairSpec
CONSTANTS
  MaxSeeks = 2
  MaxFrames = 1
  Prompt = FALSE
  BadRange = FALSE
  Spurious = FALSE
PROPERTIES
  PauseReturns
  TeardownReturns
  PlayingIsAwake
CHECK_DEADLOCK FALSE
