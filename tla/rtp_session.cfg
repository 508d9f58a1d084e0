SPECIFICATION Spec
CONSTANTS
  MaxSeeks = 2
  MaxFrames = 2
  Prompt = TRUE
  BadRange = TRUE
  Spurious = TRUE
INVARIANTS
  TypeOK
  PauseRendezvous
  StaleOnce
  RtcpFollowsMedia
  TeardownLeavesNothing
PROPERTIES
  NoPacketWhilePaused
  ImplementsPlayback
CHECK_DEADLOCK FALSE
