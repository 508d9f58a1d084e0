SPECIFICATION FairSpec
CHECK_DEADLOCK FALSE
INVARIANTS
  MutexReturned
PROPERTIES
  ImplementsRtcpReports
  RtpIsReleased
  StopReturns
