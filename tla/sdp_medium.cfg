SPECIFICATION Spec
CONSTANTS
  Tracks = {"a", "v"}
  Videos = {"v"}
  File <- MCFile
  Coded <- MCCoded
  Modes = {"file", "live", "device"}
  Iters = {1, 2}
  Times = {2}
  Resumes = {1}
  Low = 1
  Full = 2
  BufLow = 1
  BufFull = 2
INVARIANTS
  Ordered
  KeptForAll
PROPERTIES
  Fed
CHECK_DEADLOCK FALSE
