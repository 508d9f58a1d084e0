SPECIFICATION Spec
CONSTANTS
  Kinds = {"setup", "play", "teardown", "bodied", "large", "bad", "response", "packet", "data"}
  MaxMsgs = 4
  Width = 4
  MaxWire = 4
INVARIANTS
  InOrder
  OnePerRead
PROPERTIES
  PushedIsRead
CHECK_DEADLOCK FALSE
