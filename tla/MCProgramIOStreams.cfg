SPECIFICATION Spec
CONSTANTS
  MaxFd = 13
  Object = {s1}
  Call = {c1, c2}
  MaxLeaks = 1
INVARIANTS StreamsAreConnected
CHECK_DEADLOCK FALSE
