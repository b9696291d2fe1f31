SPECIFICATION FairSpec
CONSTANTS
  MaxFd = 13
  Object = {s1}
  Call = {c1, c2}
  MaxLeaks = 1
INVARIANTS TypeOK OwnDescriptors ChildIsConnected EndOfOutput
PROPERTIES AllEnd
CHECK_DEADLOCK FALSE
