SPECIFICATION FairSpec
CONSTANTS
  p1 = p1
  p2 = p2
  x = x
  y = y
  None = None
  Pool = {p1}
  Buffer = {b1}
  Page = {a1, a2, a3, a4}
  PageSize <- MCDefaultPageSize
  MinCache <- MCDefaultMinCache
  Data = {x, y}
  Inputs <- MCInputs
  MaxSize = 3
  DropsLast = FALSE
  OSPageSize = 2
  Answer = 5
CHECK_DEADLOCK FALSE
PROPERTIES AppendReturns
