SPECIFICATION Spec
CONSTANTS
  p1 = p1
  p2 = p2
  x = x
  y = y
  None = None
  Pool = {p1, p2}
  Buffer = {b1, b2}
  Page = {a1, a2, a3, a4}
  PageSize <- MCPageSize
  MinCache <- MCMinCache
  Data = {x, y}
  Inputs <- MCInputs
  MaxSize = 3
  DropsLast = FALSE
  OSPageSize = 2
  Answer = 5
SYMMETRY Symmetry
CHECK_DEADLOCK FALSE
INVARIANTS TypeOK PagesOwnedOnce ParentsAlive BookkeepingAgrees
PROPERTIES ImplementsLog
