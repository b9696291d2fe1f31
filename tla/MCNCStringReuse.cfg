SPECIFICATION Spec
CONSTANTS
  Handle = {h1, h2}
  Block = {b1, b2, b3}
  Char = {x}
  Nul = Nul
  Junk = Junk
  NoBlock = NoBlock
  MaxLiteral = 2
  Literal <- MCLiteral
  MaxLen = 4
  Reuse = TRUE
  WriteShared = FALSE
  WriteEnd = FALSE
CHECK_DEADLOCK FALSE
INVARIANTS InPlaceIsSafe
