SPECIFICATION Spec
CONSTANTS
  Handle = {h1, h2}
  Block = {b1, b2, b3}
  Char = {x, y}
  Nul = Nul
  Junk = Junk
  NoBlock = NoBlock
  MaxLiteral = 1
  Literal <- MCLiteral
  MaxLen = 2
  Reuse = FALSE
  WriteShared = TRUE
  WriteEnd = FALSE
CHECK_DEADLOCK FALSE
PROPERTIES ImplementsValues
