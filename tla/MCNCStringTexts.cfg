SPECIFICATION Spec
CONSTANTS
  Handle = {h1, h2}
  Block = {b1, b2, b3, b4}
  Char = {x, y}
  Nul = Nul
  Junk = Junk
  NoBlock = NoBlock
  MaxLiteral = 2
  Literal <- MCTexts
  MaxLen = 2
  Reuse = FALSE
  WriteShared = FALSE
  WriteEnd = TRUE
SYMMETRY TextSymmetry
CHECK_DEADLOCK FALSE
PROPERTIES ImplementsValues
