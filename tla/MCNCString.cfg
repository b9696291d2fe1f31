SPECIFICATION Spec
CONSTANTS
  Handle = {h1, h2, h3}
  Block = {b1, b2, b3, b4}
  Char = {x}
  Nul = Nul
  Junk = Junk
  NoBlock = NoBlock
  MaxLiteral = 1
  Literal <- MCLiteral
  MaxLen = 2
  Reuse = FALSE
  WriteShared = FALSE
  WriteEnd = FALSE
SYMMETRY Symmetry
CHECK_DEADLOCK FALSE
INVARIANTS TypeOK InPlaceIsSafe OldBlockIsKept Terminated
PROPERTIES ImplementsValues
