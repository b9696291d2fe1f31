SPECIFICATION FairSpec
CONSTANTS
  Byte = {a, CR, NL, EOT}
  CR = CR
  NL = NL
  EOT = EOT
  Length = 4
  Chunk = 3
  MaxSize = 2
  Sizes <- MCSizes
  MaxFails = 1
INVARIANTS TypeOK CanonicalKeepsNothing
PROPERTIES InOrderOnce ReadLosesNothing ShortLinesWhole LinesAreRead
CHECK_DEADLOCK FALSE
