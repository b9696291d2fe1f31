SPECIFICATION HelpersSpec
CONSTANTS
  Base = 8
  Block = 2
  MaxLen = 11
  Limit = 128
  BufferSize = 7
  Bases = {2, 3, 10, 16}
  Protocols = {"http", "https", "tcp", "Udp", "udp", "ftp"}
  Hosts = {"1.2.3.4", "name"}
  Dotted = {"1.2.3.4"}
  Numbers <- MCNumbers
  Starts <- MCStarts
  Services <- MCServices
  HTTP = {"http"}
  HTTPS = {"https"}
  TCP = {"tcp"}
  UDP = {"udp", "Udp"}
  MaxRest = 5
  Radix = 200
  Chars <- MCChars
  MaxText = 5
INVARIANTS
  SumsAreFletchers
  HashFits
  TextIsTheNumber
  InsideBuffer
  
  KeysTellTexts
