CONSTANTS
  FifoSize = 2
  HexDigits = 2
  Uarts <- MCUarts
  Columns = 3
  MaxRows = 2
  Strings <- MCStrings
  Numbers <- MCNumbers
  Options <- MCOptions
  PortOption <- MCPortOption
  MaxValue = 4
  ULONG_MAX = 4095
  PortMod = 256
  Boots <- MCBoots
SPECIFICATION FairSpec
INVARIANTS
  TypeOK
  ParsedAsWritten
  PortAsWritten
  PortReady
  NothingLost
  Legible
  HexReadsBack
PROPERTIES
  PrintsReturn
\* nothing has to print
CHECK_DEADLOCK FALSE
