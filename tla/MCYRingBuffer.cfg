SPECIFICATION RSpec
CONSTANTS
  Bytes = {0, 1}
  Size = 3
  MaxLen = 4
INVARIANTS
  RTypeOK
  GetTakesTheOldest
  PutKeepsTheNewest
PROPERTIES
  ReturnsWhatItMoved
  ImplementsFifo
