SPECIFICATION FairUSpec
CONSTANTS
  Bytes = {0, 1, 2}
  Callers = {t1, t2}
  BufferSize = 1
  MaxArrivals = 2
  MaxWrites = 1
PROPERTIES
  CallsReturn
