SPECIFICATION FairUSpec
CONSTANTS
  Bytes = {0, 1, 2, 3}
  Callers = {t1, t2}
  BufferSize = 2
  MaxArrivals = 3
  MaxWrites = 2
INVARIANTS
  RingSharedSafely
  NothingElseIsLost
  AcceptedBytesLeave
PROPERTIES
  CallsReturnUnlessOverrun
  ArrivalsAreServed
