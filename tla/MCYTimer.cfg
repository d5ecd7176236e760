SPECIFICATION FairTimerSpec
CONSTANTS
  USER_TIMER_MAX_COUNT = 2
  MaxTimeout = 1
  MaxCalls = 4
INVARIANTS
  TimerTypeOK
  CallsMeetTheirTimer
PROPERTIES
  FiresOnTime
  RunningTimersFire
CHECK_DEADLOCK FALSE
