SPECIFICATION TimerSpec
CONSTANTS
  USER_TIMER_MAX_COUNT = 2
  MaxTimeout = 1
  MaxCalls = 4
PROPERTIES
  RestartsKeepTime
CHECK_DEADLOCK FALSE
