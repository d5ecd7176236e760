SPECIFICATION TSpec
CONSTANTS
  YOS_MAX_TASK_COUNT = 3
  MaxDelay = 2
  MinTasks = 1
  TASK_SWITCH_INTERVAL_MS = 2
  MaxSleep = 5
PROPERTIES
  AlmostEnough
