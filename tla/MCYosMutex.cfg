SPECIFICATION FairMSpec
CONSTANTS
  YOS_MAX_TASK_COUNT = 3
  MaxDelay = 1
  MinTasks = 1
INVARIANTS
  MutexTypeOK
  OwnerIsInside
PROPERTIES
  ImplementsMutex
  FreeMutexIsTaken
