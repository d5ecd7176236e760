SPECIFICATION FairHSpec
CONSTANTS
  YOS_MAX_TASK_COUNT = 4
  MaxDelay = 2
  MinTasks = 1
INVARIANTS
  TypeOK
  SwitchTargetValid
  MaskStaysWithItsTask
  OnlyLiveTasksExecute
  NeverReturns
PROPERTIES
  Lifecycle
  WakesOnTime
  BoundedBypass
  ImplementsScheduler
  EveryRunnableRuns
  EverySleeperRuns
