SPECIFICATION ForkJoin
CHECK_DEADLOCK FALSE
CONSTANTS
  MaxTasks = 3
  MaxPid = 5
  IDLE = 2
  UserPriorities = {}
  UninitQuantums = {0}
INVARIANTS
  AlwaysSomebody
PROPERTIES
  WokenByChild
  WokenOnlyByAwaited
  EveryReadyTaskRuns
  ImplementsProcesses
