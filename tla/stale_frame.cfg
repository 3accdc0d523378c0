SPECIFICATION Supervisors
CHECK_DEADLOCK FALSE
CONSTANTS
  MaxTasks = 2
  MaxPid = 2
  IDLE = 2
  UserPriorities = {1}
  UninitQuantums = {0}
INVARIANTS
  RunsOwnContext
