SPECIFICATION Unix
CHECK_DEADLOCK FALSE
CONSTANTS
  MaxTasks = 4
  MaxPid = 4
  IDLE = 2
  UserPriorities = {}
  UninitQuantums = {0}
INVARIANTS
  RunsOwnContext
  WaiterIsRecorded
PROPERTIES
  ZombiesStayDead
