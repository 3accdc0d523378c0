SPECIFICATION Daemons
CHECK_DEADLOCK FALSE
CONSTANTS
  MaxTasks = 3
  MaxPid = 3
  IDLE = 2
  UserPriorities = {6, 12, 30}
  UninitQuantums = {0, 5}
INVARIANTS
  OneRunning
PROPERTIES
  SearchEnds
  FairWhenSettled
