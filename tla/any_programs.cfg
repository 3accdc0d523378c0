SPECIFICATION Spec
CHECK_DEADLOCK FALSE
CONSTANTS
  MaxTasks = 2
  MaxPid = 3
  IDLE = 2
  UserPriorities = {3, 6}
  UninitQuantums = {0}
INVARIANTS
  TypeOK
  TableSorted
  TableDistinct
  IdleDiscipline
  CursorOnTask
PROPERTIES
  OnlyTerminatedLeave
