SPECIFICATION FairSpec
CONSTANTS
  NPROC = 3
  MaxPid = 3
  Args = {}
  IoWakeups = TRUE
  Times = FALSE
  MayFail = FALSE
PROPERTY WaitReturns
CHECK_DEADLOCK FALSE
