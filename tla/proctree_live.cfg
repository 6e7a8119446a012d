SPECIFICATION FairSpec
CONSTANTS
  NPROC = 2
  MaxPid = 3
  Args = {1, 2}
  IoWakeups = FALSE
  Times = FALSE
  MayFail = FALSE
PROPERTIES WaitReturns ExitCompletes
CHECK_DEADLOCK FALSE
