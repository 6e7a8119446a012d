SPECIFICATION Spec
CONSTANTS
  NPROC = 3
  MaxPid = 3
  Args = {2}
  IoWakeups = TRUE
  Times = TRUE
  MayFail = TRUE
INVARIANTS TypeOK FamilyTree NoLostExitWakeup CreatingExact FlushedAlone LocksOrdered
PROPERTY ReapedByParent
CHECK_DEADLOCK FALSE
