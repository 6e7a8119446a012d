SPECIFICATION Spec
CONSTANTS
  Cpus = {c1, c2}
  Procs = {sh, p1}
  Shell = sh
  None = None
PROPERTY DispatchesRunnable
CHECK_DEADLOCK FALSE
