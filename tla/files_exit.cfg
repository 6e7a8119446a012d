SPECIFICATION Spec
CONSTANTS
  p1 = p1
  p2 = p2
  Procs = {p1, p2}
  Disks <- MCDisks
  NInode = 4
  NFile = 2
  NFd = 2
  NCACHE = 1
  Paths <- MCPaths
  Root = "/"
  Parent <- MCParent
  None = None
  MaxCalls = 4
  Calls <- MCCalls
INVARIANTS SleepsUnlocked
CHECK_DEADLOCK FALSE
