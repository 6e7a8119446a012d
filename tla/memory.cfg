SPECIFICATION Spec
CONSTANTS
  Procs = {sh, p1}
  Shell = sh
  Names = {n1}
  None = None
  NPages = 10
  Stack = 5
  NVA = 7
  MAX_MAPPING = 2
  NSHMEM = 1
  MaxLen = 3
  MaxShmem = 1
  MaxCalls = 5
INVARIANTS TypeOK PageRefsExact TablesAgree Isolation
CHECK_DEADLOCK FALSE
