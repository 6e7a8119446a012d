SPECIFICATION Spec
CONSTANTS
  Procs = {p1, p2}
  Files = {a, b}
  Fixed = {a}
  NPage = 2
  NCACHE = 2
  Val = {0, 1}
  Ops = {"read", "write", "map", "trunc", "link"}
  MaxCalls = 3
  None = None
INVARIANTS TypeOK InUseStays CacheExact SomeCallReturns
PROPERTIES Transparent
CHECK_DEADLOCK FALSE
SYMMETRY Symmetry
CONSTRAINT Unhurried
