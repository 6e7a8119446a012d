SPECIFICATION Spec
CONSTANTS
  Cpus = {c1, c2, c3}
  Procs = {sh, p1, p2}
  Shell = sh
  None = None

INVARIANTS
  TypeOK
  StackExclusive
  ContextSaved
  SwitchAsserts
  FreeSlotQuiescent
  HaltsWhenEmpty
SYMMETRY Symmetry
CONSTRAINT Unraced
PROPERTY TestedStaysRunnable
