SPECIFICATION Spec
CONSTANTS
  p1 = p1
  p2 = p2
  p3 = p3
  Readers = {p1, p2}
  Writers = {p2, p3}
  PIPESIZE = 2
  Mod = 4
  Byte = {0, 1}
  MaxN = 2
  Kills = TRUE
  Faults = TRUE
INVARIANTS TypeOK NoUseAfterFree SleepersJustified
PROPERTIES ImplementsStream
