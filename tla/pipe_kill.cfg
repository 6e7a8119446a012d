SPECIFICATION FairKillSpec
CONSTANTS
  p1 = p1
  p2 = p2
  p3 = p3
  Readers = {p1}
  Writers = {p2, p3}
  PIPESIZE = 2
  Mod = 4
  Byte = {0}
  MaxN = 3
  Kills = TRUE
  Faults = FALSE
PROPERTY DataWakesReader
