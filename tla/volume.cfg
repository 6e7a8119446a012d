SPECIFICATION FairDiskSpec
CONSTANTS
  N = 3
  Kills = TRUE
  Blocks = {1, 2}
  NBUF = 1
  NUM = 3
  Val = {0, 1}
INVARIANTS TypeOK HolderExact NoLostWakeup BlocksExact
PROPERTIES ImplementsMutex VolumeServed
