\* Counts are updated without a thread switch in between.  The run stops where a
\* message is used or freed after its free.
CONSTANTS
  Client = {c1, c2}
  NULL = NULL
  MAX_QUEUE_NUM = 2
  MAX_QUEUE_LENGTH = 1
  MaxLen = 1
  Packets = 3
  Indivisible = TRUE
SPECIFICATION FairSpec
INVARIANTS RefExact HeldIsLive MemoryBound
PROPERTY EveryMessageFreed
CHECK_DEADLOCK FALSE
