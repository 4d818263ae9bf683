\* Thread switches anywhere, also inside the update of a count.
CONSTANTS
  Client = {c1, c2, c3}
  NULL = NULL
  MAX_QUEUE_NUM = 2
  MAX_QUEUE_LENGTH = 1
  MaxLen = 1
  Packets = 2
  Indivisible = FALSE
SPECIFICATION Spec
INVARIANTS TypeOK PushesToLiveQueue NothingLeft SlotOwned
SYMMETRY Symmetry
CHECK_DEADLOCK FALSE
