CONSTANTS
  Client = {c1, c2}
  NULL = NULL
  MAX_QUEUE_NUM = 2
  MAX_QUEUE_LENGTH = 1
  MaxLen = 1
  Packets = 1
  Indivisible = FALSE
SPECIFICATION Spec
INVARIANT DeliversUartData
CHECK_DEADLOCK FALSE
