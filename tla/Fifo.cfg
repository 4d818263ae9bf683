\* A 3-byte array, strings of up to 4 bytes: every wrap, and writes that do not fit.
CONSTANTS
  Byte = {b1, b2}
  FifoLen = 3
  MaxLen = 4
SPECIFICATION Spec
INVARIANTS TypeOK InBounds
PROPERTIES IsQueue CallsAsQueue
