SPECIFICATION LiveSpec
CONSTANTS
  Fd = {3, 4}
  AccessKey = {k1}
  NoKey = NoKey
  JL_MAX_SERVER_HB_LOST = 2
  MaxStream = 2
INVARIANTS TypeOK DescriptorOwned WorksWithItsKey UploadsInSession KeyKept
PROPERTIES GivesUp GetsToWork
