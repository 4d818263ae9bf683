CONSTANTS
  Frames = 2
  Alarms = {1}
  REVFIFOLEN = 17
  U8 = 9
  U16 = 32
  DATAUPLEN = 4
SPECIFICATION Spec
INVARIANTS TypeOK Aligned OnlySound
PROPERTY EveryFrameUp
