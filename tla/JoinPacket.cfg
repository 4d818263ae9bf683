SPECIFICATION Spec
CONSTANTS
  Name = {"a"}
  Id = {1, 2}
  JL_MAX_JOIN_PKG_ARRARY = 2
  MaxTotal = 3
  MaxParts = 4
PROPERTY AllDataHit
