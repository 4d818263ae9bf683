SPECIFICATION Spec
CONSTANTS
  Peer = {g1, g2}
  ROUT_UDP_PORT = ROUT_UDP_PORT
  NetId = {i1, i2}
  Request = {"LINK_ORDER_BUNDING", "MANAGE_DELETE", "MANAGE_MODEL_REBOOT"}
  Nobody = Nobody
  Own = Own
  Junk = Junk
SYMMETRY Symmetry
VIEW View
INVARIANTS TypeOK AtMostOneStale AckTruthful AddressAsked
PROPERTY ImplementsBinding
