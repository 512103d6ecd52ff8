CONSTANTS
  Peer = {p1}
  NoPeer = NoPeer
SPECIFICATION FairSpec
PROPERTIES ShutdownReturns
CHECK_DEADLOCK FALSE
