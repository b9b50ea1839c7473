SPECIFICATION FairSpec
CONSTANTS
  Peer = {p1, p2}
  NoPeer = NoPeer
  MaxFd = 2
  BufferSize = 1
  MSS = 2
  MaxSegs = 3
PROPERTIES EventServed
CHECK_DEADLOCK FALSE
