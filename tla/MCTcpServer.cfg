SPECIFICATION Spec
CONSTANTS
  Peer = {p1, p2}
  NoPeer = NoPeer
  MaxFd = 2
  BufferSize = 1
  MSS = 1
  MaxSegs = 5
SYMMETRY Symmetry
INVARIANTS ServerNeverWaits FdsOwned EchoInOrder
PROPERTIES ClosesCleanly
CHECK_DEADLOCK FALSE
