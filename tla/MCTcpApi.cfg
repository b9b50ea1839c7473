SPECIFICATION FairSpec
CONSTANTS
  Peers = 3
  MaxFd = 4
  BufferSize = 1
  MSS = 1
  MaxBytes = 1
  MaxDgrams = 1
  MaxCalls = 3
INVARIANTS WakeupsKept FinAfterEcho
PROPERTIES EveryoneServed
CHECK_DEADLOCK FALSE
