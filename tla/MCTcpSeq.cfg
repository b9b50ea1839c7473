SPECIFICATION FairSpec
CONSTANTS
  SeqSpace = 16
  Lessons = {8, 9}
  PeerIsn = {13}
  OwnIss = {14}
  Mss = 2
  BufSize = 3
  MaxBytes = 2
  MaxFaults = 2
INVARIANTS AcksHonest EchoInOrder
PROPERTIES Progress
CHECK_DEADLOCK FALSE
