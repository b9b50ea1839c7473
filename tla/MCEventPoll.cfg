SPECIFICATION EpollFairSpec
CONSTANTS
  EpItem = {i1, i2}
  Fd = {f1, f2}
  NoItem = NoItem
  NoFd = NoFd
  MaxEvents = 2
INVARIANTS Structure NoLostWakeup
PROPERTIES ImplementsEventSet QueuedIsHandedOut
CHECK_DEADLOCK FALSE
