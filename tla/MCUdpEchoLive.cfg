SPECIFICATION FairSpec
CONSTANTS
  Client = {c1}
  Nobody = Nobody
  Lens = {3}
  H = 1
  B = 2
  RingSize = 1
  BufSize = 2
  Burst = 2
  RxSize = 1
  MaxDgrams = 2
  MaxCtl = 0
  MaxFrames = 2
  MaxTicks = 2
  MayFail = FALSE
PROPERTIES UdpProgress
