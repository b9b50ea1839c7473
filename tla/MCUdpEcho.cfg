SPECIFICATION Spec
CONSTANTS
  Client = {c1, c2}
  Nobody = Nobody
  Lens = {0, 2}
  H = 1
  B = 2
  RingSize = 1
  BufSize = 2
  Burst = 2
  RxSize = 1
  MaxDgrams = 2
  MaxCtl = 1
  MaxFrames = 2
  MaxTicks = 1
  MayFail = TRUE
SYMMETRY Symmetry
INVARIANTS NoLostWakeup EveryByteOnce RepliesRight
