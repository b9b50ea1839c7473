SPECIFICATION FairSpec
CONSTANTS
  Size = 7
  IdxMod = 14
  MaxPkts = 6
INVARIANTS RingIntact NoLostKick
PROPERTIES NoDoubleFree TxCompletes
CHECK_DEADLOCK FALSE
