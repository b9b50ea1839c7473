SPECIFICATION Spec
CONSTANTS
  Size = 4
  IdxMod = 8
  MaxPkts = 5
PROPERTIES NoDoubleFree
CHECK_DEADLOCK FALSE
