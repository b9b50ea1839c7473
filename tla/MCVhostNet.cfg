SPECIFICATION FairSpec
CONSTANTS
  Num = 2
  IdxSpace = 4
  Layouts <- MCLayouts
  Shapes <- MCShapes
  MaxPub <- MCMaxPub
  MaxFrames = 3
  MaxFail = 1
INVARIANTS SetupSafe Translates
PROPERTIES RxRight Served
CHECK_DEADLOCK FALSE
