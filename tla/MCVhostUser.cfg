SPECIFICATION FairSpec
CONSTANTS
  FdListSize = 3
  DefaultPath = TRUE
  MaxClients = 3
  MaxPkts = 2
INVARIANTS SessionsSafe
PROPERTIES SetupCompletes LoopServes
CHECK_DEADLOCK FALSE
