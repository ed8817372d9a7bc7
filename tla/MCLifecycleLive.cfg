SPECIFICATION LiveSpec
CONSTANTS
  p1 = p1
  p2 = p2
  a = a
  Proc <- TwoProcs
  Name <- OneName
  Input <- Bad
  Bootable <- Nobody
  MaxId = 1
  Existing <- Nobody
  Commands <- CreateAndRebuild
  MaxRunning = 1
  RemovalsFail = TRUE
PROPERTY EveryCommandEnds
CHECK_DEADLOCK FALSE
