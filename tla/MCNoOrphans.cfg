SPECIFICATION Spec
CONSTANTS
  p1 = p1
  p2 = p2
  a = a
  Proc <- TwoProcs
  Name <- OneName
  Input <- Inputs
  Bootable <- Good
  MaxId = 1
  Existing <- Nobody
  Commands <- CreateAndRebuild
  MaxRunning = 1
  RemovalsFail = FALSE
INVARIANT NoOrphans
CHECK_DEADLOCK FALSE
