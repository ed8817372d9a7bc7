SPECIFICATION Spec
CONSTANTS
  p1 = p1
  p2 = p2
  a = a
  Proc <- TwoProcs
  Name <- OneName
  Input <- Inputs
  Bootable <- Good
  MaxId = 1
  Existing <- OneName
  Commands <- StartAndDelete
  MaxRunning = 1
  RemovalsFail = FALSE
INVARIANT RunningNeverDeleted
CHECK_DEADLOCK FALSE
