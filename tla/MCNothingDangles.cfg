SPECIFICATION Spec
CONSTANTS
  p1 = p1
  p2 = p2
  a = a
  Proc <- OneProc
  Name <- OneName
  Input <- Inputs
  Bootable <- Good
  MaxId = 1
  Existing <- OneName
  Commands <- RebuildAndCollect
  MaxRunning = 1
  RemovalsFail = FALSE
INVARIANT NothingDangles
CHECK_DEADLOCK FALSE
