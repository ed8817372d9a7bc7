SPECIFICATION Spec
CONSTANTS
  p1 = p1
  p2 = p2
  a = a
  Proc <- TwoProcs
  Name <- OneName
  Input <- Inputs
  Bootable <- Good
  MaxId = 1
  Existing <- Nobody
  Commands <- Contending
  MaxRunning = 1
  RemovalsFail = FALSE
CONSTRAINT Orderly
INVARIANTS OneWriter NobodyWaitsHolding LockInv RunnerRooted RollbackPossible RollbackRestores UpgradeInv
CHECK_DEADLOCK FALSE
