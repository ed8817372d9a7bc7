SPECIFICATION Spec
CONSTANTS
  p1 = p1
  p2 = p2
  a = a
  Proc <- OneProc
  Name <- OneName
  Input <- Inputs
  Bootable <- Good
  MaxId = 2
  Existing <- Nobody
  Commands <- AllCommands
  MaxRunning = 1
  RemovalsFail = FALSE
INVARIANTS TypeOK NoOrphans InstalledMatchesSpec RunnerRooted TidyInv
PROPERTY CredentialsKept
CHECK_DEADLOCK FALSE
