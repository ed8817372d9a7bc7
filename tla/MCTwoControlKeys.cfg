SPECIFICATION Spec
CONSTANTS
  p1 = p1
  p2 = p2
  a = a
  MinCid = 3
  MaxCid = 6
  Proc <- TwoProcs
  Name <- OneName
  Config <- Stays
  MaxKey = 2
  MaxVolume = 1
  Commands <- CreateAndRebuild
INVARIANT EveryGuestLetsIn
CHECK_DEADLOCK FALSE
