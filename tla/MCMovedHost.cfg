SPECIFICATION Spec
CONSTANTS
  p1 = p1
  p2 = p2
  a = a
  MinCid = 3
  MaxCid = 6
  Proc <- OneProc
  Name <- OneName
  Config <- Moves
  MaxKey = 1
  MaxVolume = 1
  Commands <- Moving
INVARIANT MovedHostCanRebuild
