SPECIFICATION Spec
CONSTANTS
  p1 = p1
  p2 = p2
  f = f
  t1 = t1
  d1 = d1
  d2 = d2
  i1 = i1
  i2 = i2
  i3 = i3
  Torn = Torn
  Absent = Absent
  NoInode = NoInode
  Proc <- MCProc
  Path <- MCPath
  Temp <- MCTemp
  Inode <- MCInode
  Doc <- MCDoc
INVARIANTS NeverTruncated RenameSurvives LinkNotBlocked IInv
PROPERTY RegisterSpec
SYMMETRY Symmetric
