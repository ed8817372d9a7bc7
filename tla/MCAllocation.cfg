SPECIFICATION LiveSpec
CONSTANTS
  p1 = p1
  p2 = p2
  n1 = n1
  n2 = n2
  n3 = n3
  NoSpec = NoSpec
  Proc <- MCProc
  Name <- MCName
  Kind <- MCKind
  Value <- MCValue
  Candidates <- MCCandidates
INVARIANTS TypeOK Distinct IInv
PROPERTIES PoolSpec EveryCreateEnds
