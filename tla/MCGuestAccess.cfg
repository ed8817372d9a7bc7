SPECIFICATION Spec
CONSTANTS
  p1 = p1
  p2 = p2
  a = a
  MinCid = 3
  MaxCid = 6
  Proc <- TwoProcs
  Name <- OneName
  Config <- Moves
  MaxKey = 2
  MaxVolume = 2
  Commands <- Everything
SYMMETRY Symmetry
INVARIANTS IInv KeyLetsIn PinIsOwn AddressInItsNetwork RangeMatchesValidation
PROPERTY KeyStays
CONSTRAINT Uncontested
