SPECIFICATION Spec
CONSTANTS
  SizeMod = 64
  U16 = 8
  HdrLen <- MCHdrLen
  MaxDepth = 5
  MaxMtus = 2
  MtuChoices = {5, 8}
  TypeChoices = {"ip6"}
  MaxBytes = 2
INVARIANT TypeOK
INVARIANT SelectsTheNth
INVARIANT TypesNameInner
INVARIANT LengthsNest
