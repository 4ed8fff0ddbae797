SPECIFICATION Spec
CONSTANTS
  Items = {i1, i2, i3}
  CountMod = 5
  MaxSurplus = 2
SYMMETRY Symmetric
INVARIANT TypeOK
INVARIANT NoFalseAlarm
INVARIANT CleanVerdict
CHECK_DEADLOCK FALSE
