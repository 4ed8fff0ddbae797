SPECIFICATION Spec
CONSTANTS
  Items = {i1, i2, i3}
  CountMod = 5
  MaxSurplus = 2
PROPERTY ModifiedAfterFreeCaught
CHECK_DEADLOCK FALSE
