SPECIFICATION Spec
CONSTANTS
  Items = {m1, m2, m3}
  Bufs = {b1, b2}
  None = None
  CountMod = 5
INVARIANT TypeOK
INVARIANT RefcountExact
INVARIANT HolderAlive
PROPERTY ImplementsSharedStorage
PROPERTY TeardownVerdict
