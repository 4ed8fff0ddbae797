SPECIFICATION Spec
CONSTANTS
  zone = zone
  pool = pool
  clock = clock
  ifnet = ifnet
  Inits <- MCInits
  Guarded <- MCGuarded
  Key <- MCKey
INVARIANT BodyIsFresh
INVARIANT Nested
INVARIANT NeverDestroysNothing
PROPERTY StaleBlame
PROPERTY Recovers
