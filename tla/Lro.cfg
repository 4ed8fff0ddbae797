SPECIFICATION Spec
CONSTANTS
  Items = {1, 2, 3, 4}
  CountMod = 9
  UsecPerSec = 1000000
  NetHdr <- MCNetHdr
  TcpHdr = 1
  IpMaxPacket = 31
  IfMtu = 11
  MaxMbufs = 4
  Scripts <- Tests
  Garbage <- MCGarbage
INVARIANT TypeOK
INVARIANT AllTestsPass
INVARIANT GreenIsClean
INVARIANT GreenLosesNothing
INVARIANT FlushedOnTime
INVARIANT OneOwner
INVARIANT AgesAreReal
