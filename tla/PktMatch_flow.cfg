SPECIFICATION MatchSpec
CONSTANTS
  SizeMod = 64
  U16 = 8
  IdMod = 2
  SeqMod = 8
  EthHdr = 1
  IpHdr = 2
  TcpHdr = 1
  Ipv6 = TRUE
  MaxPayload = 3
  Nibble = 2
  Foreign = 9
  Tags = {0, 5}
  Mtus <- MCMtus
  Seqs <- MCSeqs
  Classes <- MCClasses
  Flows <- MCFlows
INVARIANT UnmodifiedAccepted
