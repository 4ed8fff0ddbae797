SPECIFICATION SendSpec
CONSTANTS
  SizeMod = 64
  U16 = 8
  IdMod = 2
  SeqMod = 8
  EthHdr = 1
  IpHdr = 2
  TcpHdr = 1
  Ipv6 = TRUE
  MaxPayload = 3
  Mtus <- MCSendMtus
  Seqs <- MCSeqs
PROPERTY Drains
PROPERTY ImplementsStack
