SPECIFICATION Spec
CONSTANTS
  SizeMod = 64
  U16 = 6
  IdMod = 2
  SeqMod = 8
  EthHdr = 1
  IpHdr = 2
  TcpHdr = 1
  Ipv6 = FALSE
  MaxPayload = 3
  Mtus <- MCMtus
  Seqs <- MCSeqs
INVARIANT TypeOK
INVARIANT PropagationSettled
INVARIANT SegmentAgrees
INVARIANT LengthsExact
INVARIANT MtuRespected
PROPERTY RetransmissionRepeats
PROPERTY ImplementsByteStream
