------------------------------ MODULE PktStream ------------------------------
(***************************************************************************)
(* The packet template of the pktgen library for the stack the TCP tests   *)
(* are built on: Ethernet / IP (4 or 6) / TCP / payload.                   *)
(*                                                                         *)
(* A template is an immutable tuple of headers. Every operation copies it, *)
(* edits the copy and constructs a new template, and the constructor runs  *)
(* PropagateFields: MTUs flow from the outer header to the inner one, then *)
(* lengths flow from the inner header to the outer one. The state of this  *)
(* module is the template a test is holding; GeneratedFrom is the packet   *)
(* that its Generate() returns at that moment.                             *)
(*                                                                         *)
(* A payload byte is its offset in the payload vector. Addresses, ports,   *)
(* flags and the ethertype and protocol constants are left out: no length, *)
(* offset or sequence number depends on them.                              *)
(***************************************************************************)
EXTENDS Integers

CONSTANTS
  SizeMod,               \* size_t is an integer modulo SizeMod
  U16,                   \* uint16_t is an integer modulo U16
  IdMod,                 \* ip_id is a uint16_t too; its own modulus keeps it small
  SeqMod,                \* TCP sequence numbers are uint32_t: modulo SeqMod
  EthHdr, IpHdr, TcpHdr, \* sizes of the three headers
  Ipv6,                  \* TRUE iff the L3 header is IPv6
  Mtus,                  \* the MTUs a test may set, by header
  Seqs,                  \* the sequence numbers a test may set
  MaxPayload             \* bound on the size of a payload vector

ASSUME ConstAssumption ==
  /\ SizeMod \in Nat /\ U16 \in Nat /\ SeqMod \in Nat \ {0} /\ IdMod \in Nat \ {0}
  /\ EthHdr \in Nat \ {0} /\ IpHdr \in Nat \ {0} /\ TcpHdr \in Nat \ {0}
  /\ IpHdr + TcpHdr < U16
  /\ EthHdr + IpHdr + U16 < SizeMod
  /\ Ipv6 \in BOOLEAN
  /\ MaxPayload \in Nat /\ MaxPayload + TcpHdr < SizeMod
  /\ Mtus \in [{"eth", "ip", "tcp", "pay"} -> SUBSET (0..(SizeMod - 1))]
  /\ Seqs \subseteq 0..(SeqMod - 1)

VARIABLE tmpl  \* the template: its four headers

-----------------------------------------------------------------------------
(* Fixed-width arithmetic and the fields common to all headers.            *)

Size == 0..(SizeMod - 1)
Wrap(x) == x % SizeMod
Least(a, b) == IF a <= b THEN a ELSE b

DefaultMtu == SizeMod - 1

\* IP_MAXPACKET and IPV6_MAXPACKET
IpMaxPacket == U16 - 1

GetMtu(h) == Least(h.localMtu, h.outerMtu)

Eth == [localMtu : Size, outerMtu : Size, payloadLength : Size]
Ip  == [localMtu : Size, outerMtu : Size, lenField : 0..(U16 - 1), id : 0..(IdMod - 1)]
Tcp == [localMtu : Size, outerMtu : Size, payloadLength : Size, seq : 0..(SeqMod - 1)]
Pay == {p \in [localMtu : Size, outerMtu : Size, size : 0..MaxPayload,
               payloadIndex : 0..MaxPayload] : p.payloadIndex <= p.size}

Template == [eth : Eth, ip : Ip, tcp : Tcp, pay : Pay]
-----------------------------------------------------------------------------
(* Lengths: what each header says it carries.                              *)

\* PayloadTemplate::GetLen: the payload does not look at the outer MTU here.
PayGetLen(p) == Least(p.size - p.payloadIndex, p.localMtu)

\* The number of bytes PayloadTemplate::FillPacket copies.
PayFillLen(p) == Least(PayGetLen(p), GetMtu(p))

\* Mutant: the TCP header believes the payload and forgets the MTU.
TcpLengthWithoutMtu(h) == h.payloadLength

\* TcpTemplate::GetPayloadLength
TcpPayloadLength(h) == Least(Wrap(GetMtu(h) - TcpHdr), h.payloadLength)

\* Mutant: ip6_plen counts the header, as ip_len does.
IpLenWithHeader(payLen) == (IpHdr + payLen) % U16

\* ip_len counts the IPv4 header, ip6_plen does not count the IPv6 header.
IpLenField(payLen) == IF Ipv6 THEN payLen % U16 ELSE (IpHdr + payLen) % U16

\* Mutant: the header is not taken off ip_len again.
IpLenAsIs(h) == h.lenField

IpPayloadLength(h) == IF Ipv6 THEN h.lenField ELSE Wrap(h.lenField - IpHdr)
-----------------------------------------------------------------------------
(* PropagateFields, run by both constructors.                              *)

\* Mutant: a header passes on the MTU it was given and drops its own.
PropagateOuterMtuOnly(t) ==
  LET ipMtu  == Wrap(GetMtu(t.eth) - EthHdr)
      tcpMtu == Wrap(ipMtu - IpHdr)
  IN  [t EXCEPT !.ip.outerMtu = ipMtu, !.tcp.outerMtu = tcpMtu,
                !.pay.outerMtu = Wrap(tcpMtu - TcpHdr)]

PropagateInwards(t) ==
  LET ipMtu  == Wrap(GetMtu(t.eth) - EthHdr)
      tcpMtu == Wrap(Least(t.ip.localMtu, ipMtu) - IpHdr)
      payMtu == Wrap(Least(t.tcp.localMtu, tcpMtu) - TcpHdr)
  IN  [t EXCEPT !.ip.outerMtu = ipMtu, !.tcp.outerMtu = tcpMtu, !.pay.outerMtu = payMtu]

PropagateOutwards(t) ==
  LET tcp == [t.tcp EXCEPT !.payloadLength = PayGetLen(t.pay)]
      ip  == [t.ip  EXCEPT !.lenField = IpLenField(Wrap(TcpHdr + TcpPayloadLength(tcp)))]
      eth == [t.eth EXCEPT !.payloadLength = Wrap(IpHdr + IpPayloadLength(ip))]
  IN  [t EXCEPT !.eth = eth, !.ip = ip, !.tcp = tcp]

\* Mutant: the lengths flow before the MTUs they depend on.
PropagateLengthsFirst(t) == PropagateInwards(PropagateOutwards(t))

Propagate(t) == PropagateOutwards(PropagateInwards(t))
-----------------------------------------------------------------------------
(* The operations of a template. Each returns a new one, which the test    *)
(* assigns to the variable it holds.                                       *)

\* PacketTemplate(EthernetHeader(), Ipv?Header(), TcpHeader().With(seq(s)),
\*                PacketPayload().With(payload(..n bytes..)))
NewTemplate(n, s) ==
  Propagate(
    [eth |-> [localMtu |-> DefaultMtu, outerMtu |-> DefaultMtu, payloadLength |-> 0],
     ip  |-> [localMtu |-> DefaultMtu, outerMtu |-> DefaultMtu, id |-> 0,
              lenField |-> IpLenField(0)],
     tcp |-> [localMtu |-> DefaultMtu, outerMtu |-> DefaultMtu, payloadLength |-> 0,
              seq |-> s],
     pay |-> [localMtu |-> DefaultMtu, outerMtu |-> DefaultMtu, size |-> n,
              payloadIndex |-> 0]])

\* ip_id is incremented by Next and by Retransmission alike, for IPv4 only.
NextId(h) == IF Ipv6 THEN h.id ELSE (h.id + 1) % IdMod

\* Mutant: the sequence number moves by what the payload has left.
NextTcpWithoutMtu(h) == [h EXCEPT !.seq = (h.seq + h.payloadLength) % SeqMod]

\* Mutant: the payload skips what it offered, not what the outer MTU let through.
NextPayWithoutMtu(p) == [p EXCEPT !.payloadIndex = p.payloadIndex + PayGetLen(p)]

NextIp(h)  == [h EXCEPT !.id = NextId(h)]
NextTcp(h) == [h EXCEPT !.seq = (h.seq + TcpPayloadLength(h)) % SeqMod]
NextPay(p) == [p EXCEPT !.payloadIndex =
                 p.payloadIndex + (IF PayGetLen(p) <= GetMtu(p) THEN PayGetLen(p)
                                                                ELSE GetMtu(p))]

\* Mutant: the payload stays where it is.
NextHeadersOnly(t) == Propagate([t EXCEPT !.ip = NextIp(t.ip), !.tcp = NextTcp(t.tcp)])

\* Mutant: the payload moves on under the old sequence number.
RetransmissionOfNextBytes(t) ==
  Propagate([t EXCEPT !.ip = NextIp(t.ip), !.pay = NextPay(t.pay)])

NextTemplate(t) ==
  Propagate([t EXCEPT !.ip = NextIp(t.ip), !.tcp = NextTcp(t.tcp), !.pay = NextPay(t.pay)])

RetransmissionOf(t) == Propagate([t EXCEPT !.ip = NextIp(t.ip)])

\* Generate: allocate from the outermost lengths, then let every header fill
\* its own bytes. The allocated length is converted to int on its way to
\* alloc_mbuf, which is exact for all lengths in reach of the 16-bit fields and not
\* modelled.
GeneratedFrom(t) ==
  [len    |-> Wrap(EthHdr + t.eth.payloadLength),
   ipLen  |-> t.ip.lenField,
   id     |-> t.ip.id,
   seq    |-> t.tcp.seq,
   first  |-> t.pay.payloadIndex,
   copied |-> PayFillLen(t.pay)]
-----------------------------------------------------------------------------
Init ==
  \E n \in 0..MaxPayload, s \in Seqs : tmpl = NewTemplate(n, s)

NextSegment == tmpl' = NextTemplate(tmpl)

Retransmission == tmpl' = RetransmissionOf(tmpl)

\* WithHeader(..).Fields(mtu(m)); the IP headers throw when m is too large.
WithEthMtu(m) == tmpl' = Propagate([tmpl EXCEPT !.eth.localMtu = m])

WithIpMtu(m) ==
  /\ m <= IpMaxPacket
  /\ tmpl' = Propagate([tmpl EXCEPT !.ip.localMtu = m])

WithTcpMtu(m) == tmpl' = Propagate([tmpl EXCEPT !.tcp.localMtu = m])

WithPayMtu(m) == tmpl' = Propagate([tmpl EXCEPT !.pay.localMtu = m])

\* seq(s), incrSeq(n)
WithSeq(s) == tmpl' = Propagate([tmpl EXCEPT !.tcp.seq = s])

\* payload(..): PayloadTemplate::SetPayload starts over at index 0.
ReplaceBytes(p, n) == [p EXCEPT !.size = n, !.payloadIndex = 0]

WithPayload(n) == tmpl' = Propagate([tmpl EXCEPT !.pay = ReplaceBytes(@, n)])

\* appendPayload(..)
WithAppend(n) ==
  /\ tmpl.pay.size + n <= MaxPayload
  /\ tmpl' = Propagate([tmpl EXCEPT !.pay.size = @ + n])

\* length(n) throws when n is more than the payload has.
\* Mutant: the index is left beyond the end of a shortened payload.
SetLengthOnly(p, n) == [p EXCEPT !.size = n]

SetLength(p, n) == [p EXCEPT !.size = n, !.payloadIndex = Least(@, n)]

WithLength(n) ==
  /\ n <= tmpl.pay.size
  /\ tmpl' = Propagate([tmpl EXCEPT !.pay = SetLength(@, n)])

SetMtu ==
  \/ \E m \in Mtus.eth : WithEthMtu(m)
  \/ \E m \in Mtus.ip  : WithIpMtu(m)
  \/ \E m \in Mtus.tcp : WithTcpMtu(m)
  \/ \E m \in Mtus.pay : WithPayMtu(m)

SetPayload == \E n \in 0..MaxPayload : WithPayload(n) \/ WithAppend(n) \/ WithLength(n)

SetSeq == \E s \in Seqs : WithSeq(s)

Next == NextSegment \/ Retransmission \/ SetMtu \/ SetPayload \/ SetSeq

Spec == Init /\ [][Next]_tmpl

\* A test that walks the stream: it advances, resends and may change
\* MTUs on the way, and its loop calls Next() again and again.
SendStep == NextSegment \/ Retransmission \/ SetMtu

SendSpec == Init /\ [][SendStep]_tmpl /\ WF_tmpl(NextSegment)
-----------------------------------------------------------------------------
(* Correctness.                                                            *)

\* Every field keeps its width and the payload index stays inside the payload
\* vector: FillPacket reads payload[payloadIndex], and SetLength may have cut
\* the vector shorter than the index.
TypeOK == tmpl \in Template

\* A template that was just constructed is a fixpoint of propagation: one pass
\* inwards and one outwards settle every MTU and every length, so no operation
\* ever reads a length computed for another MTU or another payload.
PropagationSettled == Propagate(tmpl) = tmpl

\* The TCP header and the payload each work out the size of the segment, TCP to
\* advance th_seq and to tell IP its length, the payload to advance its index
\* and to copy bytes. They never disagree, not even when an MTU smaller than
\* the headers makes size_t wrap around.
SegmentAgrees == TcpPayloadLength(tmpl.tcp) = PayFillLen(tmpl.pay)

\* The packet is small enough for the 16-bit length field of its IP header.
FitsIp(t) == (IF Ipv6 THEN 0 ELSE IpHdr) + TcpHdr + PayFillLen(t.pay) < U16

\* Every MTU has room for the headers it must hold.
MtusHoldHeaders(t) ==
  /\ t.eth.localMtu >= EthHdr + IpHdr + TcpHdr
  /\ t.ip.localMtu  >= IpHdr + TcpHdr
  /\ t.tcp.localMtu >= TcpHdr

\* Generate() allocates exactly the bytes the headers fill, and the IP length
\* field counts exactly them, as long as the packet fits the field; one byte more
\* and both are too small, so that FillPacket writes past what was allocated. An
\* MTU set on the IP header makes every packet fit.
LengthsExact ==
  LET p       == GeneratedFrom(tmpl)
      filled  == EthHdr + IpHdr + TcpHdr + p.copied
      counted == (IF Ipv6 THEN 0 ELSE IpHdr) + TcpHdr + p.copied
  IN  /\ FitsIp(tmpl)  => p.len = filled /\ p.ipLen = counted
      /\ ~FitsIp(tmpl) => p.len < filled /\ p.ipLen < counted
      /\ MtusHoldHeaders(tmpl) /\ tmpl.ip.localMtu <= IpMaxPacket => FitsIp(tmpl)

\* No generated packet that fits its length field is larger than any MTU on its
\* stack, whichever header the MTU was set on, if each MTU has room for the headers
\* that it must hold. (A smaller one wraps TcpTemplate::GetPayloadLength around
\* and is exceeded.)
MtuRespected ==
  LET p == GeneratedFrom(tmpl) IN
    MtusHoldHeaders(tmpl) /\ FitsIp(tmpl) =>
    /\ p.len <= tmpl.eth.localMtu
    /\ p.len - EthHdr <= tmpl.ip.localMtu
    /\ p.len - EthHdr - IpHdr <= tmpl.tcp.localMtu
    /\ p.copied <= tmpl.pay.localMtu

\* A retransmission puts the very same bytes on the wire under the same
\* sequence number; only the IPv4 id may differ.
RetransmissionRepeats ==
  [][Retransmission =>
       GeneratedFrom(tmpl') = [GeneratedFrom(tmpl) EXCEPT !.id = NextId(tmpl.ip)]]_tmpl

\* The template implements the abstract byte stream: what Generate() copies and
\* what Next() skips is one and the same segment, and the sequence number moves
\* with the payload index whatever MTUs are set on the way.
Stream == INSTANCE ByteStream WITH
  total  <- tmpl.pay.size,
  cursor <- tmpl.pay.payloadIndex,
  seg    <- PayFillLen(tmpl.pay),
  seq    <- tmpl.tcp.seq

ImplementsByteStream == Stream!Spec

\* The template as a stack of any headers: this module's four are a special case
\* of Stack, and its equations those of the general propagation.
AsStack == INSTANCE Stack WITH
  HdrLen      <- [eth |-> EthHdr, ip4 |-> IpHdr, ip6 |-> IpHdr, tcp |-> TcpHdr],
  MaxDepth    <- 4,
  MaxMtus     <- 4,
  MtuChoices  <- UNION {Mtus[h] : h \in DOMAIN Mtus},
  TypeChoices <- {},
  MaxBytes    <- MaxPayload,
  stack       <- LET ip == IF Ipv6 THEN "ip6" ELSE "ip4"
                     H(k, h, len, type) == [kind |-> k, localMtu |-> h.localMtu,
                                            outerMtu |-> h.outerMtu, len |-> len, type |-> type]
                 IN  << H("eth", tmpl.eth, tmpl.eth.payloadLength, ip),
                        H(ip, tmpl.ip, tmpl.ip.lenField, "tcp"),
                        H("tcp", tmpl.tcp, tmpl.tcp.payloadLength, "none"),
                        H("pay", tmpl.pay, tmpl.pay.size - tmpl.pay.payloadIndex, "none") >>

ImplementsStack == AsStack!Spec

\* A test that keeps calling Next() sends the whole payload, as long as the
\* MTUs leave room for at least one byte of it.
Drains == [](GetMtu(tmpl.pay) > 0) => <>(tmpl.pay.payloadIndex = tmpl.pay.size)
=============================================================================
