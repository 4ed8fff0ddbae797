------------------------------ MODULE PktMatch -------------------------------
(***************************************************************************)
(* The matcher of a packet template: which packets a test takes for the    *)
(* one it expects. The templates are those of PktStream, together with the *)
(* attributes that it leaves out: the VLAN tag, the checksum flags, the    *)
(* IPv6 traffic class and flow label.                                      *)
(*                                                                         *)
(* A packet is what the fields of the mbuf chain hold. All other compared  *)
(* fields of a header (addresses, ports, types, ...) are written and read  *)
(* in the same way; a packet only says in which headers one of them is not *)
(* the template's. Checksums are not compared and not here.                *)
(***************************************************************************)
EXTENDS PktStream, Sequences

CONSTANTS
  Nibble,   \* four bits are an integer modulo Nibble
  Tags,     \* the VLAN tags a test may set; 0 stands for none
  Classes,  \* the IPv6 traffic classes a test may set
  Flows,    \* the flow labels a test may set
  Foreign   \* a byte no payload has

\* Numbers of eight and of twenty bits: a byte, and what fits a flow label.
Byte  == Nibble * Nibble
Label == Byte * Byte * Nibble

ASSUME MatchAssumption ==
  /\ Nibble \in Nat \ {0, 1}
  /\ Tags \subseteq Nat
  /\ Classes \subseteq 0..(Byte - 1)
  /\ Flows \subseteq 0..(Byte * Byte * Byte * Byte - 1)
  /\ Foreign \in Int \ 0..MaxPayload

\* The attributes of the headers of tmpl: vlan, the tag (0 is none); class and
\* flow of an IPv6 header; l3 and l4, what the test says of the two checksums, each
\* [verified, passed : BOOLEAN].
VARIABLE attr

-----------------------------------------------------------------------------
(* FillPacket.                                                             *)

SumFlags(sum, calc, valid) ==
  IF ~sum.verified THEN {} ELSE IF sum.passed THEN {calc, valid} ELSE {calc}

\* ip6_flow in network byte order: version and class, class and label, label.
\* The version is compared by itself and left out; the label has 20 bits.
FlowWord(a) ==
  LET label == a.flow % Label IN
    <<a.class \div Nibble,
      (a.class % Nibble) * Nibble + label \div (Byte * Byte),
      (label \div Byte) % Byte,
      label % Byte>>

\* The packet that Generate() returns.
Filled(t, a) ==
  LET g == GeneratedFrom(t) IN
    [len   |-> g.len,   \* m_pkthdr.len
     other |-> {},      \* headers with a field that is not the template's
     vtag  |-> IF a.vlan = 0 THEN {} ELSE {a.vlan},  \* empty without M_VLANTAG
     ipLen |-> g.ipLen, id |-> g.id, seq |-> g.seq,
     word  |-> FlowWord(a),
     csum  |-> SumFlags(a.l4, "l4calc", "l4valid") \cup
                 (IF Ipv6 THEN {} ELSE SumFlags(a.l3, "l3calc", "l3valid")),
     chain |-> << [i \in 1..g.copied |-> g.first + i - 1] >>] \* payload by mbuf
-----------------------------------------------------------------------------
(* The matchers.                                                           *)

EthernetMatches(a, p) ==
  /\ "eth" \notin p.other
  /\ a.vlan = 0 => p.vtag = {}
  /\ a.vlan # 0 => p.vtag = {a.vlan}

\* Mutant: a checksum that was not verified is not looked at.
SumsIfVerified(sum, p, calc, valid) ==
  sum.verified => calc \in p.csum /\ (valid \in p.csum <=> sum.passed)

SumsMatch(sum, p, calc, valid) ==
  (calc \in p.csum <=> sum.verified) /\ (valid \in p.csum <=> sum.passed)

Ipv4Matches(t, a, p) ==
  /\ "ip" \notin p.other /\ p.ipLen = t.ip.lenField /\ p.id = t.ip.id
  /\ SumsMatch(a.l3, p, "l3calc", "l3valid")

\* Mutant: the class is compared, the flow label is not.
ClassOnly(t, a, p) ==
  /\ "ip" \notin p.other /\ p.ipLen = t.ip.lenField
  /\ p.word[1] = a.class

\* ip6_vfc & 0xf is the upper half of the class. ip6_flow & IPV6_FLOWINFO_MASK
\* is the word as a little-endian machine reads it, without the version.
Ipv6Matches(t, a, p) ==
  /\ "ip" \notin p.other /\ p.ipLen = t.ip.lenField
  /\ p.word[1] = a.class
  /\ p.word[1] + (p.word[2] + (p.word[3] + p.word[4] * Byte) * Byte) * Byte = a.flow

\* Mutant: ip6_plen is compared with the length of header and payload.
PlenWithHeader(t, a, p) == Ipv6Matches(t, a, [p EXCEPT !.ipLen = @ - IpHdr])

IpMatches(t, a, p) == IF Ipv6 THEN Ipv6Matches(t, a, p) ELSE Ipv4Matches(t, a, p)

TcpMatches(t, a, p) ==
  /\ "tcp" \notin p.other /\ p.seq = t.tcp.seq
  /\ SumsMatch(a.l4, p, "l4calc", "l4valid")

\* Mutant: what the payload offers, not what the outer MTU lets through.
OfferedLen(pay) == PayGetLen(pay)

\* PayloadTemplate::GetFillLen
GetFillLen(pay) == Least(PayGetLen(pay), pay.outerMtu)

\* Mutant: payloadIndex is not handed back to the caller.
IndexKept(pay, from, bytes) ==
  LET n == IF from < GetFillLen(pay) THEN Least(Len(bytes), GetFillLen(pay) - from) ELSE 0
  IN  [index |-> from, ok |-> \A i \in 1..n : bytes[i] = from + i - 1]

\* Compares the bytes of one mbuf with the payload from index `from` on, as long
\* as the index is below the length to fill.
TestPattern(pay, from, bytes) ==
  LET n == IF from < GetFillLen(pay) THEN Least(Len(bytes), GetFillLen(pay) - from) ELSE 0
  IN  [index |-> from + n, ok |-> \A i \in 1..n : bytes[i] = from + i - 1]

\* One mbuf after the other, up to the first difference or the end of the vector.
TestChain(pay, chain) ==
  LET tested[k \in 0..Len(chain)] ==
        IF k = 0 THEN [index |-> pay.payloadIndex, ok |-> TRUE]
        ELSE LET before == tested[k - 1]
             IN  IF before.ok /\ before.index < pay.size
                 THEN TestPattern(pay, before.index, chain[k])
                 ELSE before
  IN  tested[Len(chain)]

PayloadMatches(pay, p) ==
  /\ Wrap(p.len - (EthHdr + IpHdr + TcpHdr)) >= GetFillLen(pay)
  /\ TestChain(pay, p.chain).ok

Matches(t, a, p) ==
  EthernetMatches(a, p) /\ IpMatches(t, a, p) /\ TcpMatches(t, a, p) /\ PayloadMatches(t.pay, p)
-----------------------------------------------------------------------------
(* The test changes its template.                                          *)

MatchInit ==
  /\ Init
  /\ attr = [vlan |-> 0, class |-> 0, flow |-> 0,
             l3 |-> [verified |-> FALSE, passed |-> FALSE],
             l4 |-> [verified |-> FALSE, passed |-> FALSE]]

WithVlan(v) == attr' = [attr EXCEPT !.vlan = v] /\ UNCHANGED tmpl

\* checksumVerified(b), checksumPassed(b); the IPv6 header has neither.
WithL3Sum(b) ==
  /\ ~Ipv6
  /\ \/ attr' = [attr EXCEPT !.l3.verified = b]
     \/ attr' = [attr EXCEPT !.l3.passed = b]
  /\ UNCHANGED tmpl

WithL4Sum(b) ==
  /\ \/ attr' = [attr EXCEPT !.l4.verified = b]
     \/ attr' = [attr EXCEPT !.l4.passed = b]
  /\ UNCHANGED tmpl

WithClass(c) == Ipv6 /\ attr' = [attr EXCEPT !.class = c] /\ UNCHANGED tmpl

WithFlow(f) == Ipv6 /\ attr' = [attr EXCEPT !.flow = f] /\ UNCHANGED tmpl

WithAttr ==
  \/ \E v \in Tags : WithVlan(v)
  \/ \E b \in BOOLEAN : WithL3Sum(b) \/ WithL4Sum(b)
  \/ \E c \in Classes : WithClass(c)
  \/ \E f \in Flows : WithFlow(f)

MatchNext == (Next /\ UNCHANGED attr) \/ WithAttr

MatchSpec == MatchInit /\ [][MatchNext]_<<tmpl, attr>>
-----------------------------------------------------------------------------
(* What the code under test may have done to a packet on its way.          *)

\* The payload is cut after n bytes, or goes on in a second mbuf from there.
Split(bytes, n) == <<SubSeq(bytes, 1, n), SubSeq(bytes, n + 1, Len(bytes))>>

Resized(p, bytes) ==
  LET by == Len(bytes) - Len(p.chain[1])
  IN  [p EXCEPT !.chain = <<bytes>>, !.len = @ + by, !.ipLen = @ + by]

Tampered(p) ==
  LET bytes == p.chain[1] IN
     {[p EXCEPT !.other = {h}] : h \in {"eth", "ip", "tcp"}}
  \cup {[p EXCEPT !.vtag = v] : v \in {{}} \cup {{x} : x \in Tags \cup {0}}}
  \cup {[p EXCEPT !.id = (@ + 1) % IdMod], [p EXCEPT !.seq = (@ + 1) % SeqMod]}
  \cup {[p EXCEPT !.word[i] = IF @ = 0 THEN 1 ELSE 0] : i \in IF Ipv6 THEN 1..4 ELSE {}}
  \cup {[p EXCEPT !.csum = c] : c \in SUBSET {"l3calc", "l3valid", "l4calc", "l4valid"}}
  \cup {[p EXCEPT !.chain = <<[bytes EXCEPT ![i] = Foreign]>>] : i \in 1..Len(bytes)}
  \cup {Resized(p, SubSeq(bytes, 1, n)) : n \in 0..Len(bytes)}
  \cup {Resized(p, Append(bytes, Foreign))}

Arrived == {Filled(tmpl, attr)} \cup Tampered(Filled(tmpl, attr))
-----------------------------------------------------------------------------
(* Correctness.                                                            *)

\* The lengths of the packet are exact (see LengthsExact).
Sound(t) == FitsIp(t) \/ (MtusHoldHeaders(t) /\ t.ip.localMtu <= IpMaxPacket)

\* A checksum passed only if it was verified.
Coherent(sum) == sum.passed => sum.verified

\* A template matches the packet it generates, segmented or not, advanced or
\* not; but not if it claims that a checksum passed which nobody verified, in
\* whatever order the test said so. (Two IPv6 fields are excluded: the matcher reads
\* them from the wrong place.)
OwnPacketMatches ==
  Sound(tmpl) /\ attr.class = 0 /\ attr.flow = 0 =>
    (Matches(tmpl, attr, Filled(tmpl, attr)) <=> Coherent(attr.l3) /\ Coherent(attr.l4))

\* The packet has the bytes of the segment the template is at.
CarriesSegment(p) ==
  LET own == Filled(tmpl, attr).chain[1]
  IN  Len(p.chain[1]) >= Len(own) /\ SubSeq(p.chain[1], 1, Len(own)) = own

\* A template that was not advanced matches nothing but what it generates: every
\* field, flag and byte that is not its own is refused. (Traffic class and flow label
\* only by a template that has neither, see UnmodifiedAccepted.)
OnlyOwnMatches ==
  Sound(tmpl) /\ Coherent(attr.l3) /\ Coherent(attr.l4) /\ tmpl.pay.payloadIndex = 0 =>
    \A p \in Tampered(Filled(tmpl, attr)) : Matches(tmpl, attr, p) =>
      /\ CarriesSegment(p)
      /\ LET own == Filled(tmpl, attr) IN
           /\ p.other = {} /\ p.ipLen = own.ipLen /\ p.seq = own.seq /\ p.vtag = own.vtag
           /\ ~Ipv6 => p.id = own.id
           /\ Ipv6 /\ attr.class = 0 /\ attr.flow = 0 => p.word = own.word
           /\ \A f \in p.csum \ own.csum : Ipv6 /\ f \in {"l3calc", "l3valid"}

\* The code under test may link the payload to the packet mbuf by mbuf, as LRO
\* does: the verdict depends on the bytes and not on where the chain is split.
SplitsAlike ==
  Sound(tmpl) => \A p \in Arrived : \A n \in 0..Len(p.chain[1]) :
    Matches(tmpl, attr, p) = Matches(tmpl, attr, [p EXCEPT !.chain = Split(p.chain[1], n)])

\* The comment at tcp_lro_sample.gtest.cpp:110 promises that the test "will fail
\* if if_input() is [...] called but with a packet that does not match the
\* template": other payload bytes are refused, of an advanced template as well.
OtherBytesRefused ==
  Sound(tmpl) =>
    \A p \in Tampered(Filled(tmpl, attr)) : Matches(tmpl, attr, p) => CarriesSegment(p)

\* The comment at tcp_lro_sample.gtest.cpp:133 takes the matcher for a check "that
\* the packet made it through tcp_lro without being modified": a packet that was
\* not modified is accepted, whatever traffic class and flow label it has.
UnmodifiedAccepted ==
  Sound(tmpl) /\ Coherent(attr.l4) => Matches(tmpl, attr, Filled(tmpl, attr))
=============================================================================
