--------------------------- MODULE PktMatch_proofs ----------------------------
(***************************************************************************)
(* The matcher of a packet template, for every header size, MTU, integer   *)
(* width and attribute: a template matches the packet it generates         *)
(* (MatchesOwn), a template that was not advanced matches no other         *)
(* (MatchesOnlyOwn), and a packet matches however its payload is spread    *)
(* over two mbufs (MatchesSplits).                                         *)
(*                                                                         *)
(* The attributes are no part of the templates' state, so the invariant of *)
(* PktStream_proofs carries over (Templates); the type of attr is added.   *)
(* The payload is compared by a recursive function over the mbufs, which   *)
(* is unfolded here for the one and two mbufs that packets have (Tested).  *)
(***************************************************************************)
EXTENDS PktMatch, PktStream_proofs

Untested(pay) == [index |-> pay.payloadIndex, ok |-> TRUE]

\* What is known after mbuf b, given what was known before it.
After(pay, before, b) ==
  IF before.ok /\ before.index < pay.size THEN TestPattern(pay, before.index, b) ELSE before

\* The recursive function of TestChain, for the chains of one and of two mbufs.
LEMMA Tested ==
  ASSUME NEW pay, NEW chain, Len(chain) \in {1, 2}
  PROVE  /\ Len(chain) = 1 =>
              TestChain(pay, chain) = After(pay, Untested(pay), chain[1])
         /\ Len(chain) = 2 =>
              TestChain(pay, chain) = After(pay, After(pay, Untested(pay), chain[1]), chain[2])
<1>0. \A k \in 0..Len(chain) : k = 0 \/ k = 1 \/ (k = 2 /\ 1 \in 0..Len(chain))
  <2>1. \A n \in {1, 2} : \A k \in 0..n : k = 0 \/ k = 1 \/ (k = 2 /\ 1 \in 0..n)
    OBVIOUS
  <2> QED  BY <2>1
<1> DEFINE F(f) == [k \in 0..Len(chain) |->
                      IF k = 0 THEN [index |-> pay.payloadIndex, ok |-> TRUE]
                      ELSE IF f[k - 1].ok /\ f[k - 1].index < pay.size
                           THEN TestPattern(pay, f[k - 1].index, chain[k])
                           ELSE f[k - 1]]
           tested == CHOOSE f : f = F(f)
           one == After(pay, Untested(pay), chain[1])
           g == [k \in 0..Len(chain) |->
                   IF k = 0 THEN Untested(pay)
                   ELSE IF k = 1 THEN one ELSE After(pay, one, chain[2])]
<1>1. g = F(g)
  <2>1. ASSUME NEW k \in 0..Len(chain)
        PROVE  g[k] = IF k = 0 THEN Untested(pay) ELSE After(pay, g[k - 1], chain[k])
    <3>1. k = 0 \/ k = 1 \/ (k = 2 /\ 1 \in 0..Len(chain))  BY <1>0
    <3>2. CASE k = 0  BY <3>2
    <3>3. CASE k = 1  BY <3>3
    <3>4. CASE k = 2 /\ 1 \in 0..Len(chain)  BY <3>4
    <3> QED  BY <3>1, <3>2, <3>3, <3>4
  <2> HIDE DEF g
  <2>2. g = [k \in 0..Len(chain) |->
               IF k = 0 THEN Untested(pay) ELSE After(pay, g[k - 1], chain[k])]
    <3>1. g = [k \in 0..Len(chain) |-> g[k]]  BY DEF g
    <3> QED  BY <2>1, <3>1, Zenon
  <2> QED  BY <2>2 DEF Untested, After
<1>2. tested = F(tested)
  BY <1>1
<1>3. TestChain(pay, chain) = tested[Len(chain)]
  BY DEF TestChain
<1> HIDE DEF tested
<1>4. tested[0] = Untested(pay)
  BY <1>2 DEF Untested
<1>5. ASSUME NEW k \in 1..Len(chain)
      PROVE  tested[k] = After(pay, tested[k - 1], chain[k])
  <2>1. k \in 0..Len(chain) /\ k # 0
    OBVIOUS
  <2>2. tested[k] = F(tested)[k]
    BY <1>2
  <2>3. F(tested)[k] = IF tested[k - 1].ok /\ tested[k - 1].index < pay.size
                       THEN TestPattern(pay, tested[k - 1].index, chain[k]) ELSE tested[k - 1]
    BY <2>1, Zenon
  <2> QED  BY <2>2, <2>3 DEF After
<1>6. tested[1] = one
  <2>1. 1 \in 1..Len(chain) /\ 1 - 1 = 0  OBVIOUS
  <2> QED  BY <1>4, <1>5, <2>1
<1>7. Len(chain) = 2 => tested[2] = After(pay, one, chain[2])
  <2>1. Len(chain) = 2 => 2 \in 1..Len(chain) /\ 2 - 1 = 1  OBVIOUS
  <2> QED  BY <1>5, <1>6, <2>1
<1> QED  BY <1>3, <1>6, <1>7
-----------------------------------------------------------------------------
(* The invariant.                                                          *)

Sum == [verified : BOOLEAN, passed : BOOLEAN]

\* An IPv6 header has no checksum, and nothing can be said of it.
AttrOK ==
  /\ attr \in [vlan : Nat, class : Nat, flow : Nat, l3 : Sum, l4 : Sum]
  /\ Ipv6 => Coherent(attr.l3)

\* Products of positive numbers.
LEMMA ByteType == Byte \in Nat \ {0} /\ Label \in Nat \ {0} /\ Byte * Byte \in Nat \ {0}
<1>1. \A m, n \in Nat \ {0} : m * n \in Nat \ {0}  OBVIOUS
<1>2. Nibble \in Nat \ {0}  BY MatchAssumption
<1> QED  BY <1>1, <1>2 DEF Byte, Label

\* Every setter of an attribute keeps its type.
LEMMA AttrStep == ASSUME AttrOK, WithAttr \/ UNCHANGED attr PROVE AttrOK'
<1>1. Tags \subseteq Nat /\ Classes \subseteq Nat /\ Flows \subseteq Nat
  BY MatchAssumption
<1>2. CASE UNCHANGED attr  BY <1>2 DEF AttrOK, Coherent
<1>3. ASSUME NEW v \in Tags, WithVlan(v) PROVE AttrOK'
  BY <1>1, <1>3 DEF AttrOK, WithVlan, Coherent
<1>4. ASSUME NEW b \in BOOLEAN, WithL3Sum(b) PROVE AttrOK'
  BY <1>4 DEF AttrOK, WithL3Sum, Sum
<1>5. ASSUME NEW b \in BOOLEAN, WithL4Sum(b) PROVE AttrOK'
  BY <1>5 DEF AttrOK, WithL4Sum, Sum, Coherent
<1>6. ASSUME NEW c \in Classes, WithClass(c) PROVE AttrOK'
  BY <1>1, <1>6 DEF AttrOK, WithClass, Coherent
<1>7. ASSUME NEW f \in Flows, WithFlow(f) PROVE AttrOK'
  BY <1>1, <1>7 DEF AttrOK, WithFlow, Coherent
<1> QED  BY <1>2, <1>3, <1>4, <1>5, <1>6, <1>7 DEF WithAttr

\* The attributes are no concern of the template's.
LEMMA Templates == MatchSpec => Spec
<1>1. MatchInit => Init  BY DEF MatchInit
<1>2. [MatchNext]_<<tmpl, attr>> => [Next]_tmpl
  BY DEF MatchNext, WithAttr, WithVlan, WithL3Sum, WithL4Sum, WithClass, WithFlow
<1> QED  BY <1>1, <1>2, PTL DEF MatchSpec, Spec

\* The invariant of the templates and the type of the attributes.
LEMMA MatchInvariance == MatchSpec => [](IInv /\ AttrOK)
<1>1. MatchInit => AttrOK
  BY DEF MatchInit, AttrOK, Sum, Coherent
<1>2. AttrOK /\ [MatchNext]_<<tmpl, attr>> => AttrOK'
  BY AttrStep DEF MatchNext
<1> QED  BY <1>1, <1>2, Templates, Invariance, PTL DEF MatchSpec
-----------------------------------------------------------------------------
(* The packet of a template.                                               *)

\* The matcher and FillPacket count the same bytes.
LEMMA SameFill ==
  ASSUME NEW p \in Pay
  PROVE  GetFillLen(p) = PayFillLen(p) /\ PayFillLen(p) \in 0..(p.size - p.payloadIndex)
<1>1. p.localMtu \in Nat /\ p.outerMtu \in Nat /\ p.size \in Nat /\ p.payloadIndex \in Nat
  BY SizeNat DEF Pay
<1>2. GetFillLen(p) = PayFillLen(p)
  BY <1>1 DEF GetFillLen, PayFillLen, PayGetLen, GetMtu, Least
<1> QED  BY <1>1, <1>2, PayLens

\* The payload that FillPacket writes: one mbuf, counted up from payloadIndex.
LEMMA OwnBytes ==
  ASSUME IInv
  PROVE  LET b == Filled(tmpl, attr).chain[1]
             n == PayFillLen(tmpl.pay)
         IN  /\ Filled(tmpl, attr).chain = <<b>>
             /\ n \in Nat /\ b \in Seq(Int) /\ Len(b) = n
             /\ \A i \in 1..n : b[i] = tmpl.pay.payloadIndex + i - 1
<1>1. tmpl.pay \in Pay
  BY DEF IInv, Ready, Template
<1>2. PayFillLen(tmpl.pay) \in Nat /\ tmpl.pay.payloadIndex \in Nat
  BY <1>1, SameFill DEF Pay
<1> DEFINE bytes == [i \in 1..PayFillLen(tmpl.pay) |-> tmpl.pay.payloadIndex + i - 1]
<1>3. Filled(tmpl, attr).chain = <<bytes>>
  BY DEF Filled, GeneratedFrom
<1>4. bytes \in Seq(Int) /\ Len(bytes) = PayFillLen(tmpl.pay)
  BY <1>2
<1> QED  BY <1>2, <1>3, <1>4
-----------------------------------------------------------------------------
(* The round trip.                                                         *)

\* The two flags of a checksum are what FillPacket makes of it.
LEMMA OwnSums ==
  ASSUME AttrOK, Coherent(attr.l3), Coherent(attr.l4)
  PROVE  LET p == Filled(tmpl, attr)
         IN  /\ SumsMatch(attr.l4, p, "l4calc", "l4valid")
             /\ ~Ipv6 => SumsMatch(attr.l3, p, "l3calc", "l3valid")
<1>1. attr.l3 \in Sum /\ attr.l4 \in Sum  BY DEF AttrOK
<1>2. Filled(tmpl, attr).csum = SumFlags(attr.l4, "l4calc", "l4valid") \cup
        (IF Ipv6 THEN {} ELSE SumFlags(attr.l3, "l3calc", "l3valid"))
  BY DEF Filled
<1> QED  BY <1>1, <1>2 DEF SumsMatch, SumFlags, Coherent, Sum

\* An IPv6 header with neither class nor label has the word 0 behind the version.
LEMMA ZeroWord ==
  ASSUME NEW a, a.class = 0, a.flow = 0
  PROVE  FlowWord(a) = <<0, 0, 0, 0>>
<1>1. \A n \in Nat \ {0} : 0 % n = 0 /\ 0 \div n = 0  OBVIOUS
<1>2. Nibble \in Nat \ {0}  BY MatchAssumption
<1>3. /\ 0 % Nibble = 0 /\ 0 \div Nibble = 0 /\ 0 % Byte = 0 /\ 0 \div Byte = 0
      /\ 0 % Label = 0 /\ 0 \div (Byte * Byte) = 0 /\ 0 * Nibble + 0 = 0
  BY <1>1, <1>2, ByteType
<1> QED  BY <1>3 DEF FlowWord

\* The matcher finds the bytes FillPacket wrote, and a length that holds them.
LEMMA OwnPayload ==
  ASSUME IInv, FitsIp(tmpl)
  PROVE  PayloadMatches(tmpl.pay, Filled(tmpl, attr))
<1> DEFINE p == Filled(tmpl, attr)
           n == PayFillLen(tmpl.pay)
           b == p.chain[1]
<1>1. tmpl.pay \in Pay /\ tmpl.pay.payloadIndex \in Nat /\ tmpl.pay.size \in Nat
  BY DEF IInv, Ready, Template, Pay
<1>2. GetFillLen(tmpl.pay) = n /\ n \in Nat
  BY <1>1, SameFill
<1>3. p.chain = <<b>> /\ Len(b) = n /\ \A i \in 1..n : b[i] = tmpl.pay.payloadIndex + i - 1
  BY OwnBytes
<1>4. p.len = EthHdr + IpHdr + TcpHdr + n /\ p.len \in Size
  <2>1. p.len = GeneratedFrom(tmpl).len /\ GeneratedFrom(tmpl).copied = n
    BY DEF Filled, GeneratedFrom
  <2>2. p.len \in Size
    <3>1. tmpl.eth.payloadLength \in Size  BY DEF IInv, Ready, Template, Eth
    <3> QED  BY <2>1, <3>1, ConstAssumption, WrapType DEF GeneratedFrom
  <2> QED  BY <2>1, <2>2, FitExact DEF IInv
<1>5. Wrap(p.len - (EthHdr + IpHdr + TcpHdr)) = n
  <2>1. EthHdr + IpHdr + TcpHdr \in Nat  BY ConstAssumption
  <2> QED  BY <1>2, <1>4, <2>1, WrapSub
<1>6. TestChain(tmpl.pay, p.chain).ok
  <2> HIDE DEF p, b, n
  <2>1. TestChain(tmpl.pay, p.chain) = After(tmpl.pay, Untested(tmpl.pay), b)
    BY <1>3, Tested
  <2>2. TestPattern(tmpl.pay, tmpl.pay.payloadIndex, b).ok
    BY <1>1, <1>2, <1>3 DEF TestPattern, Least
  <2> QED  BY <2>1, <2>2 DEF After, Untested
<1> QED  BY <1>2, <1>5, <1>6 DEF PayloadMatches

\* What the matchers of the headers say of any packet.
LEMMA HeadersAgree ==
  ASSUME NEW p, Matches(tmpl, attr, p)
  PROVE  LET own == Filled(tmpl, attr)
         IN  /\ "eth" \notin p.other /\ "ip" \notin p.other /\ "tcp" \notin p.other
             /\ p.vtag = own.vtag /\ p.ipLen = own.ipLen /\ p.seq = own.seq
             /\ ~Ipv6 => p.id = own.id
             /\ SumsMatch(attr.l4, p, "l4calc", "l4valid")
             /\ ~Ipv6 => SumsMatch(attr.l3, p, "l3calc", "l3valid")
<1> DEFINE own == Filled(tmpl, attr)
<1>1. /\ own.vtag = (IF attr.vlan = 0 THEN {} ELSE {attr.vlan})
      /\ own.ipLen = tmpl.ip.lenField /\ own.id = tmpl.ip.id /\ own.seq = tmpl.tcp.seq
  BY DEF Filled, GeneratedFrom
<1> HIDE DEF own
<1>2. EthernetMatches(attr, p) /\ IpMatches(tmpl, attr, p) /\ TcpMatches(tmpl, attr, p)
  BY Zenon DEF Matches
<1>3. "eth" \notin p.other /\ p.vtag = own.vtag
  BY <1>1, <1>2 DEF EthernetMatches
<1>4. "tcp" \notin p.other /\ p.seq = own.seq /\ SumsMatch(attr.l4, p, "l4calc", "l4valid")
  BY <1>1, <1>2, Zenon DEF TcpMatches
<1>5. ASSUME Ipv6 PROVE "ip" \notin p.other /\ p.ipLen = own.ipLen
  BY <1>1, <1>2, <1>5, Zenon DEF IpMatches, Ipv6Matches
<1>6. ASSUME ~Ipv6
      PROVE  /\ "ip" \notin p.other /\ p.ipLen = own.ipLen /\ p.id = own.id
             /\ SumsMatch(attr.l3, p, "l3calc", "l3valid")
  BY <1>1, <1>2, <1>6, Zenon DEF IpMatches, Ipv4Matches
<1> QED  BY <1>3, <1>4, <1>5, <1>6, Zenon DEF own

\* The flags of a packet cannot say that a checksum passed which was not verified.
LEMMA IncoherentSums ==
  ASSUME AttrOK,
         SumsMatch(attr.l4, Filled(tmpl, attr), "l4calc", "l4valid"),
         ~Ipv6 => SumsMatch(attr.l3, Filled(tmpl, attr), "l3calc", "l3valid")
  PROVE  Coherent(attr.l4) /\ (~Ipv6 => Coherent(attr.l3))
<1>1. attr.l3 \in Sum /\ attr.l4 \in Sum  BY DEF AttrOK
<1>2. Filled(tmpl, attr).csum = SumFlags(attr.l4, "l4calc", "l4valid") \cup
        (IF Ipv6 THEN {} ELSE SumFlags(attr.l3, "l3calc", "l3valid"))
  BY DEF Filled
<1> QED  BY <1>1, <1>2 DEF SumsMatch, SumFlags, Coherent, Sum

\* A template matches the packet it generates, at any segment, exactly if what it says of
\* the checksums makes sense.
THEOREM MatchesOwn == MatchSpec => []OwnPacketMatches
<1>1. ASSUME IInv, AttrOK, Sound(tmpl), Coherent(attr.l3), Coherent(attr.l4),
             attr.class = 0, attr.flow = 0
      PROVE  Matches(tmpl, attr, Filled(tmpl, attr))
  <2> DEFINE p == Filled(tmpl, attr)
  <2>1. EthernetMatches(attr, p)
    BY DEF EthernetMatches, Filled
  <2>2. TcpMatches(tmpl, attr, p)
    BY <1>1, OwnSums DEF TcpMatches, Filled, GeneratedFrom
  <2>3. ASSUME ~Ipv6 PROVE IpMatches(tmpl, attr, p)
    <3>1. Ipv4Matches(tmpl, attr, p)
      BY <1>1, <2>3, OwnSums DEF Ipv4Matches, Filled, GeneratedFrom
    <3> QED  BY <2>3, <3>1, Zenon DEF IpMatches
  <2>4. ASSUME Ipv6 PROVE IpMatches(tmpl, attr, p)
    <3>1. p.word = <<0, 0, 0, 0>>  BY <1>1, ZeroWord DEF Filled
    <3>2. p.word[1] = 0 /\ p.word[1] + (p.word[2] + (p.word[3] + p.word[4] * Byte) * Byte) * Byte = 0
      BY <3>1, ByteType
    <3>3. "ip" \notin p.other /\ p.ipLen = tmpl.ip.lenField  BY DEF Filled, GeneratedFrom
    <3> HIDE DEF p
    <3>4. Ipv6Matches(tmpl, attr, p)  BY <1>1, <3>2, <3>3 DEF Ipv6Matches
    <3> QED  BY <2>4, <3>4, Zenon DEF IpMatches
  <2>5. FitsIp(tmpl)  BY <1>1, MtuFits DEF Sound
  <2>6. PayloadMatches(tmpl.pay, p)  BY <1>1, <2>5, OwnPayload
  <2>7. IpMatches(tmpl, attr, p)  BY <2>3, <2>4, Zenon
  <2> QED  BY <2>1, <2>2, <2>6, <2>7 DEF Matches
<1>2. ASSUME IInv, AttrOK, Matches(tmpl, attr, Filled(tmpl, attr))
      PROVE  Coherent(attr.l4) /\ (~Ipv6 => Coherent(attr.l3))
  BY <1>2, HeadersAgree, IncoherentSums
<1>3. IInv /\ AttrOK => OwnPacketMatches
  BY <1>1, <1>2 DEF OwnPacketMatches, AttrOK
<1> QED  BY <1>3, MatchInvariance, PTL
-----------------------------------------------------------------------------
(* No other packet matches.                                                *)

Flags == {"l3calc", "l3valid", "l4calc", "l4valid"}

\* The fields of a packet, and the flags it may have.
Packet(p) ==
  /\ p = [len |-> p.len, other |-> p.other, vtag |-> p.vtag, ipLen |-> p.ipLen, id |-> p.id,
          seq |-> p.seq, word |-> p.word, csum |-> p.csum, chain |-> p.chain]
  /\ p.csum \subseteq Flags

\* One change at a time.
LEMMA Tampers ==
  ASSUME NEW o, NEW p \in Tampered(o), NEW b, b = o.chain[1]
  PROVE  \/ \E h \in {"eth", "ip", "tcp"} : p = [o EXCEPT !.other = {h}]
         \/ \E v : p = [o EXCEPT !.vtag = v]
         \/ p = [o EXCEPT !.id = (@ + 1) % IdMod] \/ p = [o EXCEPT !.seq = (@ + 1) % SeqMod]
         \/ \E i \in 1..4 : p = [o EXCEPT !.word[i] = IF @ = 0 THEN 1 ELSE 0]
         \/ \E c \in SUBSET Flags : p = [o EXCEPT !.csum = c]
         \/ \E i \in 1..Len(b) : p = [o EXCEPT !.chain = <<[b EXCEPT ![i] = Foreign]>>]
         \/ \E n \in 0..Len(b) : p = Resized(o, SubSeq(b, 1, n))
         \/ p = Resized(o, Append(b, Foreign))
<1> DEFINE other == {[o EXCEPT !.other = {h}] : h \in {"eth", "ip", "tcp"}}
           vtag  == {[o EXCEPT !.vtag = v] : v \in {{}} \cup {{x} : x \in Tags \cup {0}}}
           word  == {[o EXCEPT !.word[i] = IF @ = 0 THEN 1 ELSE 0] : i \in IF Ipv6 THEN 1..4 ELSE {}}
           csum  == {[o EXCEPT !.csum = c] : c \in SUBSET Flags}
           bytes == {[o EXCEPT !.chain = <<[b EXCEPT ![i] = Foreign]>>] : i \in 1..Len(b)}
           cut   == {Resized(o, SubSeq(b, 1, n)) : n \in 0..Len(b)}
           Other == \E h \in {"eth", "ip", "tcp"} : p = [o EXCEPT !.other = {h}]
           Vtag  == \E v : p = [o EXCEPT !.vtag = v]
           Word  == \E i \in 1..4 : p = [o EXCEPT !.word[i] = IF @ = 0 THEN 1 ELSE 0]
           Csum  == \E c \in SUBSET Flags : p = [o EXCEPT !.csum = c]
           Bytes == \E i \in 1..Len(b) : p = [o EXCEPT !.chain = <<[b EXCEPT ![i] = Foreign]>>]
           Cut   == \E n \in 0..Len(b) : p = Resized(o, SubSeq(b, 1, n))
           Nums  == p = [o EXCEPT !.id = (@ + 1) % IdMod] \/ p = [o EXCEPT !.seq = (@ + 1) % SeqMod]
           More  == p = Resized(o, Append(b, Foreign))
<1>1. \/ p \in other \/ p \in vtag \/ p \in word \/ p \in csum \/ p \in bytes \/ p \in cut
      \/ Nums \/ More
  BY Zenon DEF Tampered, Flags
<1>2. /\ p \in other => Other
      /\ p \in vtag => Vtag
      /\ p \in csum => Csum
      /\ p \in bytes => Bytes
      /\ p \in cut => Cut
  BY Zenon
<1>3. p \in word => Word
  BY Zenon
<1> HIDE DEF other, vtag, word, csum, bytes, cut
<1> HIDE DEF Other, Vtag, Word, Csum, Bytes, Cut, Nums, More
<1>4. Other \/ Vtag \/ Nums \/ Word \/ Csum \/ Bytes \/ Cut \/ More  BY <1>1, <1>2, <1>3
<1> QED  BY <1>4 DEF Other, Vtag, Nums, Word, Csum, Bytes, Cut, More

\* One byte of the flow word is another.
Changed(word, i) == [word EXCEPT ![i] = IF @ = 0 THEN 1 ELSE 0]

\* What the code under test did to flow word and payload.
LEMMA Payloads ==
  ASSUME NEW o, Packet(o), o.other = {}, NEW p \in Tampered(o)
  PROVE  /\ p.other \in {{}, {"eth"}, {"ip"}, {"tcp"}} /\ p.csum \subseteq Flags
         /\ p.word = o.word \/ \E i \in 1..4 : p.word = Changed(o.word, i)
         /\ \/ p.chain = o.chain
            \/ \E i \in 1..Len(o.chain[1]) : p.chain = <<[o.chain[1] EXCEPT ![i] = Foreign]>>
            \/ \E n \in 0..Len(o.chain[1]) : p = Resized(o, SubSeq(o.chain[1], 1, n))
            \/ p = Resized(o, Append(o.chain[1], Foreign))
<1> DEFINE b == o.chain[1]
           Goal == /\ p.other \in {{}, {"eth"}, {"ip"}, {"tcp"}} /\ p.csum \subseteq Flags
                   /\ p.word = o.word \/ \E i \in 1..4 : p.word = Changed(o.word, i)
                   /\ \/ p.chain = o.chain
                      \/ \E i \in 1..Len(b) : p.chain = <<[b EXCEPT ![i] = Foreign]>>
                      \/ \E n \in 0..Len(b) : p = Resized(o, SubSeq(b, 1, n))
                      \/ p = Resized(o, Append(b, Foreign))
<1>1. ASSUME NEW h \in {"eth", "ip", "tcp"}, p = [o EXCEPT !.other = {h}] PROVE Goal
  BY <1>1 DEF Packet
<1>2. ASSUME NEW v, p = [o EXCEPT !.vtag = v] PROVE Goal
  BY <1>2 DEF Packet
<1>3. ASSUME p = [o EXCEPT !.id = (@ + 1) % IdMod] \/ p = [o EXCEPT !.seq = (@ + 1) % SeqMod]
      PROVE  Goal
  BY <1>3 DEF Packet
<1>4. ASSUME NEW c \in SUBSET Flags, p = [o EXCEPT !.csum = c] PROVE Goal
  BY <1>4 DEF Packet
<1>5. ASSUME NEW i \in 1..Len(b), p = [o EXCEPT !.chain = <<[b EXCEPT ![i] = Foreign]>>]
      PROVE  Goal
  <2>1. /\ p.other = {} /\ p.csum \subseteq Flags /\ p.word = o.word
        /\ p.chain = <<[b EXCEPT ![i] = Foreign]>>
    BY <1>5 DEF Packet
  <2> QED  BY <2>1
<1>6. ASSUME NEW s, p = Resized(o, s)
      PROVE  p.other = {} /\ p.csum \subseteq Flags /\ p.word = o.word
  BY <1>6 DEF Packet, Resized
<1>7. ASSUME NEW n \in 0..Len(b), p = Resized(o, SubSeq(b, 1, n)) PROVE Goal
  <2> HIDE DEF b
  <2> QED  BY <1>6, <1>7
<1>8. ASSUME p = Resized(o, Append(b, Foreign)) PROVE Goal
  <2> HIDE DEF b
  <2> QED  BY <1>6, <1>8
<1>9. ASSUME NEW i \in 1..4, p = [o EXCEPT !.word[i] = IF @ = 0 THEN 1 ELSE 0]
       PROVE  Goal
  <2>1. /\ p.other = {} /\ p.csum \subseteq Flags /\ p.word = Changed(o.word, i)
        /\ p.chain = o.chain
    BY <1>9 DEF Packet, Changed
  <2> QED  BY <2>1
<1>10. \/ \E h \in {"eth", "ip", "tcp"} : p = [o EXCEPT !.other = {h}]
       \/ \E v : p = [o EXCEPT !.vtag = v]
       \/ p = [o EXCEPT !.id = (@ + 1) % IdMod] \/ p = [o EXCEPT !.seq = (@ + 1) % SeqMod]
       \/ \E i \in 1..4 : p = [o EXCEPT !.word[i] = IF @ = 0 THEN 1 ELSE 0]
       \/ \E c \in SUBSET Flags : p = [o EXCEPT !.csum = c]
       \/ \E i \in 1..Len(b) : p = [o EXCEPT !.chain = <<[b EXCEPT ![i] = Foreign]>>]
       \/ \E n \in 0..Len(b) : p = Resized(o, SubSeq(b, 1, n))
       \/ p = Resized(o, Append(b, Foreign))
  BY Tampers
<1> HIDE DEF Goal
<1>11. Goal
  BY <1>1, <1>2, <1>3, <1>4, <1>5, <1>7, <1>8, <1>9, <1>10
<1> QED  BY <1>11 DEF Goal

\* A generated packet has the fields of a packet, and no field of another template.
LEMMA OwnPacket == Packet(Filled(tmpl, attr)) /\ Filled(tmpl, attr).other = {}
<1>1. \A sum : SumFlags(sum, "l4calc", "l4valid") \subseteq Flags
                /\ SumFlags(sum, "l3calc", "l3valid") \subseteq Flags
  BY DEF SumFlags, Flags
<1>2. Filled(tmpl, attr).csum \subseteq Flags
  <2>1. Filled(tmpl, attr).csum = SumFlags(attr.l4, "l4calc", "l4valid") \cup
          (IF Ipv6 THEN {} ELSE SumFlags(attr.l3, "l3calc", "l3valid"))
    BY DEF Filled
  <2> QED  BY <1>1, <2>1
<1>3. LET p == Filled(tmpl, attr)
      IN  p = [len |-> p.len, other |-> p.other, vtag |-> p.vtag, ipLen |-> p.ipLen, id |-> p.id,
               seq |-> p.seq, word |-> p.word, csum |-> p.csum, chain |-> p.chain]
          /\ p.other = {}
  BY DEF Filled
<1> QED  BY <1>2, <1>3 DEF Packet

\* A byte that no payload has is compared, and found, in a template that was not advanced.
LEMMA ForeignFound ==
  ASSUME IInv, tmpl.pay.payloadIndex = 0, NEW i \in 1..Len(Filled(tmpl, attr).chain[1]),
         NEW p, p.chain = <<[Filled(tmpl, attr).chain[1] EXCEPT ![i] = Foreign]>>
  PROVE  ~PayloadMatches(tmpl.pay, p)
<1> DEFINE n == PayFillLen(tmpl.pay)
           b == Filled(tmpl, attr).chain[1]
           c == [b EXCEPT ![i] = Foreign]
<1>1. tmpl.pay \in Pay /\ tmpl.pay.size \in 0..MaxPayload
  BY DEF IInv, Ready, Template, Pay
<1>2. GetFillLen(tmpl.pay) = n /\ n \in 0..tmpl.pay.size
  BY <1>1, SameFill, ConstAssumption
<1>3. b \in Seq(Int) /\ Len(b) = n
  BY OwnBytes
<1>4. Len(c) = n /\ c[i] = Foreign /\ i \in 1..n
  <2>1. \A s \in Seq(Int), k \in Nat : Len(s) = k /\ i \in 1..k =>
          Len([s EXCEPT ![i] = Foreign]) = k /\ [s EXCEPT ![i] = Foreign][i] = Foreign
    OBVIOUS
  <2>2. n \in Nat /\ i \in 1..n  BY <1>1, <1>2, <1>3
  <2> HIDE DEF b, n
  <2> QED  BY <1>3, <2>1, <2>2
<1>5. p.chain = <<c>>  OBVIOUS
<1> HIDE DEF b, c, n
<1>6. TestChain(tmpl.pay, p.chain) = After(tmpl.pay, Untested(tmpl.pay), c)
  <2>1. Len(p.chain) = 1 /\ p.chain[1] = c  BY <1>5
  <2> QED  BY <2>1, Tested
<1>7. 0 < tmpl.pay.size
  BY <1>1, <1>2, <1>4, ConstAssumption
<1>8. Foreign # i - 1
  BY <1>1, <1>2, <1>4, ConstAssumption, MatchAssumption
<1>9. TestPattern(tmpl.pay, 0, c).ok = (\A j \in 1..n : c[j] = 0 + j - 1)
  BY <1>1, <1>2, <1>4, ConstAssumption DEF TestPattern, Least
<1>10. ~TestPattern(tmpl.pay, 0, c).ok
  <2>1. i \in Int /\ 0 + i - 1 = i - 1  BY <1>1, <1>2, <1>4, ConstAssumption
  <2>2. c[i] # 0 + i - 1  BY <1>4, <1>8, <2>1
  <2> QED  BY <1>4, <1>9, <2>2, Zenon
<1>11. After(tmpl.pay, Untested(tmpl.pay), c) = TestPattern(tmpl.pay, 0, c)
  BY <1>7 DEF After, Untested
<1> QED  BY <1>6, <1>10, <1>11, Zenon DEF PayloadMatches

\* Without class and label every byte of the flow word is compared with 0.
LEMMA WordFound ==
  ASSUME Ipv6, attr.class = 0, attr.flow = 0, NEW p \in Tampered(Filled(tmpl, attr)),
         Matches(tmpl, attr, p)
  PROVE  p.word = Filled(tmpl, attr).word
<1> DEFINE zero == <<0, 0, 0, 0>>
<1>1. Filled(tmpl, attr).word = zero  BY ZeroWord DEF Filled
<1>2. p.word = zero \/ \E i \in 1..4 : p.word = Changed(zero, i)
  <2> HIDE DEF zero
  <2> QED  BY <1>1, OwnPacket, Payloads
<1>3. /\ p.word[1] = 0
      /\ p.word[1] + (p.word[2] + (p.word[3] + p.word[4] * Byte) * Byte) * Byte = 0
  BY Zenon DEF Matches, IpMatches, Ipv6Matches
<1>4. /\ Changed(zero, 1) = <<1, 0, 0, 0>> /\ Changed(zero, 2) = <<0, 1, 0, 0>>
      /\ Changed(zero, 3) = <<0, 0, 1, 0>> /\ Changed(zero, 4) = <<0, 0, 0, 1>>
  BY DEF Changed
<1>5. /\ 0 + (1 + (0 + 0 * Byte) * Byte) * Byte # 0
      /\ 0 + (0 + (1 + 0 * Byte) * Byte) * Byte # 0
      /\ 0 + (0 + (0 + 1 * Byte) * Byte) * Byte # 0
  <2>1. \A m, n \in Nat \ {0} : m * n \in Nat \ {0}  OBVIOUS
  <2>2. Byte \in Nat \ {0} /\ Byte * Byte \in Nat \ {0} /\ Byte * Byte * Byte \in Nat \ {0}
    BY <2>1, ByteType
  <2>3. /\ 0 + (1 + (0 + 0 * Byte) * Byte) * Byte = Byte
        /\ 0 + (0 + (1 + 0 * Byte) * Byte) * Byte = Byte * Byte
        /\ 0 + (0 + (0 + 1 * Byte) * Byte) * Byte = Byte * Byte * Byte
    BY <2>2
  <2> QED  BY <2>2, <2>3
<1>6. ASSUME NEW i \in 1..4, p.word = Changed(zero, i) PROVE FALSE
  <2>1. CASE i = 1  BY <1>3, <1>4, <1>6, <2>1
  <2>2. CASE i = 2  BY <1>3, <1>4, <1>5, <1>6, <2>2
  <2>3. CASE i = 3  BY <1>3, <1>4, <1>5, <1>6, <2>3
  <2>4. CASE i = 4  BY <1>3, <1>4, <1>5, <1>6, <2>4
  <2> QED  BY <2>1, <2>2, <2>3, <2>4
<1> QED  BY <1>1, <1>2, <1>6

\* Lengths of the sequences that a payload is cut or extended to.
LEMMA Prefixes ==
  ASSUME NEW b \in Seq(Int)
  PROVE  /\ SubSeq(b, 1, Len(b)) = b
         /\ \A n \in 0..Len(b) : Len(SubSeq(b, 1, n)) = n
         /\ Len(Append(b, Foreign)) = Len(b) + 1
<1> QED  OBVIOUS

\* The payload of a packet that matches: any other is refused by the length field
\* or by its bytes.
LEMMA Carries ==
  ASSUME IInv, tmpl.pay.payloadIndex = 0, NEW p \in Tampered(Filled(tmpl, attr)),
         Matches(tmpl, attr, p)
  PROVE  CarriesSegment(p)
<1> DEFINE o == Filled(tmpl, attr)
           b == o.chain[1]
<1>1. b \in Seq(Int) /\ Len(b) \in Nat /\ o.chain = <<b>>  BY OwnBytes
<1>2. p.ipLen = o.ipLen  BY HeadersAgree
<1>3. o.ipLen \in Int
  <2>1. tmpl.ip \in Ip  BY DEF IInv, Ready, Template
  <2> QED  BY <2>1, ConstAssumption DEF Filled, GeneratedFrom, Ip
<1>4. \/ p.chain = o.chain
      \/ \E i \in 1..Len(b) : p.chain = <<[b EXCEPT ![i] = Foreign]>>
      \/ \E n \in 0..Len(b) : p = Resized(o, SubSeq(b, 1, n))
      \/ p = Resized(o, Append(b, Foreign))
  BY OwnPacket, Payloads
<1>5. ASSUME NEW s, p = Resized(o, s)
      PROVE  p.chain = <<s>> /\ p.ipLen = o.ipLen + (Len(s) - Len(b))
  <2> HIDE DEF o
  <2> QED  BY <1>5, OwnPacket DEF Packet, Resized, o
<1>6. PayloadMatches(tmpl.pay, p)  BY Zenon DEF Matches
<1>7. ~\E i \in 1..Len(b) : p.chain = <<[b EXCEPT ![i] = Foreign]>>
  BY <1>6, ForeignFound
<1> HIDE DEF o, b
<1>8. ASSUME NEW n \in 0..Len(b), p = Resized(o, SubSeq(b, 1, n)) PROVE p.chain = <<b>>
  <2>1. p.ipLen = o.ipLen + (Len(SubSeq(b, 1, n)) - Len(b))  BY <1>5, <1>8
  <2>2. Len(SubSeq(b, 1, n)) = n /\ n \in Nat  BY <1>1, Prefixes
  <2>3. n = Len(b)  BY <1>1, <1>2, <1>3, <2>1, <2>2
  <2> QED  BY <1>1, <1>5, <1>8, <2>3, Prefixes
<1>9. p # Resized(o, Append(b, Foreign))
  <2> SUFFICES ASSUME p = Resized(o, Append(b, Foreign)) PROVE FALSE  OBVIOUS
  <2>1. p.ipLen = o.ipLen + (Len(Append(b, Foreign)) - Len(b))  BY <1>5
  <2> QED  BY <1>1, <1>2, <1>3, <2>1, Prefixes
<1>10. p.chain = <<b>>  BY <1>1, <1>4, <1>7, <1>8, <1>9
<1>11. p.chain[1] = b  BY <1>10
<1> QED  BY <1>1, <1>11, Prefixes DEF CarriesSegment, b, o

\* A template that was not advanced matches no packet but its own: not with another
\* field or flag, and not with other, fewer or more bytes.
THEOREM MatchesOnlyOwn == MatchSpec => []OnlyOwnMatches
<1>1. ASSUME IInv, AttrOK, Coherent(attr.l3), Coherent(attr.l4), tmpl.pay.payloadIndex = 0,
             NEW p \in Tampered(Filled(tmpl, attr)), Matches(tmpl, attr, p)
      PROVE  /\ CarriesSegment(p)
             /\ LET own == Filled(tmpl, attr) IN
                  /\ p.other = {} /\ p.ipLen = own.ipLen /\ p.seq = own.seq /\ p.vtag = own.vtag
                  /\ ~Ipv6 => p.id = own.id
                  /\ Ipv6 /\ attr.class = 0 /\ attr.flow = 0 => p.word = own.word
                  /\ \A f \in p.csum \ own.csum : Ipv6 /\ f \in {"l3calc", "l3valid"}
  <2> DEFINE own == Filled(tmpl, attr)
  <2>1. p.other \in {{}, {"eth"}, {"ip"}, {"tcp"}} /\ p.csum \subseteq Flags
    BY OwnPacket, Payloads
  <2>2. /\ "eth" \notin p.other /\ "ip" \notin p.other /\ "tcp" \notin p.other
        /\ p.vtag = own.vtag /\ p.ipLen = own.ipLen /\ p.seq = own.seq
        /\ ~Ipv6 => p.id = own.id
        /\ SumsMatch(attr.l4, p, "l4calc", "l4valid")
        /\ ~Ipv6 => SumsMatch(attr.l3, p, "l3calc", "l3valid")
    BY <1>1, HeadersAgree
  <2>3. /\ SumsMatch(attr.l4, own, "l4calc", "l4valid")
        /\ ~Ipv6 => SumsMatch(attr.l3, own, "l3calc", "l3valid")
    BY <1>1, OwnSums
  <2> HIDE DEF own
  <2>4. p.other = {}  BY <2>1, <2>2
  <2>5. /\ "l4calc" \in p.csum => "l4calc" \in own.csum
        /\ "l4valid" \in p.csum => "l4valid" \in own.csum
    BY <2>2, <2>3, Zenon DEF SumsMatch
  <2>6. ~Ipv6 => /\ "l3calc" \in p.csum => "l3calc" \in own.csum
                 /\ "l3valid" \in p.csum => "l3valid" \in own.csum
    BY <2>2, <2>3, Zenon DEF SumsMatch
  <2>7. ASSUME NEW f \in p.csum \ own.csum PROVE Ipv6 /\ f \in {"l3calc", "l3valid"}
    <3>1. f \in {"l3calc", "l3valid"}  BY <2>1, <2>5 DEF Flags
    <3>2. Ipv6  BY <2>6, <3>1
    <3> QED  BY <3>1, <3>2
  <2>8. CarriesSegment(p)  BY <1>1, Carries
  <2>9. Ipv6 /\ attr.class = 0 /\ attr.flow = 0 => p.word = own.word
    BY <1>1, WordFound DEF own
  <2> QED  BY <2>2, <2>4, <2>7, <2>8, <2>9 DEF own
<1>2. IInv /\ AttrOK => OnlyOwnMatches
  BY <1>1 DEF OnlyOwnMatches
<1> QED  BY <1>2, MatchInvariance, PTL
-----------------------------------------------------------------------------
(* One mbuf or two.                                                        *)

\* The code under test leaves a packet with the same fields, and its bytes in one mbuf.
LEMMA OneMbuf ==
  ASSUME NEW o, Packet(o), NEW b \in Seq(Int), o.chain = <<b>>, NEW p \in Tampered(o)
  PROVE  /\ DOMAIN p = DOMAIN o
         /\ \E s \in Seq(Int) : p.chain = <<s>>
<1> DEFINE Goal == /\ DOMAIN p = DOMAIN o
                   /\ \E s \in Seq(Int) : p.chain = <<s>>
<1>1. DOMAIN o = {"len", "other", "vtag", "ipLen", "id", "seq", "word", "csum", "chain"}
      /\ o.chain[1] = b
  BY DEF Packet
<1>2. ASSUME NEW h, p = [o EXCEPT !.other = h] PROVE Goal  BY <1>1, <1>2
<1>3. ASSUME NEW v, p = [o EXCEPT !.vtag = v] PROVE Goal  BY <1>1, <1>3
<1>4. ASSUME p = [o EXCEPT !.id = (@ + 1) % IdMod] \/ p = [o EXCEPT !.seq = (@ + 1) % SeqMod]
      PROVE  Goal
  BY <1>1, <1>4
<1>5. ASSUME NEW c, p = [o EXCEPT !.csum = c] PROVE Goal  BY <1>1, <1>5
<1>6. ASSUME NEW i \in 1..4, p = [o EXCEPT !.word[i] = IF @ = 0 THEN 1 ELSE 0] PROVE Goal
  BY <1>1, <1>6
<1>7. ASSUME NEW s \in Seq(Int), p = [o EXCEPT !.chain = <<s>>] \/ p = Resized(o, s) PROVE Goal
  BY <1>1, <1>7 DEF Resized
<1>8. /\ \A i \in 1..Len(b) : [b EXCEPT ![i] = Foreign] \in Seq(Int)
      /\ \A n \in 0..Len(b) : SubSeq(b, 1, n) \in Seq(Int)
      /\ Append(b, Foreign) \in Seq(Int)
  <2>1. Foreign \in Int  BY MatchAssumption
  <2> QED  BY <2>1
<1>9. \/ \E h \in {"eth", "ip", "tcp"} : p = [o EXCEPT !.other = {h}]
      \/ \E v : p = [o EXCEPT !.vtag = v]
      \/ p = [o EXCEPT !.id = (@ + 1) % IdMod] \/ p = [o EXCEPT !.seq = (@ + 1) % SeqMod]
      \/ \E i \in 1..4 : p = [o EXCEPT !.word[i] = IF @ = 0 THEN 1 ELSE 0]
      \/ \E c \in SUBSET Flags : p = [o EXCEPT !.csum = c]
      \/ \E i \in 1..Len(b) : p = [o EXCEPT !.chain = <<[b EXCEPT ![i] = Foreign]>>]
      \/ \E n \in 0..Len(b) : p = Resized(o, SubSeq(b, 1, n))
      \/ p = Resized(o, Append(b, Foreign))
  BY <1>1, Tampers
<1> HIDE DEF Goal
<1>10. Goal  BY <1>2, <1>3, <1>4, <1>5, <1>6, <1>7, <1>8, <1>9
<1> QED  BY <1>10 DEF Goal

\* Two mbufs are tested for the bytes that one would be tested for.
LEMMA SplitTested ==
  ASSUME NEW pay \in Pay, NEW b \in Seq(Int), NEW n \in 0..Len(b)
  PROVE  TestChain(pay, Split(b, n)).ok = TestChain(pay, <<b>>).ok
<1> DEFINE from == pay.payloadIndex
           fill == GetFillLen(pay)
           one == SubSeq(b, 1, n)
           two == SubSeq(b, n + 1, Len(b))
           Upto(k, len) == IF k < fill THEN Least(len, fill - k) ELSE 0
           n1 == Upto(from, n)
           n2 == Upto(from + n1, Len(b) - n)
           all == Upto(from, Len(b))
           First == \A i \in 1..n1 : b[i] = from + i - 1
           Whole == \A i \in 1..all : b[i] = from + i - 1
<1>1. from \in Nat /\ pay.size \in Nat /\ fill \in Nat /\ fill <= pay.size
  <2>1. from \in Nat /\ pay.size \in Nat  BY DEF Pay
  <2> QED  BY <2>1, SameFill
<1>2. /\ Len(one) = n /\ Len(two) = Len(b) - n /\ n \in Nat /\ Len(b) \in Nat
      /\ \A i \in 1..n : one[i] = b[i]
      /\ \A i \in 1..(Len(b) - n) : two[i] = b[n + i]
  OBVIOUS
<1> HIDE DEF fill, from, one, two
<1>3. TestPattern(pay, from, b) = [index |-> from + all, ok |-> Whole]
  BY DEF TestPattern, fill
<1>4. TestPattern(pay, from, one).index = from + n1
      /\ TestPattern(pay, from, one).ok = (\A i \in 1..n1 : one[i] = from + i - 1)
  BY <1>2 DEF TestPattern, fill
<1>5. n1 \in 0..n /\ all \in 0..Len(b) /\ n1 <= all
  BY <1>1, <1>2 DEF Least
<1>6. TestPattern(pay, from, one).ok = First
  <2> HIDE DEF n1
  <2>1. \A i \in 1..n1 : one[i] = b[i]  BY <1>2, <1>5
  <2> QED  BY <1>4, <2>1, Zenon
<1>7. TestChain(pay, <<b>>) = After(pay, Untested(pay), b)
      /\ TestChain(pay, Split(b, n)) = After(pay, After(pay, Untested(pay), one), two)
  <2>1. Split(b, n) = <<one, two>>  BY DEF Split, one, two
  <2>2. Len(<<b>>) = 1 /\ Len(<<one, two>>) = 2  OBVIOUS
  <2> QED  BY <2>1, <2>2, Tested
<1>8. CASE ~(from < pay.size)
  BY <1>7, <1>8 DEF After, Untested, from
<1>9. CASE from < pay.size
  <2>1. TestChain(pay, <<b>>).ok = Whole
    <3>1. After(pay, Untested(pay), b) = TestPattern(pay, from, b)
      BY <1>9 DEF After, Untested, from
    <3> HIDE DEF Whole
    <3> QED  BY <1>3, <1>7, <3>1
  <2>2. After(pay, Untested(pay), one) = TestPattern(pay, from, one)
    BY <1>9 DEF After, Untested, from
  <2>3. ASSUME ~First PROVE TestChain(pay, Split(b, n)).ok = Whole
    <3>1. First = Whole  BY <2>3, <1>5
    <3>2. TestChain(pay, Split(b, n)) = TestPattern(pay, from, one)
      BY <1>6, <1>7, <2>2, <2>3, Zenon DEF After
    <3> QED  BY <1>6, <3>1, <3>2, Zenon
  <2>4. ASSUME First, ~(from + n1 < pay.size)
        PROVE  TestChain(pay, Split(b, n)).ok = Whole
    <3>1. all = n1  BY <1>1, <1>2, <1>9, <2>4 DEF Least
    <3>2. TestChain(pay, Split(b, n)) = TestPattern(pay, from, one)
      BY <1>4, <1>7, <2>2, <2>4 DEF After
    <3> QED  BY <1>6, <3>1, <3>2, Zenon
  <2>5. ASSUME First, from + n1 < pay.size
        PROVE  TestChain(pay, Split(b, n)).ok = Whole
    <3> DEFINE Second == \A i \in 1..n2 : two[i] = from + n1 + i - 1
    <3>1. TestPattern(pay, from + n1, two).ok = Second
      BY <1>2 DEF TestPattern, fill
    <3>2. TestPattern(pay, from, one).ok  BY <1>6, <2>5, Zenon
    <3>3. TestChain(pay, Split(b, n)) = TestPattern(pay, from + n1, two)
      BY <1>4, <1>7, <2>2, <2>5, <3>2 DEF After
    <3>4. all = n1 + n2 /\ n2 \in 0..(Len(b) - n) /\ (n2 > 0 => n1 = n)
      <4>1. CASE ~(from < fill)  BY <1>1, <1>2, <4>1
      <4>2. CASE from < fill /\ n <= fill - from
        <5>1. n1 = n  BY <4>2 DEF Least
        <5>2. CASE n = fill - from
          <6>1. from + n = fill  BY <1>1, <1>2, <5>2
          <6>2. n2 = 0  BY <5>1, <6>1, <1>1, <1>2
          <6>3. all = Least(Len(b), fill - from)  BY <4>2
          <6> HIDE DEF n1, n2, all
          <6>4. all = n  BY <1>2, <5>2, <6>3 DEF Least
          <6> QED  BY <1>2, <5>1, <6>2, <6>4
        <5>3. CASE n < fill - from
          <6>1. n2 = Least(Len(b) - n, fill - (from + n))
            BY <1>1, <1>2, <5>1, <5>3
          <6>2. all = Least(Len(b), fill - from)  BY <4>2
          <6> HIDE DEF n1, n2, all
          <6> QED  BY <1>1, <1>2, <4>2, <5>1, <5>3, <6>1, <6>2 DEF Least
        <5> QED  BY <1>1, <1>2, <4>2, <5>2, <5>3
      <4>3. CASE from < fill /\ n > fill - from
        <5>1. n1 = fill - from  BY <1>1, <1>2, <4>3 DEF Least
        <5>2. n2 = 0 /\ all = fill - from  BY <1>1, <1>2, <4>3, <5>1 DEF Least
        <5> HIDE DEF n1, n2, all
        <5> QED  BY <1>1, <1>2, <4>3, <5>1, <5>2
      <4> HIDE DEF n1, n2, all
      <4> QED  BY <1>1, <1>2, <4>1, <4>2, <4>3
    <3> HIDE DEF n1, n2, all
    <3>5. Second => Whole
      <4> SUFFICES ASSUME Second, NEW i \in 1..all PROVE b[i] = from + i - 1
        OBVIOUS
      <4>1. CASE i <= n1  BY <2>5, <4>1, <1>5
      <4>2. CASE i > n1
        <5>1. n1 = n /\ i - n \in 1..n2 /\ i - n \in 1..(Len(b) - n) /\ n + (i - n) = i
          BY <1>2, <1>5, <3>4, <4>2
        <5>2. two[i - n] = b[i] /\ two[i - n] = from + n1 + (i - n) - 1
          BY <1>2, <5>1
        <5> QED  BY <1>1, <1>2, <1>5, <5>1, <5>2
      <4> QED  BY <1>5, <4>1, <4>2
    <3>6. Whole => Second
      <4> SUFFICES ASSUME Whole, NEW i \in 1..n2 PROVE two[i] = from + n1 + i - 1
        OBVIOUS
      <4>1. n1 = n /\ i \in 1..(Len(b) - n) /\ n + i \in 1..all
        BY <1>2, <1>5, <3>4
      <4>2. two[i] = b[n + i] /\ b[n + i] = from + (n + i) - 1
        BY <1>2, <4>1
      <4> QED  BY <1>1, <1>2, <4>1, <4>2
    <3>7. Second = Whole  BY <3>5, <3>6, Zenon
    <3> HIDE DEF Second, Whole
    <3> QED  BY <3>1, <3>3, <3>7, Zenon
  <2> HIDE DEF First, Whole
  <2> QED  BY <2>1, <2>3, <2>4, <2>5, Zenon
<1> QED  BY <1>8, <1>9

\* The verdict does not depend on where the payload goes on in a second mbuf.
THEOREM MatchesSplits == MatchSpec => []SplitsAlike
<1>1. ASSUME IInv, NEW p \in Arrived, NEW n \in 0..Len(p.chain[1])
      PROVE  Matches(tmpl, attr, p) = Matches(tmpl, attr, [p EXCEPT !.chain = Split(p.chain[1], n)])
  <2> DEFINE o == Filled(tmpl, attr)
             q == [p EXCEPT !.chain = Split(p.chain[1], n)]
  <2>1. Packet(o) /\ o.chain = <<o.chain[1]>> /\ o.chain[1] \in Seq(Int)
    BY <1>1, OwnPacket, OwnBytes
  <2> HIDE DEF o
  <2>2. p = o \/ p \in Tampered(o)  BY DEF Arrived, o
  <2>3. DOMAIN p = DOMAIN o /\ \E s \in Seq(Int) : p.chain = <<s>>
    BY <2>1, <2>2, OneMbuf
  <2>4. PICK s \in Seq(Int) : p.chain = <<s>>  BY <2>3
  <2>5. DOMAIN p = {"len", "other", "vtag", "ipLen", "id", "seq", "word", "csum", "chain"}
    BY <2>1, <2>3 DEF Packet
  <2>6. /\ q.len = p.len /\ q.other = p.other /\ q.vtag = p.vtag /\ q.ipLen = p.ipLen
        /\ q.id = p.id /\ q.seq = p.seq /\ q.word = p.word /\ q.csum = p.csum
        /\ q.chain = Split(s, n) /\ n \in 0..Len(s)
    BY <2>4, <2>5
  <2> HIDE DEF q
  <2>7. tmpl.pay \in Pay  BY <1>1 DEF IInv, Ready, Template
  <2>8. TestChain(tmpl.pay, q.chain).ok = TestChain(tmpl.pay, p.chain).ok
    BY <2>4, <2>6, <2>7, SplitTested
  <2>9. PayloadMatches(tmpl.pay, p) = PayloadMatches(tmpl.pay, q)
    BY <2>6, <2>8, Zenon DEF PayloadMatches
  <2>10. EthernetMatches(attr, p) = EthernetMatches(attr, q)
    BY <2>6, Zenon DEF EthernetMatches
  <2>11. TcpMatches(tmpl, attr, p) = TcpMatches(tmpl, attr, q)
    BY <2>6, Zenon DEF TcpMatches, SumsMatch
  <2>12. IpMatches(tmpl, attr, p) = IpMatches(tmpl, attr, q)
    BY <2>6, Zenon DEF IpMatches, Ipv4Matches, Ipv6Matches, SumsMatch
  <2> QED  BY <2>9, <2>10, <2>11, <2>12, Zenon DEF Matches, q
<1>2. IInv => SplitsAlike
  BY <1>1 DEF SplitsAlike
<1> QED  BY <1>2, MatchInvariance, PTL
=============================================================================
