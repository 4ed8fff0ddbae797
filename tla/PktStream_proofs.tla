--------------------------- MODULE PktStream_proofs ---------------------------
(***************************************************************************)
(* For every value of the constants: types, the fixpoint of propagation,   *)
(* agreement of the segment sizes, exactness of the lengths, respect of    *)
(* the MTUs, and the implementation of ByteStream and of Stack (of both    *)
(* the safety part).                                                       *)
(*                                                                         *)
(* Everything follows from one inductive invariant: the template is well   *)
(* typed, its outermost MTU was never set from outside, and each           *)
(* propagated field has the value its neighbour gives it (Settled).        *)
(***************************************************************************)
EXTENDS PktStream, Sequences, FiniteSetTheorems, TLAPS

\* What propagation establishes, field by field.
Settled(t) ==
  /\ t.ip.outerMtu       = Wrap(GetMtu(t.eth) - EthHdr)
  /\ t.tcp.outerMtu      = Wrap(GetMtu(t.ip) - IpHdr)
  /\ t.pay.outerMtu      = Wrap(GetMtu(t.tcp) - TcpHdr)
  /\ t.tcp.payloadLength = PayGetLen(t.pay)
  /\ t.ip.lenField       = IpLenField(Wrap(TcpHdr + TcpPayloadLength(t.tcp)))
  /\ t.eth.payloadLength = Wrap(IpHdr + IpPayloadLength(t.ip))

\* What propagation leaves alone.
SameEdits(t, u) ==
  /\ u.eth.localMtu = t.eth.localMtu /\ u.eth.outerMtu = t.eth.outerMtu
  /\ u.ip.localMtu = t.ip.localMtu /\ u.ip.id = t.ip.id
  /\ u.tcp.localMtu = t.tcp.localMtu /\ u.tcp.seq = t.tcp.seq
  /\ u.pay.localMtu = t.pay.localMtu
  /\ u.pay.size = t.pay.size /\ u.pay.payloadIndex = t.pay.payloadIndex

\* The template a constructor may be called with: the outermost header has no
\* outer MTU but the default.
Ready(t) == t \in Template /\ t.eth.outerMtu = DefaultMtu

IInv == Ready(tmpl) /\ Settled(tmpl)
-----------------------------------------------------------------------------
(* Arithmetic.                                                             *)

\* size_t arithmetic yields a size_t, and a value in range is not changed.
LEMMA WrapType == ASSUME NEW x \in Size, NEW c \in Nat
                  PROVE Wrap(x - c) \in Size /\ Wrap(c + x) \in Size
  BY ConstAssumption DEF Wrap, Size

LEMMA SeqType == ASSUME NEW x \in 0..(SeqMod - 1), NEW n \in Nat
                 PROVE (x + n) % SeqMod \in 0..(SeqMod - 1)
  BY ConstAssumption

LEMMA WrapId == ASSUME NEW x \in Size PROVE Wrap(x) = x
  BY ConstAssumption DEF Wrap, Size

\* The smaller of two sizes.
LEMMA LeastType == ASSUME NEW a \in Nat, NEW b \in Nat
                   PROVE /\ Least(a, b) \in {a, b}
                         /\ Least(a, b) <= a /\ Least(a, b) <= b
  BY DEF Least

LEMMA LeastSize == ASSUME NEW a \in Size, NEW b \in Size PROVE Least(a, b) \in Size
  BY DEF Least

LEMMA SizeNat == Size \subseteq Nat /\ 0..MaxPayload \subseteq Size /\ DefaultMtu \in Size
                 /\ 0..(U16 - 1) \subseteq Size
  BY ConstAssumption DEF Size, DefaultMtu
-----------------------------------------------------------------------------
(* The types of the lengths.                                               *)

LEMMA PayLens == ASSUME NEW p \in Pay
                 PROVE /\ PayGetLen(p) \in 0..(p.size - p.payloadIndex)
                       /\ PayFillLen(p) \in 0..PayGetLen(p)
                       /\ PayGetLen(p) \in Size
                       /\ GetMtu(p) \in Size
                       /\ PayFillLen(p) <= GetMtu(p)
                       /\ PayFillLen(p) <= p.localMtu
  BY ConstAssumption DEF Pay, PayGetLen, PayFillLen, GetMtu, Least, Size

LEMMA TcpLens == ASSUME NEW h \in Tcp
                 PROVE GetMtu(h) \in Size /\ TcpPayloadLength(h) \in Size
  <1>1. GetMtu(h) \in Size
    BY LeastSize DEF Tcp, GetMtu
  <1>2. Wrap(GetMtu(h) - TcpHdr) \in Size
    BY <1>1, WrapType, SizeNat, ConstAssumption
  <1> QED BY <1>1, <1>2, LeastSize DEF Tcp, TcpPayloadLength

LEMMA IpLens == ASSUME NEW h \in Ip
                PROVE GetMtu(h) \in Size /\ IpPayloadLength(h) \in Size
  <1>1. GetMtu(h) \in Size
    BY LeastSize DEF Ip, GetMtu
  <1>2. h.lenField \in Size /\ h.lenField \in Int
    BY SizeNat DEF Ip
  <1>3. Wrap(h.lenField - IpHdr) \in Size
    BY <1>2, WrapType, ConstAssumption
  <1> QED BY <1>1, <1>2, <1>3 DEF IpPayloadLength

LEMMA IpLenFieldType == ASSUME NEW n \in Nat PROVE IpLenField(n) \in 0..(U16 - 1)
  BY ConstAssumption DEF IpLenField
-----------------------------------------------------------------------------
(* The constructor.                                                        *)

LEMMA InwardsSettles ==
  ASSUME NEW t, Ready(t)
  PROVE  LET u == PropagateInwards(t) IN
         /\ Ready(u) /\ SameEdits(t, u)
         /\ u.ip.outerMtu  = Wrap(GetMtu(u.eth) - EthHdr)
         /\ u.tcp.outerMtu = Wrap(GetMtu(u.ip) - IpHdr)
         /\ u.pay.outerMtu = Wrap(GetMtu(u.tcp) - TcpHdr)
  <1> DEFINE ipMtu  == Wrap(GetMtu(t.eth) - EthHdr)
             tcpMtu == Wrap(Least(t.ip.localMtu, ipMtu) - IpHdr)
             payMtu == Wrap(Least(t.tcp.localMtu, tcpMtu) - TcpHdr)
             u      == PropagateInwards(t)
  <1>0. t \in Template /\ t.eth \in Eth /\ t.ip \in Ip /\ t.tcp \in Tcp /\ t.pay \in Pay
    BY DEF Ready, Template
  <1>1. ipMtu \in Size
    <2>1. GetMtu(t.eth) \in Size
      BY <1>0, LeastSize DEF Eth, GetMtu
    <2> QED BY <2>1, WrapType, SizeNat, ConstAssumption
  <1>2. tcpMtu \in Size
    <2>1. Least(t.ip.localMtu, ipMtu) \in Size
      BY <1>0, <1>1, LeastSize DEF Ip
    <2> QED BY <2>1, WrapType, SizeNat, ConstAssumption
  <1>3. payMtu \in Size
    <2>1. Least(t.tcp.localMtu, tcpMtu) \in Size
      BY <1>0, <1>2, LeastSize DEF Tcp
    <2> QED BY <2>1, WrapType, SizeNat, ConstAssumption
  <1> HIDE DEF ipMtu, tcpMtu, payMtu
  <1>4. u = [t EXCEPT !.ip.outerMtu = ipMtu, !.tcp.outerMtu = tcpMtu, !.pay.outerMtu = payMtu]
    BY DEF u, PropagateInwards, ipMtu, tcpMtu, payMtu
  <1>5. /\ u.eth = t.eth
        /\ u.ip = [t.ip EXCEPT !.outerMtu = ipMtu]
        /\ u.tcp = [t.tcp EXCEPT !.outerMtu = tcpMtu]
        /\ u.pay = [t.pay EXCEPT !.outerMtu = payMtu]
        /\ u = [eth |-> u.eth, ip |-> u.ip, tcp |-> u.tcp, pay |-> u.pay]
    BY <1>0, <1>4 DEF Template
  <1> HIDE DEF u
  <1>6. u.eth \in Eth /\ u.ip \in Ip /\ u.tcp \in Tcp /\ u.pay \in Pay
    BY <1>0, <1>1, <1>2, <1>3, <1>5 DEF Ip, Tcp, Pay
  <1>7. Ready(u)
    BY <1>5, <1>6 DEF Ready, Template
  <1>8. SameEdits(t, u)
    BY <1>0, <1>5 DEF SameEdits, Eth, Ip, Tcp, Pay
  <1>9. /\ u.ip.outerMtu = ipMtu /\ u.ip.localMtu = t.ip.localMtu
        /\ u.tcp.outerMtu = tcpMtu /\ u.tcp.localMtu = t.tcp.localMtu
        /\ u.pay.outerMtu = payMtu
    BY <1>0, <1>5 DEF Ip, Tcp, Pay
  <1> QED BY <1>5, <1>7, <1>8, <1>9 DEF u, ipMtu, tcpMtu, payMtu, GetMtu

LEMMA OutwardsSettles ==
  ASSUME NEW t, Ready(t),
         t.ip.outerMtu  = Wrap(GetMtu(t.eth) - EthHdr),
         t.tcp.outerMtu = Wrap(GetMtu(t.ip) - IpHdr),
         t.pay.outerMtu = Wrap(GetMtu(t.tcp) - TcpHdr)
  PROVE  LET u == PropagateOutwards(t) IN Ready(u) /\ SameEdits(t, u) /\ Settled(u)
  <1> DEFINE tcp == [t.tcp EXCEPT !.payloadLength = PayGetLen(t.pay)]
             ip  == [t.ip EXCEPT !.lenField = IpLenField(Wrap(TcpHdr + TcpPayloadLength(tcp)))]
             eth == [t.eth EXCEPT !.payloadLength = Wrap(IpHdr + IpPayloadLength(ip))]
             u   == PropagateOutwards(t)
  <1>0. t \in Template /\ t.eth \in Eth /\ t.ip \in Ip /\ t.tcp \in Tcp /\ t.pay \in Pay
    BY DEF Ready, Template
  <1>1. tcp \in Tcp /\ tcp.payloadLength = PayGetLen(t.pay)
        /\ tcp.localMtu = t.tcp.localMtu /\ tcp.outerMtu = t.tcp.outerMtu /\ tcp.seq = t.tcp.seq
    BY <1>0, PayLens DEF Tcp
  <1> HIDE DEF tcp
  <1>2. ip \in Ip /\ ip.lenField = IpLenField(Wrap(TcpHdr + TcpPayloadLength(tcp)))
        /\ ip.localMtu = t.ip.localMtu /\ ip.outerMtu = t.ip.outerMtu /\ ip.id = t.ip.id
    <2>1. Wrap(TcpHdr + TcpPayloadLength(tcp)) \in Nat
      BY <1>1, TcpLens, WrapType, SizeNat, ConstAssumption
    <2> QED BY <1>0, <2>1, IpLenFieldType DEF Ip
  <1> HIDE DEF ip
  <1>3. eth \in Eth /\ eth.payloadLength = Wrap(IpHdr + IpPayloadLength(ip))
        /\ eth.localMtu = t.eth.localMtu /\ eth.outerMtu = t.eth.outerMtu
    <2>1. Wrap(IpHdr + IpPayloadLength(ip)) \in Size
      BY <1>2, IpLens, WrapType, SizeNat, ConstAssumption
    <2> QED BY <1>0, <2>1 DEF Eth
  <1> HIDE DEF eth
  <1>4. u = [t EXCEPT !.eth = eth, !.ip = ip, !.tcp = tcp]
    BY DEF u, PropagateOutwards, tcp, ip, eth
  <1>5. /\ u.eth = eth /\ u.ip = ip /\ u.tcp = tcp /\ u.pay = t.pay
        /\ u = [eth |-> u.eth, ip |-> u.ip, tcp |-> u.tcp, pay |-> u.pay]
    BY <1>0, <1>4 DEF Template
  <1> HIDE DEF u
  <1>6. Ready(u)
    BY <1>0, <1>1, <1>2, <1>3, <1>5 DEF Ready, Template
  <1>7. SameEdits(t, u)
    BY <1>1, <1>2, <1>3, <1>5 DEF SameEdits
  <1>8. Settled(u)
    BY <1>1, <1>2, <1>3, <1>5 DEF Settled, GetMtu
  <1> QED BY <1>6, <1>7, <1>8 DEF u

\* PropagateFields settles every template in one pass, whatever values the
\* propagated fields had before.
LEMMA PropagateSettles ==
  ASSUME NEW t, Ready(t)
  PROVE  Ready(Propagate(t)) /\ SameEdits(t, Propagate(t)) /\ Settled(Propagate(t))
  BY InwardsSettles, OutwardsSettles DEF Propagate, SameEdits

\* Two templates with the same edits that are both settled are the same.
LEMMA SettledUnique ==
  ASSUME NEW t, NEW u, t \in Template, u \in Template, SameEdits(t, u), Settled(t), Settled(u)
  PROVE  t = u
  <1>0. /\ t.eth \in Eth /\ t.ip \in Ip /\ t.tcp \in Tcp /\ t.pay \in Pay
        /\ u.eth \in Eth /\ u.ip \in Ip /\ u.tcp \in Tcp /\ u.pay \in Pay
    BY DEF Template
  <1>1. t.ip.outerMtu = u.ip.outerMtu
    BY DEF SameEdits, Settled, GetMtu
  <1>2. t.tcp.outerMtu = u.tcp.outerMtu
    BY <1>1 DEF SameEdits, Settled, GetMtu
  <1>3. t.pay.outerMtu = u.pay.outerMtu
    BY <1>2 DEF SameEdits, Settled, GetMtu
  <1>4. t.tcp.payloadLength = u.tcp.payloadLength
    BY DEF SameEdits, Settled, PayGetLen
  <1>5. t.ip.lenField = u.ip.lenField
    BY <1>2, <1>4 DEF SameEdits, Settled, TcpPayloadLength, GetMtu
  <1>6. t.eth.payloadLength = u.eth.payloadLength
    BY <1>5 DEF Settled, IpPayloadLength
  <1>7. t.eth = u.eth
    BY <1>0, <1>6 DEF SameEdits, Eth
  <1>8. t.ip = u.ip
    BY <1>0, <1>1, <1>5 DEF SameEdits, Ip
  <1>9. t.tcp = u.tcp
    BY <1>0, <1>2, <1>4 DEF SameEdits, Tcp
  <1>10. t.pay = u.pay
    BY <1>0, <1>3 DEF SameEdits, Pay
  <1> QED BY <1>7, <1>8, <1>9, <1>10 DEF Template
-----------------------------------------------------------------------------
(* The inductive invariant.                                                *)

LEMMA NewTemplateSettled ==
  ASSUME NEW n \in 0..MaxPayload, NEW s \in Seqs
  PROVE  /\ Ready(NewTemplate(n, s)) /\ Settled(NewTemplate(n, s))
         /\ NewTemplate(n, s).pay.size = n /\ NewTemplate(n, s).pay.payloadIndex = 0
         /\ NewTemplate(n, s).tcp.seq = s
  <1> DEFINE eth == [localMtu |-> DefaultMtu, outerMtu |-> DefaultMtu, payloadLength |-> 0]
             ip  == [localMtu |-> DefaultMtu, outerMtu |-> DefaultMtu, id |-> 0,
                     lenField |-> IpLenField(0)]
             tcp == [localMtu |-> DefaultMtu, outerMtu |-> DefaultMtu, payloadLength |-> 0,
                     seq |-> s]
             pay == [localMtu |-> DefaultMtu, outerMtu |-> DefaultMtu, size |-> n,
                     payloadIndex |-> 0]
             t   == [eth |-> eth, ip |-> ip, tcp |-> tcp, pay |-> pay]
  <1>0. DefaultMtu \in Size /\ 0 \in Size
    BY SizeNat, ConstAssumption DEF Size
  <1>1. eth \in Eth
    BY <1>0 DEF Eth
  <1>2. ip \in Ip
    BY <1>0, IpLenFieldType, ConstAssumption DEF Ip
  <1>3. tcp \in Tcp
    BY <1>0, ConstAssumption DEF Tcp
  <1>4. pay \in Pay
    BY <1>0, ConstAssumption DEF Pay
  <1>5. Ready(t)
    <2> HIDE DEF ip, tcp, pay
    <2> QED BY <1>1, <1>2, <1>3, <1>4 DEF Ready, Template
  <1>6. Ready(Propagate(t)) /\ SameEdits(t, Propagate(t)) /\ Settled(Propagate(t))
    <2> HIDE DEF t
    <2> QED BY <1>5, PropagateSettles
  <1>7. NewTemplate(n, s) = Propagate(t)
    BY DEF NewTemplate
  <1>8. t.pay.size = n /\ t.pay.payloadIndex = 0 /\ t.tcp.seq = s
    OBVIOUS
  <1> HIDE DEF t
  <1> QED BY <1>6, <1>7, <1>8 DEF SameEdits

\* A payload whose size and index are replaced together.
LEMMA PayEdit ==
  ASSUME NEW p \in Pay, NEW n \in 0..MaxPayload, NEW i \in 0..MaxPayload, i <= n
  PROVE  [p EXCEPT !.size = n, !.payloadIndex = i] \in Pay
  <1> DEFINE q == [p EXCEPT !.size = n]
             r == [q EXCEPT !.payloadIndex = i]
  <1>1. q \in [localMtu : Size, outerMtu : Size, size : 0..MaxPayload,
               payloadIndex : 0..MaxPayload] /\ q.size = n
    BY DEF Pay
  <1> HIDE DEF q
  <1>2. r \in Pay
    BY <1>1 DEF Pay
  <1> QED BY <1>2 DEF q

LEMMA ReplaceType ==
  ASSUME NEW p \in Pay, NEW n \in 0..MaxPayload PROVE ReplaceBytes(p, n) \in Pay
  <1> DEFINE q == [p EXCEPT !.size = n]
             r == [q EXCEPT !.payloadIndex = 0]
  <1>1. q \in [localMtu : Size, outerMtu : Size, size : 0..MaxPayload,
               payloadIndex : 0..MaxPayload] /\ q.size = n
    BY DEF Pay
  <1> HIDE DEF q
  <1>2. r \in Pay
    BY <1>1, ConstAssumption DEF Pay
  <1> QED BY <1>2 DEF q, ReplaceBytes

\* Every header an edit builds is well typed.
LEMMA EditedHeaders ==
  ASSUME NEW t, Ready(t)
  PROVE  /\ NextIp(t.ip) \in Ip
         /\ NextTcp(t.tcp) \in Tcp
         /\ NextPay(t.pay) \in Pay
         /\ NextPay(t.pay) = [t.pay EXCEPT !.payloadIndex = @ + PayFillLen(t.pay)]
         /\ \A n \in 0..t.pay.size : SetLength(t.pay, n) \in Pay
  <1>0. t \in Template /\ t.ip \in Ip /\ t.tcp \in Tcp /\ t.pay \in Pay
    BY DEF Ready, Template
  <1>1. NextIp(t.ip) \in Ip
    BY <1>0, ConstAssumption DEF NextIp, NextId, Ip
  <1>2. NextTcp(t.tcp) \in Tcp
    <2>1. (t.tcp.seq + TcpPayloadLength(t.tcp)) % SeqMod \in 0..(SeqMod - 1)
      <3>1. t.tcp.seq \in 0..(SeqMod - 1) /\ TcpPayloadLength(t.tcp) \in Nat
        BY <1>0, TcpLens, SizeNat DEF Tcp
      <3> QED BY <3>1, SeqType
    <2> QED BY <1>0, <2>1 DEF NextTcp, Tcp
  <1>3. NextPay(t.pay) = [t.pay EXCEPT !.payloadIndex = @ + PayFillLen(t.pay)]
    BY <1>0 DEF NextPay, PayFillLen, Least, Pay
  <1>4. NextPay(t.pay) \in Pay
    <2>1. /\ t.pay.payloadIndex \in 0..MaxPayload /\ t.pay.size \in 0..MaxPayload
          /\ PayFillLen(t.pay) \in 0..(t.pay.size - t.pay.payloadIndex)
      BY <1>0, PayLens, ConstAssumption DEF Pay
    <2> QED BY <1>0, <1>3, <2>1, ConstAssumption DEF Pay
  <1>5. ASSUME NEW n \in 0..t.pay.size PROVE SetLength(t.pay, n) \in Pay
    <2> DEFINE i == Least(t.pay.payloadIndex, n)
    <2>1. n \in 0..MaxPayload /\ i \in 0..MaxPayload /\ i <= n
      BY <1>0, ConstAssumption DEF Least, Pay
    <2>2. SetLength(t.pay, n) = [t.pay EXCEPT !.size = n, !.payloadIndex = i]
      BY <1>0 DEF SetLength, Pay
    <2> HIDE DEF i
    <2>3. t.pay \in Pay
      BY <1>0
    <2>4. [t.pay EXCEPT !.size = n, !.payloadIndex = i] \in Pay
      BY <2>1, <2>3, PayEdit
    <2> QED BY <2>2, <2>4
  <1> QED BY <1>1, <1>2, <1>3, <1>4, <1>5

\* Each operation constructs its result from a template that is well typed.
LEMMA StepConstructs ==
  ASSUME IInv, Next
  PROVE  \E u : Ready(u) /\ tmpl' = Propagate(u)
  <1>0. /\ Ready(tmpl) /\ tmpl \in Template
        /\ tmpl.eth \in Eth /\ tmpl.ip \in Ip /\ tmpl.tcp \in Tcp /\ tmpl.pay \in Pay
        /\ tmpl = [eth |-> tmpl.eth, ip |-> tmpl.ip, tcp |-> tmpl.tcp, pay |-> tmpl.pay]
    BY DEF IInv, Ready, Template
  <1>1. CASE NextSegment
    <2> DEFINE u == [tmpl EXCEPT !.ip = NextIp(tmpl.ip), !.tcp = NextTcp(tmpl.tcp),
                                 !.pay = NextPay(tmpl.pay)]
    <2>1. Ready(u)
      BY <1>0, EditedHeaders DEF Ready, Template
    <2> QED BY <1>1, <2>1 DEF NextSegment, NextTemplate
  <1>2. CASE Retransmission
    <2> DEFINE u == [tmpl EXCEPT !.ip = NextIp(tmpl.ip)]
    <2>1. Ready(u)
      BY <1>0, EditedHeaders DEF Ready, Template
    <2> QED BY <1>2, <2>1 DEF Retransmission, RetransmissionOf
  <1>3. ASSUME NEW m \in Mtus.eth, WithEthMtu(m) PROVE \E u : Ready(u) /\ tmpl' = Propagate(u)
    <2>1. [tmpl.eth EXCEPT !.localMtu = m] \in Eth
          /\ [tmpl.eth EXCEPT !.localMtu = m].outerMtu = DefaultMtu
      BY <1>0, ConstAssumption DEF Eth, Size, Ready
    <2>2. Ready([tmpl EXCEPT !.eth.localMtu = m])
      BY <1>0, <2>1 DEF Ready, Template
    <2> QED BY <1>3, <2>2 DEF WithEthMtu
  <1>4. ASSUME NEW m \in Mtus.ip, WithIpMtu(m) PROVE \E u : Ready(u) /\ tmpl' = Propagate(u)
    <2>1. [tmpl.ip EXCEPT !.localMtu = m] \in Ip
      BY <1>0, ConstAssumption DEF Ip, Size
    <2>2. Ready([tmpl EXCEPT !.ip.localMtu = m])
      BY <1>0, <2>1 DEF Ready, Template
    <2> QED BY <1>4, <2>2 DEF WithIpMtu
  <1>5. ASSUME NEW m \in Mtus.tcp, WithTcpMtu(m) PROVE \E u : Ready(u) /\ tmpl' = Propagate(u)
    <2>1. [tmpl.tcp EXCEPT !.localMtu = m] \in Tcp
      BY <1>0, ConstAssumption DEF Tcp, Size
    <2>2. Ready([tmpl EXCEPT !.tcp.localMtu = m])
      BY <1>0, <2>1 DEF Ready, Template
    <2> QED BY <1>5, <2>2 DEF WithTcpMtu
  <1>6. ASSUME NEW m \in Mtus.pay, WithPayMtu(m) PROVE \E u : Ready(u) /\ tmpl' = Propagate(u)
    <2>1. [tmpl.pay EXCEPT !.localMtu = m] \in Pay
      BY <1>0, ConstAssumption DEF Pay, Size
    <2>2. Ready([tmpl EXCEPT !.pay.localMtu = m])
      BY <1>0, <2>1 DEF Ready, Template
    <2> QED BY <1>6, <2>2 DEF WithPayMtu
  <1>7. ASSUME NEW s \in Seqs, WithSeq(s) PROVE \E u : Ready(u) /\ tmpl' = Propagate(u)
    <2>1. [tmpl.tcp EXCEPT !.seq = s] \in Tcp
      BY <1>0, ConstAssumption DEF Tcp
    <2>2. Ready([tmpl EXCEPT !.tcp.seq = s])
      BY <1>0, <2>1 DEF Ready, Template
    <2> QED BY <1>7, <2>2 DEF WithSeq
  <1>8. ASSUME NEW n \in 0..MaxPayload, WithPayload(n)
        PROVE  \E u : Ready(u) /\ tmpl' = Propagate(u)
    <2>1. ReplaceBytes(tmpl.pay, n) \in Pay
      BY <1>0, ReplaceType
    <2>2. Ready([tmpl EXCEPT !.pay = ReplaceBytes(@, n)])
      BY <1>0, <2>1 DEF Ready, Template
    <2> QED BY <1>8, <2>2 DEF WithPayload
  <1>9. ASSUME NEW n \in 0..MaxPayload, WithAppend(n)
        PROVE  \E u : Ready(u) /\ tmpl' = Propagate(u)
    <2>1. [tmpl.pay EXCEPT !.size = @ + n] \in Pay
      BY <1>0, <1>9, ConstAssumption DEF Pay, WithAppend
    <2>2. Ready([tmpl EXCEPT !.pay.size = @ + n])
      BY <1>0, <2>1 DEF Ready, Template
    <2> QED BY <1>9, <2>2 DEF WithAppend
  <1>10. ASSUME NEW n \in 0..MaxPayload, WithLength(n)
         PROVE  \E u : Ready(u) /\ tmpl' = Propagate(u)
    <2>1. n \in 0..tmpl.pay.size
      BY <1>0, <1>10 DEF WithLength, Pay
    <2>2. Ready([tmpl EXCEPT !.pay = SetLength(@, n)])
      BY <1>0, <2>1, EditedHeaders DEF Ready, Template
    <2> QED BY <1>10, <2>2 DEF WithLength
  <1> QED
    BY <1>1, <1>2, <1>3, <1>4, <1>5, <1>6, <1>7, <1>8, <1>9, <1>10
    DEF Next, SetMtu, SetPayload, SetSeq

\* IInv holds in every state.
THEOREM Invariance == Spec => []IInv
  <1>1. Init => IInv
    BY NewTemplateSettled DEF Init, IInv
  <1>2. IInv /\ [Next]_tmpl => IInv'
    <2>1. CASE Next
      BY <2>1, StepConstructs, PropagateSettles DEF IInv
    <2>2. CASE UNCHANGED tmpl
      BY <2>2 DEF IInv
    <2> QED BY <2>1, <2>2
  <1> QED BY <1>1, <1>2, PTL DEF Spec

\* No operation takes a header out of its type, and the payload index never
\* leaves the payload.
THEOREM TypeCorrect == Spec => []TypeOK
  <1>1. IInv => TypeOK
    BY DEF IInv, Ready, TypeOK
  <1> QED BY <1>1, Invariance, PTL

\* Propagation is idempotent on every template that can be constructed.
THEOREM Settling == Spec => []PropagationSettled
  <1>1. IInv => PropagationSettled
    <2> SUFFICES ASSUME IInv PROVE Propagate(tmpl) = tmpl
      BY DEF PropagationSettled
    <2>1. /\ Ready(tmpl) /\ Settled(tmpl)
          /\ Ready(Propagate(tmpl)) /\ SameEdits(tmpl, Propagate(tmpl))
          /\ Settled(Propagate(tmpl))
      BY PropagateSettles DEF IInv
    <2> QED BY <2>1, SettledUnique DEF Ready
  <1> QED BY <1>1, Invariance, PTL

\* The TCP header and the payload agree on the segment.
LEMMA SegmentSize ==
  ASSUME NEW t, Ready(t), Settled(t)
  PROVE  TcpPayloadLength(t.tcp) = PayFillLen(t.pay)
  <1>0. t.pay \in Pay
    BY DEF Ready, Template
  <1>1. TcpPayloadLength(t.tcp) = Least(t.pay.outerMtu, PayGetLen(t.pay))
    BY DEF Settled, TcpPayloadLength
  <1>2. Least(t.pay.outerMtu, PayGetLen(t.pay)) = PayFillLen(t.pay)
    BY <1>0, ConstAssumption DEF Least, PayFillLen, PayGetLen, GetMtu, Pay, Size
  <1> QED BY <1>1, <1>2

THEOREM Agreement == Spec => []SegmentAgrees
  <1>1. IInv => SegmentAgrees
    BY SegmentSize DEF IInv, SegmentAgrees
  <1> QED BY <1>1, Invariance, PTL
-----------------------------------------------------------------------------
(* Lengths and MTUs.                                                       *)

LEMMA WrapAdd == ASSUME NEW a \in Nat, NEW b \in Nat, a + b < SizeMod PROVE Wrap(a + b) = a + b
  BY ConstAssumption DEF Wrap

LEMMA WrapSub == ASSUME NEW a \in Size, NEW b \in Nat, b <= a PROVE Wrap(a - b) = a - b
  BY ConstAssumption DEF Wrap, Size

\* A packet that fits the IP length field has exact lengths in every header.
LEMMA FitExact ==
  ASSUME NEW t, Ready(t), Settled(t), FitsIp(t)
  PROVE  LET p == GeneratedFrom(t) IN
         /\ p.len = EthHdr + IpHdr + TcpHdr + p.copied
         /\ p.ipLen = (IF Ipv6 THEN 0 ELSE IpHdr) + TcpHdr + p.copied
  <1> DEFINE seg == PayFillLen(t.pay)
             ipBytes == (IF Ipv6 THEN 0 ELSE IpHdr) + TcpHdr + seg
  <1>1. seg \in Nat /\ t.pay \in Pay /\ t.ip \in Ip /\ TcpPayloadLength(t.tcp) = seg
    BY PayLens, SegmentSize, SizeNat DEF Ready, Template
  <1>2. ipBytes \in Nat /\ ipBytes < U16 /\ TcpHdr + seg < U16
    BY <1>1, ConstAssumption DEF FitsIp
  <1> HIDE DEF seg
  <1>3. Wrap(TcpHdr + seg) = TcpHdr + seg
    BY <1>1, <1>2, WrapAdd, ConstAssumption
  <1>4. t.ip.lenField = ipBytes
    <2>1. t.ip.lenField = IpLenField(TcpHdr + seg)
      BY <1>1, <1>3 DEF Settled
    <2> QED BY <1>1, <1>2, <2>1, ConstAssumption DEF IpLenField
  <1>5. IpPayloadLength(t.ip) = TcpHdr + seg
    <2>1. CASE Ipv6
      BY <1>4, <2>1, <1>1, ConstAssumption DEF IpPayloadLength
    <2>2. CASE ~Ipv6
      <3>1. t.ip.lenField = IpHdr + TcpHdr + seg /\ t.ip.lenField \in Size
        BY <1>1, <1>4, <2>2, SizeNat DEF Ip
      <3>2. Wrap(t.ip.lenField - IpHdr) = t.ip.lenField - IpHdr
        BY <1>1, <3>1, WrapSub, ConstAssumption
      <3> QED BY <1>1, <2>2, <3>1, <3>2, ConstAssumption DEF IpPayloadLength
    <2> QED BY <2>1, <2>2
  <1>6. t.eth.payloadLength = IpHdr + TcpHdr + seg
    <2>1. TcpHdr + seg \in Nat /\ IpHdr + (TcpHdr + seg) < SizeMod
      BY <1>1, <1>2, ConstAssumption
    <2>2. Wrap(IpHdr + (TcpHdr + seg)) = IpHdr + (TcpHdr + seg)
      BY <2>1, WrapAdd, ConstAssumption
    <2> QED BY <1>1, <1>5, <2>2, ConstAssumption DEF Settled
  <1>7. Wrap(EthHdr + t.eth.payloadLength) = EthHdr + (IpHdr + TcpHdr + seg)
    <2>1. IpHdr + TcpHdr + seg \in Nat /\ EthHdr + (IpHdr + TcpHdr + seg) < SizeMod
      BY <1>1, <1>2, ConstAssumption
    <2> QED BY <1>6, <2>1, WrapAdd, ConstAssumption
  <1>8. /\ GeneratedFrom(t).len = Wrap(EthHdr + t.eth.payloadLength)
        /\ GeneratedFrom(t).ipLen = t.ip.lenField
        /\ GeneratedFrom(t).copied = seg
    BY DEF GeneratedFrom, seg
  <1> QED BY <1>1, <1>4, <1>7, <1>8, ConstAssumption

\* A packet that does not fit the length field is allocated too small: what the
\* field lost is missing everywhere.
LEMMA OverflowShort ==
  ASSUME NEW t, Ready(t), Settled(t), ~FitsIp(t)
  PROVE  LET p == GeneratedFrom(t) IN
         /\ p.len < EthHdr + IpHdr + TcpHdr + p.copied
         /\ p.ipLen < (IF Ipv6 THEN 0 ELSE IpHdr) + TcpHdr + p.copied
  <1> DEFINE seg == PayFillLen(t.pay)
             ipBytes == (IF Ipv6 THEN 0 ELSE IpHdr) + TcpHdr + seg
             field == t.ip.lenField
  <1>1. seg \in 0..MaxPayload /\ TcpPayloadLength(t.tcp) = seg /\ field \in 0..(U16 - 1)
    <2>1. t.pay \in Pay /\ t.ip \in Ip /\ TcpPayloadLength(t.tcp) = seg
      BY SegmentSize DEF Ready, Template
    <2>2. t.pay.size \in 0..MaxPayload /\ t.pay.payloadIndex \in 0..MaxPayload
          /\ PayGetLen(t.pay) \in 0..(t.pay.size - t.pay.payloadIndex)
          /\ seg \in 0..PayGetLen(t.pay)
      BY <2>1, PayLens DEF Pay
    <2>3. seg \in 0..MaxPayload  BY <2>2, ConstAssumption
    <2> QED BY <2>1, <2>3 DEF Ip
  <1>2. ipBytes \in Nat /\ ipBytes >= U16 /\ field \in Nat /\ field < U16 /\ seg \in Nat
    BY <1>1, ConstAssumption DEF FitsIp
  <1> HIDE DEF seg, ipBytes
  <1>3. field < ipBytes
    BY <1>2, ConstAssumption
  <1> HIDE DEF field
  <1>4. GeneratedFrom(t).len < EthHdr + IpHdr + TcpHdr + seg
    <2>1. CASE Ipv6
      <3>1. IpPayloadLength(t.ip) = field  BY <2>1 DEF IpPayloadLength, field
      <3>2. Wrap(IpHdr + field) = IpHdr + field
        BY <1>2, WrapAdd, ConstAssumption
      <3>3. Wrap(EthHdr + (IpHdr + field)) = EthHdr + (IpHdr + field)
        <4>1. IpHdr + field \in Nat /\ EthHdr + (IpHdr + field) < SizeMod
          BY <1>2, ConstAssumption
        <4> QED BY <4>1, WrapAdd, ConstAssumption
      <3>4. GeneratedFrom(t).len = EthHdr + (IpHdr + field)
        BY <3>1, <3>2, <3>3 DEF GeneratedFrom, Settled
      <3>5. field < TcpHdr + seg
        BY <1>2, <1>3, <2>1, ConstAssumption DEF ipBytes
      <3> QED BY <1>2, <3>4, <3>5, ConstAssumption
    <2>2. CASE ~Ipv6
      <3>1. IpPayloadLength(t.ip) = Wrap(field - IpHdr)  BY <2>2 DEF IpPayloadLength, field
      <3>2. Wrap(IpHdr + Wrap(field - IpHdr)) = field
        BY <1>2, ConstAssumption DEF Wrap
      <3>3. Wrap(EthHdr + field) = EthHdr + field
        BY <1>2, WrapAdd, ConstAssumption
      <3>4. GeneratedFrom(t).len = EthHdr + field
        BY <3>1, <3>2, <3>3 DEF GeneratedFrom, Settled
      <3>5. field < IpHdr + TcpHdr + seg
        BY <1>2, <1>3, <2>2, ConstAssumption DEF ipBytes
      <3> QED BY <1>2, <3>4, <3>5, ConstAssumption
    <2> QED BY <2>1, <2>2
  <1>5. GeneratedFrom(t).ipLen = field /\ GeneratedFrom(t).copied = seg
    BY DEF GeneratedFrom, field, seg
  <1> QED BY <1>3, <1>4, <1>5 DEF ipBytes

\* When the MTUs hold the headers no subtraction wraps, and the segment leaves
\* every MTU room for the headers below it.
LEMMA MtuRoom ==
  ASSUME NEW t, Ready(t), Settled(t), MtusHoldHeaders(t)
  PROVE  LET seg == PayFillLen(t.pay) IN
         /\ EthHdr + IpHdr + TcpHdr + seg <= t.eth.localMtu
         /\ IpHdr + TcpHdr + seg <= t.ip.localMtu
         /\ TcpHdr + seg <= t.tcp.localMtu
         /\ seg <= t.pay.localMtu
  <1> DEFINE seg == PayFillLen(t.pay)
             M(h) == GetMtu(h)
  <1>0. t.eth \in Eth /\ t.ip \in Ip /\ t.tcp \in Tcp /\ t.pay \in Pay
    BY DEF Ready, Template
  <1>1. /\ GetMtu(t.eth) \in Size /\ GetMtu(t.eth) <= t.eth.localMtu
        /\ GetMtu(t.eth) >= EthHdr + IpHdr + TcpHdr
    BY <1>0, ConstAssumption DEF GetMtu, Least, Eth, Size, MtusHoldHeaders, Ready, DefaultMtu
  <1>2. t.ip.outerMtu = GetMtu(t.eth) - EthHdr
    BY <1>1, WrapSub, ConstAssumption DEF Settled, Size
  <1>3. /\ GetMtu(t.ip) \in Size /\ GetMtu(t.ip) <= t.ip.localMtu
        /\ GetMtu(t.ip) <= t.ip.outerMtu /\ GetMtu(t.ip) >= IpHdr + TcpHdr
    BY <1>0, <1>1, <1>2, ConstAssumption DEF GetMtu, Least, Ip, Size, MtusHoldHeaders
  <1>4. t.tcp.outerMtu = GetMtu(t.ip) - IpHdr
    <2>1. GetMtu(t.ip) \in Nat /\ IpHdr \in Nat /\ TcpHdr \in Nat
      BY <1>3, ConstAssumption DEF Size
    <2>2. IpHdr <= GetMtu(t.ip)
      BY <1>3, <2>1
    <2> QED BY <1>3, <2>1, <2>2, WrapSub DEF Settled
  <1>5. /\ GetMtu(t.tcp) \in Size /\ GetMtu(t.tcp) <= t.tcp.localMtu
        /\ GetMtu(t.tcp) <= t.tcp.outerMtu /\ GetMtu(t.tcp) >= TcpHdr
    BY <1>0, <1>3, <1>4, ConstAssumption DEF GetMtu, Least, Tcp, Size, MtusHoldHeaders
  <1>6. t.pay.outerMtu = GetMtu(t.tcp) - TcpHdr
    BY <1>5, WrapSub, ConstAssumption DEF Settled, Size
  <1>7. seg \in Nat /\ seg <= t.pay.outerMtu /\ seg <= t.pay.localMtu
    BY <1>0, PayLens, ConstAssumption DEF GetMtu, Least, Pay, Size
  <1> HIDE DEF seg
  <1>8. /\ t.eth.localMtu \in Nat /\ t.ip.localMtu \in Nat /\ t.tcp.localMtu \in Nat
        /\ GetMtu(t.eth) \in Nat /\ GetMtu(t.ip) \in Nat /\ GetMtu(t.tcp) \in Nat
    BY <1>0, <1>1, <1>3, <1>5, SizeNat DEF Eth, Ip, Tcp
  <1>9. /\ TcpHdr + seg <= GetMtu(t.tcp)
        /\ IpHdr + TcpHdr + seg <= GetMtu(t.ip)
        /\ EthHdr + IpHdr + TcpHdr + seg <= GetMtu(t.eth)
    BY <1>2, <1>3, <1>4, <1>5, <1>6, <1>7, <1>8, ConstAssumption
  <1> QED BY <1>1, <1>3, <1>5, <1>7, <1>8, <1>9, ConstAssumption DEF seg

\* An MTU on the IP header makes the packet fit.
LEMMA MtuFits ==
  ASSUME IInv, MtusHoldHeaders(tmpl), tmpl.ip.localMtu <= IpMaxPacket
  PROVE  FitsIp(tmpl)
  <1>1. IpHdr + TcpHdr + PayFillLen(tmpl.pay) <= tmpl.ip.localMtu
    BY MtuRoom DEF IInv
  <1>2. PayFillLen(tmpl.pay) \in Nat /\ tmpl.ip.localMtu \in Nat
    <2>1. tmpl.pay \in Pay /\ tmpl.ip \in Ip
      BY DEF IInv, Ready, Template
    <2>2. PayFillLen(tmpl.pay) \in Nat
      BY <2>1, PayLens
    <2> QED BY <2>1, <2>2, SizeNat DEF Ip
  <1> QED BY <1>1, <1>2, ConstAssumption DEF FitsIp, IpMaxPacket

\* The lengths of a generated packet are exact if it fits its length field, too
\* small if it does not, and an MTU on the IP header makes it fit.
THEOREM ExactLengths == Spec => []LengthsExact
  <1>1. IInv => LengthsExact
    BY MtuFits, FitExact, OverflowShort DEF IInv, LengthsExact
  <1> QED BY <1>1, Invariance, PTL

\* No generated packet exceeds an MTU.
THEOREM MtusRespected == Spec => []MtuRespected
  <1>1. ASSUME IInv, MtusHoldHeaders(tmpl), FitsIp(tmpl)
        PROVE  LET p == GeneratedFrom(tmpl) IN
               /\ p.len <= tmpl.eth.localMtu
               /\ p.len - EthHdr <= tmpl.ip.localMtu
               /\ p.len - EthHdr - IpHdr <= tmpl.tcp.localMtu
               /\ p.copied <= tmpl.pay.localMtu
    <2> DEFINE p == GeneratedFrom(tmpl)
    <2>1. p.copied = PayFillLen(tmpl.pay) /\ p.copied \in Nat
      BY <1>1, PayLens, SizeNat DEF GeneratedFrom, IInv, Ready, Template
    <2>2. p.len = EthHdr + IpHdr + TcpHdr + p.copied
      BY <1>1, FitExact DEF IInv
    <2>3. /\ EthHdr + IpHdr + TcpHdr + p.copied <= tmpl.eth.localMtu
          /\ IpHdr + TcpHdr + p.copied <= tmpl.ip.localMtu
          /\ TcpHdr + p.copied <= tmpl.tcp.localMtu
          /\ p.copied <= tmpl.pay.localMtu
      BY <1>1, <2>1, MtuRoom DEF IInv
    <2>4. tmpl.eth.localMtu \in Nat /\ tmpl.ip.localMtu \in Nat /\ tmpl.tcp.localMtu \in Nat
      BY <1>1, SizeNat DEF IInv, Ready, Template, Eth, Ip, Tcp
    <2> HIDE DEF p
    <2>5. /\ p.len <= tmpl.eth.localMtu
          /\ p.len - EthHdr <= tmpl.ip.localMtu
          /\ p.len - EthHdr - IpHdr <= tmpl.tcp.localMtu
          /\ p.copied <= tmpl.pay.localMtu
      BY <2>1, <2>2, <2>3, <2>4, ConstAssumption
    <2> QED BY <2>5 DEF p
  <1>2. IInv => MtuRespected
    BY <1>1 DEF MtuRespected
  <1> QED BY <1>2, Invariance, PTL

\* A retransmission is the packet it retransmits, with another IPv4 id.
THEOREM Retransmits == Spec => RetransmissionRepeats
  <1> DEFINE u == [tmpl EXCEPT !.ip = NextIp(tmpl.ip)]
  <1>1. ASSUME IInv, Retransmission
        PROVE  GeneratedFrom(tmpl') = [GeneratedFrom(tmpl) EXCEPT !.id = NextId(tmpl.ip)]
    <2>1. /\ tmpl \in Template /\ tmpl.ip \in Ip /\ NextIp(tmpl.ip) \in Ip
          /\ u \in Template /\ Ready(u)
      BY <1>1, EditedHeaders DEF IInv, Ready, Template
    <2>2. /\ u.eth = tmpl.eth /\ u.tcp = tmpl.tcp /\ u.pay = tmpl.pay
          /\ u.ip = NextIp(tmpl.ip) /\ u.ip.id = NextId(tmpl.ip)
          /\ u.ip.localMtu = tmpl.ip.localMtu /\ u.ip.outerMtu = tmpl.ip.outerMtu
          /\ u.ip.lenField = tmpl.ip.lenField
      BY <2>1 DEF Template, Ip, NextIp
    <2>3. tmpl' = Propagate(u)
      BY <1>1 DEF Retransmission, RetransmissionOf
    <2> HIDE DEF u
    <2>4. GetMtu(u.ip) = GetMtu(tmpl.ip) /\ IpPayloadLength(u.ip) = IpPayloadLength(tmpl.ip)
      BY <2>2 DEF GetMtu, IpPayloadLength
    <2>5. Settled(u)
      BY <1>1, <2>2, <2>4 DEF IInv, Settled
    <2>6. tmpl' = u
      BY <2>1, <2>3, <2>5, PropagateSettles, SettledUnique DEF Ready
    <2> QED BY <2>2, <2>6 DEF GeneratedFrom
  <1>2. IInv /\ [Next]_tmpl =>
          [Retransmission =>
             GeneratedFrom(tmpl') = [GeneratedFrom(tmpl) EXCEPT !.id = NextId(tmpl.ip)]]_tmpl
    BY <1>1
  <1> QED BY <1>2, Invariance, PTL DEF Spec, RetransmissionRepeats
-----------------------------------------------------------------------------
(* The template implements ByteStream.                                     *)

\* The part of a template that the byte stream sees, after an edit u was
\* propagated: the edit itself, and some segment of the bytes that are left.
LEMMA VisibleAfter ==
  ASSUME NEW u, Ready(u), tmpl' = Propagate(u)
  PROVE  /\ tmpl'.pay.size = u.pay.size
         /\ tmpl'.pay.payloadIndex = u.pay.payloadIndex
         /\ tmpl'.tcp.seq = u.tcp.seq
         /\ PayFillLen(tmpl'.pay) \in 0..(tmpl'.pay.size - tmpl'.pay.payloadIndex)
  <1>1. Ready(tmpl') /\ SameEdits(u, tmpl')
    BY PropagateSettles
  <1>2. tmpl'.pay \in Pay
    BY <1>1 DEF Ready, Template
  <1>3. tmpl'.pay.size \in Nat /\ tmpl'.pay.payloadIndex \in Nat
    BY <1>2, ConstAssumption DEF Pay
  <1> QED BY <1>1, <1>2, <1>3, PayLens DEF SameEdits

\* The segment depends on the MTUs and on the payload alone.
LEMMA SameSegment ==
  ASSUME NEW t, NEW u, Ready(t), Ready(u), Settled(t), Settled(u),
         u.eth.localMtu = t.eth.localMtu, u.eth.outerMtu = t.eth.outerMtu,
         u.ip.localMtu = t.ip.localMtu, u.tcp.localMtu = t.tcp.localMtu,
         u.pay.localMtu = t.pay.localMtu,
         u.pay.size = t.pay.size, u.pay.payloadIndex = t.pay.payloadIndex
  PROVE  PayFillLen(u.pay) = PayFillLen(t.pay)
  <1>1. u.ip.outerMtu = t.ip.outerMtu
    BY DEF Settled, GetMtu
  <1>2. u.tcp.outerMtu = t.tcp.outerMtu
    BY <1>1 DEF Settled, GetMtu
  <1>3. u.pay.outerMtu = t.pay.outerMtu
    BY <1>2 DEF Settled, GetMtu
  <1> QED BY <1>3 DEF PayFillLen, PayGetLen, GetMtu

LEMMA StepRefines ==
  ASSUME IInv, Next
  PROVE  Stream!Next
  <1>0. /\ Ready(tmpl) /\ tmpl \in Template
        /\ tmpl.eth \in Eth /\ tmpl.ip \in Ip /\ tmpl.tcp \in Tcp /\ tmpl.pay \in Pay
    BY DEF IInv, Ready, Template
  <1>1. CASE NextSegment
    <2> DEFINE u == [tmpl EXCEPT !.ip = NextIp(tmpl.ip), !.tcp = NextTcp(tmpl.tcp),
                                 !.pay = NextPay(tmpl.pay)]
    <2>1. Ready(u) /\ tmpl' = Propagate(u)
      BY <1>0, <1>1, EditedHeaders DEF Ready, Template, NextSegment, NextTemplate
    <2>2. u.tcp = NextTcp(tmpl.tcp) /\ u.pay = NextPay(tmpl.pay)
      BY <1>0 DEF Template
    <2>3. u.tcp.seq = (tmpl.tcp.seq + PayFillLen(tmpl.pay)) % SeqMod
      BY <1>0, <2>2, SegmentSize DEF NextTcp, Tcp, IInv
    <2>4. u.pay.payloadIndex = tmpl.pay.payloadIndex + PayFillLen(tmpl.pay)
          /\ u.pay.size = tmpl.pay.size
      <3>1. NextPay(tmpl.pay) = [tmpl.pay EXCEPT !.payloadIndex = @ + PayFillLen(tmpl.pay)]
        BY <1>0, EditedHeaders
      <3> HIDE DEF u
      <3> QED BY <1>0, <2>2, <3>1 DEF Pay
    <2> HIDE DEF u
    <2>5. Stream!Advance
      BY <2>1, <2>3, <2>4, VisibleAfter DEF Stream!Advance, Stream!Resegment
    <2> QED BY <2>5 DEF Stream!Next
  <1>2. CASE Retransmission
    <2> DEFINE u == [tmpl EXCEPT !.ip = NextIp(tmpl.ip)]
    <2>1. Ready(u) /\ tmpl' = Propagate(u)
      BY <1>0, <1>2, EditedHeaders DEF Ready, Template, Retransmission, RetransmissionOf
    <2>2. u.tcp = tmpl.tcp /\ u.pay = tmpl.pay
      BY <1>0 DEF Template
    <2> HIDE DEF u
    <2>3. Stream!Repack
      BY <2>1, <2>2, VisibleAfter DEF Stream!Repack, Stream!Resegment
    <2> QED BY <2>3 DEF Stream!Next
  <1>3. ASSUME NEW m \in Mtus.eth, WithEthMtu(m) PROVE Stream!Next
    <2> DEFINE u == [tmpl EXCEPT !.eth.localMtu = m]
    <2>1. [tmpl.eth EXCEPT !.localMtu = m] \in Eth
          /\ [tmpl.eth EXCEPT !.localMtu = m].outerMtu = DefaultMtu
      BY <1>0, ConstAssumption DEF Eth, Size, Ready
    <2>2. Ready(u) /\ tmpl' = Propagate(u) /\ u.tcp = tmpl.tcp /\ u.pay = tmpl.pay
      BY <1>0, <1>3, <2>1 DEF Ready, Template, WithEthMtu
    <2> HIDE DEF u
    <2>3. Stream!Repack
      BY <2>2, VisibleAfter DEF Stream!Repack, Stream!Resegment
    <2> QED BY <2>3 DEF Stream!Next
  <1>4. ASSUME NEW m \in Mtus.ip, WithIpMtu(m) PROVE Stream!Next
    <2> DEFINE u == [tmpl EXCEPT !.ip.localMtu = m]
    <2>1. [tmpl.ip EXCEPT !.localMtu = m] \in Ip
      BY <1>0, ConstAssumption DEF Ip, Size
    <2>2. Ready(u) /\ tmpl' = Propagate(u) /\ u.tcp = tmpl.tcp /\ u.pay = tmpl.pay
      BY <1>0, <1>4, <2>1 DEF Ready, Template, WithIpMtu
    <2> HIDE DEF u
    <2>3. Stream!Repack
      BY <2>2, VisibleAfter DEF Stream!Repack, Stream!Resegment
    <2> QED BY <2>3 DEF Stream!Next
  <1>5. ASSUME NEW m \in Mtus.tcp, WithTcpMtu(m) PROVE Stream!Next
    <2> DEFINE h == [tmpl.tcp EXCEPT !.localMtu = m]
               u == [tmpl EXCEPT !.tcp.localMtu = m]
    <2>1. h \in Tcp /\ h.seq = tmpl.tcp.seq
      BY <1>0, ConstAssumption DEF Tcp, Size
    <2>2. Ready(u) /\ tmpl' = Propagate(u) /\ u.tcp = h /\ u.pay = tmpl.pay
      BY <1>0, <1>5, <2>1 DEF Ready, Template, WithTcpMtu
    <2> HIDE DEF u, h
    <2>3. Stream!Repack
      BY <2>1, <2>2, VisibleAfter DEF Stream!Repack, Stream!Resegment
    <2> QED BY <2>3 DEF Stream!Next
  <1>6. ASSUME NEW m \in Mtus.pay, WithPayMtu(m) PROVE Stream!Next
    <2> DEFINE p == [tmpl.pay EXCEPT !.localMtu = m]
               u == [tmpl EXCEPT !.pay.localMtu = m]
    <2>1. p \in Pay /\ p.size = tmpl.pay.size /\ p.payloadIndex = tmpl.pay.payloadIndex
      BY <1>0, ConstAssumption DEF Pay, Size
    <2>2. Ready(u) /\ tmpl' = Propagate(u) /\ u.tcp = tmpl.tcp /\ u.pay = p
      BY <1>0, <1>6, <2>1 DEF Ready, Template, WithPayMtu
    <2> HIDE DEF u, p
    <2>3. Stream!Repack
      BY <2>1, <2>2, VisibleAfter DEF Stream!Repack, Stream!Resegment
    <2> QED BY <2>3 DEF Stream!Next
  <1>7. ASSUME NEW s \in Seqs, WithSeq(s) PROVE Stream!Next
    <2> DEFINE h == [tmpl.tcp EXCEPT !.seq = s]
               u == [tmpl EXCEPT !.tcp.seq = s]
    <2>1. h \in Tcp /\ h.seq = s /\ s \in 0..(SeqMod - 1)
      BY <1>0, ConstAssumption DEF Tcp
    <2>2. Ready(u) /\ tmpl' = Propagate(u) /\ u.tcp = h /\ u.pay = tmpl.pay
      BY <1>0, <1>7, <2>1 DEF Ready, Template, WithSeq
    <2> HIDE DEF u, h
    <2>3. Ready(tmpl') /\ SameEdits(u, tmpl') /\ Settled(tmpl')
      BY <2>2, PropagateSettles
    <2>4. tmpl'.pay.size = tmpl.pay.size /\ tmpl'.pay.payloadIndex = tmpl.pay.payloadIndex
      BY <2>2, VisibleAfter
    <2>5. PayFillLen(tmpl'.pay) = PayFillLen(tmpl.pay)
      <3>1. /\ tmpl'.eth.localMtu = tmpl.eth.localMtu /\ tmpl'.eth.outerMtu = tmpl.eth.outerMtu
            /\ tmpl'.ip.localMtu = tmpl.ip.localMtu /\ tmpl'.tcp.localMtu = tmpl.tcp.localMtu
            /\ tmpl'.pay.localMtu = tmpl.pay.localMtu
        <4>1. /\ u.eth = tmpl.eth /\ u.ip = tmpl.ip /\ u.pay = tmpl.pay
              /\ u.tcp.localMtu = tmpl.tcp.localMtu
          BY <1>0 DEF u, Template, Tcp
        <4> QED BY <2>3, <4>1 DEF SameEdits
      <3> QED BY <2>3, <2>4, <3>1, SameSegment DEF IInv
    <2>6. Stream!Seek
      BY <2>1, <2>2, <2>4, <2>5, VisibleAfter DEF Stream!Seek
    <2> QED BY <2>6 DEF Stream!Next
  <1>8. ASSUME NEW n \in 0..MaxPayload, WithPayload(n) PROVE Stream!Next
    <2> DEFINE u == [tmpl EXCEPT !.pay = ReplaceBytes(@, n)]
    <2>1. ReplaceBytes(tmpl.pay, n) \in Pay
      BY <1>0, ReplaceType
    <2>2. ReplaceBytes(tmpl.pay, n).size = n /\ ReplaceBytes(tmpl.pay, n).payloadIndex = 0
      BY <1>0 DEF ReplaceBytes, Pay
    <2>3. Ready(u) /\ tmpl' = Propagate(u) /\ u.tcp = tmpl.tcp
          /\ u.pay = ReplaceBytes(tmpl.pay, n)
      BY <1>0, <1>8, <2>1 DEF Ready, Template, WithPayload
    <2> HIDE DEF u
    <2>4. Stream!Replace
      BY <2>2, <2>3, VisibleAfter DEF Stream!Replace, Stream!Resegment
    <2> QED BY <2>4 DEF Stream!Next
  <1>9. ASSUME NEW n \in 0..MaxPayload, WithAppend(n) PROVE Stream!Next
    <2> DEFINE p == [tmpl.pay EXCEPT !.size = @ + n]
               u == [tmpl EXCEPT !.pay.size = @ + n]
    <2>1. /\ p \in Pay /\ p.size \in tmpl.pay.size..MaxPayload
          /\ p.payloadIndex = tmpl.pay.payloadIndex
      BY <1>0, <1>9, ConstAssumption DEF Pay, WithAppend
    <2>2. Ready(u) /\ tmpl' = Propagate(u) /\ u.tcp = tmpl.tcp /\ u.pay = p
      BY <1>0, <1>9, <2>1 DEF Ready, Template, WithAppend
    <2> HIDE DEF u, p
    <2>3. Stream!Extend
      BY <2>1, <2>2, VisibleAfter DEF Stream!Extend, Stream!Resegment
    <2> QED BY <2>3 DEF Stream!Next
  <1>10. ASSUME NEW n \in 0..MaxPayload, WithLength(n) PROVE Stream!Next
    <2> DEFINE u == [tmpl EXCEPT !.pay = SetLength(@, n)]
    <2>1. n \in 0..tmpl.pay.size /\ tmpl.pay.payloadIndex \in Nat
      BY <1>0, <1>10, ConstAssumption DEF WithLength, Pay
    <2>2. /\ SetLength(tmpl.pay, n).size = n
          /\ SetLength(tmpl.pay, n).payloadIndex =
               IF n < tmpl.pay.payloadIndex THEN n ELSE tmpl.pay.payloadIndex
      BY <1>0, <2>1 DEF SetLength, Least, Pay
    <2>3. Ready(u) /\ tmpl' = Propagate(u) /\ u.tcp = tmpl.tcp /\ u.pay = SetLength(tmpl.pay, n)
      BY <1>0, <1>10, <2>1, EditedHeaders DEF Ready, Template, WithLength
    <2> HIDE DEF u
    <2>4. Stream!Truncate
      BY <2>1, <2>2, <2>3, VisibleAfter DEF Stream!Truncate, Stream!Resegment
    <2> QED BY <2>4 DEF Stream!Next
  <1> QED
    BY <1>1, <1>2, <1>3, <1>4, <1>5, <1>6, <1>7, <1>8, <1>9, <1>10
    DEF Next, SetMtu, SetPayload, SetSeq

\* Every step of the template is a step of the byte stream or a stutter.
THEOREM Refinement == Spec => ImplementsByteStream
  <1>1. Init => Stream!Init
    <2> SUFFICES ASSUME NEW n \in 0..MaxPayload, NEW s \in Seqs, tmpl = NewTemplate(n, s)
                 PROVE  Stream!Init
      BY DEF Init
    <2>1. Ready(tmpl) /\ tmpl.pay \in Pay
      BY NewTemplateSettled DEF Ready, Template
    <2>2. tmpl.pay.size = n /\ tmpl.pay.payloadIndex = 0 /\ tmpl.tcp.seq = s
      BY NewTemplateSettled
    <2>3. PayFillLen(tmpl.pay) \in 0..n
      BY <2>1, <2>2, PayLens, ConstAssumption
    <2> QED BY <2>2, <2>3, ConstAssumption DEF Stream!Init
  <1>2. IInv /\ [Next]_tmpl => [Stream!Next]_Stream!vars
    <2>1. CASE Next
      BY <2>1, StepRefines
    <2>2. CASE UNCHANGED tmpl
      BY <2>2 DEF Stream!vars
    <2> QED BY <2>1, <2>2
  <1> QED BY <1>1, <1>2, Invariance, PTL DEF Spec, ImplementsByteStream, Stream!Spec
-----------------------------------------------------------------------------
(* The template implements Stack: it is a stack of four headers. The       *)
(* recursive propagations of a four-header stack are unfolded first.       *)

\* The MTUs of a four-header stack: each header gets what its neighbour leaves.
LEMMA FourInwards ==
  ASSUME NEW a, NEW b, NEW c, NEW d
  PROVE  LET In(h, outer) == [h EXCEPT !.outerMtu =
                               AsStack!Wrap(AsStack!GetMtu(outer) - AsStack!GetLen(outer))]
             b1 == In(b, a)
             c1 == In(c, b1)
         IN  AsStack!PropagateInwards(<<a, b, c, d>>) = <<a, b1, c1, In(d, c1)>>
  <1> DEFINE In(h, outer) == [h EXCEPT !.outerMtu =
                               AsStack!Wrap(AsStack!GetMtu(outer) - AsStack!GetLen(outer))]
             b1 == In(b, a)
             c1 == In(c, b1)
             d1 == In(d, c1)
             s == <<a, b, c, d>>
             t == <<a, b1, c1, d1>>
             F(f) == [i \in DOMAIN s |->
                        IF i = 1 THEN s[1]
                        ELSE LET outer == f[i - 1]
                             IN  [s[i] EXCEPT !.outerMtu =
                                    AsStack!Wrap(AsStack!GetMtu(outer) - AsStack!GetLen(outer))]]
             inward == CHOOSE f : f = F(f)
  <1>1. /\ DOMAIN s = 1..4 /\ s[1] = a /\ s[2] = b /\ s[3] = c /\ s[4] = d
        /\ DOMAIN t = 1..4 /\ t[1] = a /\ t[2] = b1 /\ t[3] = c1 /\ t[4] = d1
        /\ t = [i \in 1..4 |-> t[i]]
        /\ \A i \in 1..4 : i = 1 \/ i = 2 \/ i = 3 \/ i = 4
    OBVIOUS
  <1> HIDE DEF s, t
  <1>2. \A f : F(f) = [i \in 1..4 |-> IF i = 1 THEN a ELSE In(s[i], f[i - 1])]
    BY <1>1, Zenon
  <1> HIDE DEF F, In
  <1>3. t = F(t)
    <2>1. \A i \in 1..4 : t[i] = IF i = 1 THEN a ELSE In(s[i], t[i - 1])
      BY <1>1
    <2> QED BY <1>1, <1>2, <2>1
  <1>4. inward = F(inward)
    BY <1>3
  <1>5. AsStack!PropagateInwards(s) = [i \in 1..4 |-> inward[i]]
    BY <1>1 DEF AsStack!PropagateInwards, F
  <1> HIDE DEF inward
  <1>6. inward[1] = a /\ inward[2] = b1 /\ inward[3] = c1 /\ inward[4] = d1
    BY <1>2, <1>4, <1>1
  <1>7. \A i \in 1..4 : inward[i] = t[i]
    BY <1>1, <1>6
  <1>8. [i \in 1..4 |-> inward[i]] = t
    BY <1>1, <1>7
  <1> QED BY <1>5, <1>8 DEF s, t, In

\* The lengths of a four-header stack, from the innermost outwards.
LEMMA FourOutwards ==
  ASSUME NEW a, NEW b, NEW c, NEW d
  PROVE  LET c1 == AsStack!Encapsulates(c, d)
             b1 == AsStack!Encapsulates(b, c1)
         IN  AsStack!PropagateOutwards(<<a, b, c, d>>)
               = <<AsStack!Encapsulates(a, b1), b1, c1, d>>
  <1> DEFINE c1 == AsStack!Encapsulates(c, d)
             b1 == AsStack!Encapsulates(b, c1)
             a1 == AsStack!Encapsulates(a, b1)
             s == <<a, b, c, d>>
             t == <<a1, b1, c1, d>>
             F(f) == [i \in DOMAIN s |->
                        IF i = Len(s) THEN s[i] ELSE AsStack!Encapsulates(s[i], f[i + 1])]
             outward == CHOOSE f : f = F(f)
  <1>1. /\ DOMAIN s = 1..4 /\ Len(s) = 4 /\ s[1] = a /\ s[2] = b /\ s[3] = c /\ s[4] = d
        /\ DOMAIN t = 1..4 /\ t[1] = a1 /\ t[2] = b1 /\ t[3] = c1 /\ t[4] = d
        /\ t = [i \in 1..4 |-> t[i]]
        /\ \A i \in 1..4 : i = 1 \/ i = 2 \/ i = 3 \/ i = 4
    OBVIOUS
  <1>2. AsStack!PropagateOutwards(s) = [i \in 1..4 |-> outward[i]]
    BY <1>1 DEF AsStack!PropagateOutwards
  <1> HIDE DEF s, t
  <1>3. \A f : F(f) = [i \in 1..4 |-> IF i = 4 THEN d ELSE AsStack!Encapsulates(s[i], f[i + 1])]
    BY <1>1
  <1> HIDE DEF F
  <1>4. t = F(t)
    <2>1. \A i \in 1..4 : t[i] = IF i = 4 THEN d ELSE AsStack!Encapsulates(s[i], t[i + 1])
      BY <1>1
    <2> QED BY <1>1, <1>3, <2>1
  <1>5. outward = F(outward)
    BY <1>4
  <1> HIDE DEF outward
  <1>6. outward[4] = d /\ outward[3] = c1 /\ outward[2] = b1 /\ outward[1] = a1
    BY <1>1, <1>3, <1>5
  <1>7. \A i \in 1..4 : outward[i] = t[i]
    BY <1>1, <1>6
  <1>8. [i \in 1..4 |-> outward[i]] = t
    BY <1>1, <1>7
  <1> QED BY <1>2, <1>8 DEF s, t

\* In a stack of four headers of as many layers the first one of the layer at p is
\* the one at p, and there is no other.
LEMMA FourLayers ==
  ASSUME NEW s, Len(s) = 4, DOMAIN s = 1..4, NEW p \in 1..4,
         \A i, j \in 1..4 : AsStack!LayerOf[s[i].kind] = AsStack!LayerOf[s[j].kind] => i = j
  PROVE  LET layer == AsStack!LayerOf[s[p].kind]
         IN  AsStack!FindLayer(s, layer, 1) = p /\ 1 \in AsStack!Nestings(s, layer)
  <1> DEFINE layer == AsStack!LayerOf[s[p].kind]
             L == {i \in DOMAIN s : AsStack!LayerOf[s[i].kind] = layer}
             F(f) == [i \in 1..(Len(s) + 1) |->
                        [k \in 1..1 |->
                          IF i > Len(s) THEN 0
                          ELSE IF AsStack!LayerOf[s[i].kind] # layer THEN f[i + 1][k] + 1
                          ELSE IF k > 1 THEN f[i + 1][k - 1] + 1 ELSE 0]]
             find == CHOOSE f : f = F(f)
             g == [i \in 1..5 |-> [k \in 1..1 |-> IF i <= p THEN p - i ELSE 5 - i]]
  <1>1. L = {p}
    OBVIOUS
  <1>2. AsStack!CountLayers(s, layer) = 1
    <2>1. AsStack!CountLayers(s, layer) = Cardinality(L)
      BY DEF AsStack!CountLayers, AsStack!Cardinality, Cardinality
    <2> HIDE DEF L
    <2> QED BY <1>1, <2>1, FS_Singleton
  <1>3. 1 \in AsStack!Nestings(s, layer)
    BY <1>2 DEF AsStack!Nestings
  <1>4. AsStack!FindLayer(s, layer, 1) = find[1][1] + 1
    BY DEF AsStack!FindLayer, AsStack!FindLayerFromOuter
  <1>5. \A i \in 1..4 : AsStack!LayerOf[s[i].kind] = layer <=> i = p
    OBVIOUS
  <1> HIDE DEF layer
  <1>6. \A f : F(f) = [i \in 1..5 |-> [k \in 1..1 |-> IF i > 4 THEN 0
                                        ELSE IF i # p THEN f[i + 1][1] + 1 ELSE 0]]
    BY <1>5
  <1> HIDE DEF F
  <1>7. g = F(g)
    <2>1. \A i \in 1..5 : g[i] = [k \in 1..1 |-> IF i > 4 THEN 0
                                                 ELSE IF i # p THEN g[i + 1][1] + 1 ELSE 0]
      OBVIOUS
    <2>2. g = [i \in 1..5 |-> g[i]]
      OBVIOUS
    <2> HIDE DEF g
    <2>3. F(g) = [i \in 1..5 |-> [k \in 1..1 |-> IF i > 4 THEN 0
                                    ELSE IF i # p THEN g[i + 1][1] + 1 ELSE 0]]
      BY <1>6, Zenon
    <2>4. [i \in 1..5 |-> g[i]] = F(g)
      BY <2>1, <2>3
    <2> QED BY <2>2, <2>4
  <1>8. find = F(find)
    BY <1>7
  <1> HIDE DEF find, g
  <1>9. \A i \in 1..5 : find[i][1] = IF i > 4 THEN 0 ELSE IF i # p THEN find[i + 1][1] + 1 ELSE 0
    <2>1. find = [i \in 1..5 |-> [k \in 1..1 |-> IF i > 4 THEN 0
                                    ELSE IF i # p THEN find[i + 1][1] + 1 ELSE 0]]
      BY <1>6, <1>8, Zenon
    <2>2. TAKE i \in 1..5
    <2>3. find[i] = [k \in 1..1 |-> IF i > 4 THEN 0
                                    ELSE IF i # p THEN find[i + 1][1] + 1 ELSE 0]
      BY <2>1, Zenon
    <2> QED BY <2>3
  <1>10. find[1][1] = p - 1
    <2>1. 1 \in 1..5 /\ 2 \in 1..5 /\ 3 \in 1..5 /\ 4 \in 1..5
      OBVIOUS
    <2> QED BY <1>9, <2>1
  <1> QED BY <1>3, <1>4, <1>10 DEF layer

\* The kind of the L3 header, and a header as Stack sees it.
Ver == IF Ipv6 THEN "ip6" ELSE "ip4"

HeaderOf(k, h, len, type) ==
  [kind |-> k, localMtu |-> h.localMtu, outerMtu |-> h.outerMtu, len |-> len, type |-> type]

\* A template as a stack whose Ethernet and IP headers name the types x and y.
Abs(t, x, y) ==
  << HeaderOf("eth", t.eth, t.eth.payloadLength, x),
     HeaderOf(Ver, t.ip, t.ip.lenField, y),
     HeaderOf("tcp", t.tcp, t.tcp.payloadLength, "none"),
     HeaderOf("pay", t.pay, t.pay.size - t.pay.payloadIndex, "none") >>

\* What Stack computes of one header is what this module computes of it.
LEMMA HeaderMtu ==
  ASSUME NEW k, NEW h, NEW len, NEW type
  PROVE  AsStack!GetMtu(HeaderOf(k, h, len, type)) = GetMtu(h)
  BY DEF AsStack!GetMtu, AsStack!Least, HeaderOf, GetMtu, Least

\* The two values of Ver.
LEMMA VerIs == /\ Ver \in {"ip4", "ip6"}
               /\ Ipv6 => Ver = "ip6"
               /\ ~Ipv6 => Ver = "ip4"
  BY ConstAssumption DEF Ver

\* The sizes of the headers, and the bytes the payload offers.
LEMMA HeaderLens ==
  ASSUME NEW h, NEW len, NEW type
  PROVE  /\ AsStack!GetLen(HeaderOf("eth", h, len, type)) = EthHdr
         /\ AsStack!GetLen(HeaderOf(Ver, h, len, type)) = IpHdr
         /\ AsStack!GetLen(HeaderOf("tcp", h, len, type)) = TcpHdr
         /\ AsStack!GetLen(HeaderOf("pay", h, len, type)) = Least(len, h.localMtu)
  <1>1. \A k : /\ HeaderOf(k, h, len, type).kind = k
               /\ HeaderOf(k, h, len, type).len = len
               /\ HeaderOf(k, h, len, type).localMtu = h.localMtu
    BY DEF HeaderOf
  <1>2. \A e : e.kind = "eth" => AsStack!GetLen(e) = EthHdr
    BY DEF AsStack!GetLen
  <1>3. \A e : e.kind = "ip4" \/ e.kind = "ip6" => AsStack!GetLen(e) = IpHdr
    BY DEF AsStack!GetLen
  <1>4. \A e : e.kind = "tcp" => AsStack!GetLen(e) = TcpHdr
    BY DEF AsStack!GetLen
  <1>5. \A e : e.kind = "pay" => AsStack!GetLen(e) = Least(e.len, e.localMtu)
    BY DEF AsStack!GetLen, AsStack!Least, Least
  <1> QED BY <1>1, <1>2, <1>3, <1>4, <1>5, VerIs

\* The payload lengths that the headers announce.
LEMMA HeaderPayloads ==
  ASSUME NEW h, NEW type
  PROVE  /\ AsStack!GetPayloadLength(HeaderOf(Ver, h, h.lenField, type)) = IpPayloadLength(h)
         /\ AsStack!GetPayloadLength(HeaderOf("tcp", h, h.payloadLength, type))
              = TcpPayloadLength(h)
         /\ \A len : AsStack!GetPayloadLength(HeaderOf("pay", h, len, type)) = 0
  <1>1. AsStack!GetPayloadLength(HeaderOf(Ver, h, h.lenField, type)) = IpPayloadLength(h)
    <2> DEFINE e == HeaderOf(Ver, h, h.lenField, type)
    <2>1. e.kind = Ver /\ e.len = h.lenField /\ AsStack!GetLen(e) = IpHdr
      BY HeaderLens DEF HeaderOf
    <2> HIDE DEF e
    <2>2. ASSUME Ipv6 PROVE AsStack!GetPayloadLength(e) = IpPayloadLength(h)
      <3>1. e.kind = "ip6" /\ IpPayloadLength(h) = h.lenField
        BY <2>1, <2>2, VerIs DEF IpPayloadLength
      <3> QED BY <2>1, <3>1 DEF AsStack!GetPayloadLength
    <2>3. ASSUME ~Ipv6 PROVE AsStack!GetPayloadLength(e) = IpPayloadLength(h)
      <3>1. e.kind = "ip4" /\ IpPayloadLength(h) = Wrap(h.lenField - IpHdr)
        BY <2>1, <2>3, VerIs DEF IpPayloadLength
      <3> QED BY <2>1, <3>1 DEF AsStack!GetPayloadLength, AsStack!Wrap, Wrap
    <2> QED BY <2>2, <2>3 DEF e
  <1>2. AsStack!GetPayloadLength(HeaderOf("tcp", h, h.payloadLength, type)) = TcpPayloadLength(h)
    <2> DEFINE e == HeaderOf("tcp", h, h.payloadLength, type)
    <2>1. /\ e.kind = "tcp" /\ e.len = h.payloadLength /\ AsStack!GetLen(e) = TcpHdr
          /\ AsStack!GetMtu(e) = GetMtu(h)
      BY HeaderLens, HeaderMtu DEF HeaderOf
    <2> HIDE DEF e
    <2>2. AsStack!GetPayloadLength(e)
            = AsStack!Least(AsStack!Wrap(AsStack!GetMtu(e) - AsStack!GetLen(e)), e.len)
      BY <2>1 DEF AsStack!GetPayloadLength
    <2>3. \A m, n : AsStack!Least(m, n) = Least(m, n) /\ AsStack!Wrap(m) = Wrap(m)
      BY DEF AsStack!Least, AsStack!Wrap, Least, Wrap
    <2> QED BY <2>1, <2>2, <2>3 DEF TcpPayloadLength, e
  <1>3. ASSUME NEW len PROVE AsStack!GetPayloadLength(HeaderOf("pay", h, len, type)) = 0
    BY DEF AsStack!GetPayloadLength, HeaderOf
  <1> QED BY <1>1, <1>2, <1>3

\* The MTUs flow inwards as they do here.
LEMMA AbsInwards ==
  ASSUME NEW e \in Template, NEW x, NEW y
  PROVE  AsStack!PropagateInwards(Abs(e, x, y)) = Abs(PropagateInwards(e), x, y)
  <1> DEFINE u == PropagateInwards(e)
             ipMtu  == Wrap(GetMtu(e.eth) - EthHdr)
             tcpMtu == Wrap(Least(e.ip.localMtu, ipMtu) - IpHdr)
             payMtu == Wrap(Least(e.tcp.localMtu, tcpMtu) - TcpHdr)
             a == HeaderOf("eth", e.eth, e.eth.payloadLength, x)
             b == HeaderOf(Ver, e.ip, e.ip.lenField, y)
             c == HeaderOf("tcp", e.tcp, e.tcp.payloadLength, "none")
             d == HeaderOf("pay", e.pay, e.pay.size - e.pay.payloadIndex, "none")
             b1 == HeaderOf(Ver, u.ip, u.ip.lenField, y)
             c1 == HeaderOf("tcp", u.tcp, u.tcp.payloadLength, "none")
             d1 == HeaderOf("pay", u.pay, u.pay.size - u.pay.payloadIndex, "none")
             In(h, outer) == [h EXCEPT !.outerMtu =
                               AsStack!Wrap(AsStack!GetMtu(outer) - AsStack!GetLen(outer))]
  <1>0. e.eth \in Eth /\ e.ip \in Ip /\ e.tcp \in Tcp /\ e.pay \in Pay
    BY DEF Template
  <1>1. /\ u.eth = e.eth
        /\ u.ip = [e.ip EXCEPT !.outerMtu = ipMtu]
        /\ u.tcp = [e.tcp EXCEPT !.outerMtu = tcpMtu]
        /\ u.pay = [e.pay EXCEPT !.outerMtu = payMtu]
    BY <1>0 DEF Template, PropagateInwards
  <1> HIDE DEF u
  <1>2. AsStack!GetMtu(a) = GetMtu(e.eth) /\ AsStack!GetLen(a) = EthHdr
    BY HeaderMtu, HeaderLens
  <1>3. In(b, a) = b1
    <2>1. AsStack!Wrap(AsStack!GetMtu(a) - AsStack!GetLen(a)) = ipMtu
      BY <1>2 DEF AsStack!Wrap, Wrap
    <2> HIDE DEF a, ipMtu
    <2> QED BY <1>0, <1>1, <2>1 DEF HeaderOf, Ip
  <1>4. AsStack!GetMtu(b1) = GetMtu(u.ip) /\ AsStack!GetLen(b1) = IpHdr
    BY HeaderMtu, HeaderLens
  <1>5. In(c, b1) = c1
    <2>1. GetMtu(u.ip) = Least(e.ip.localMtu, ipMtu)
      <3> HIDE DEF ipMtu
      <3> QED BY <1>0, <1>1 DEF GetMtu, Ip
    <2>2. AsStack!Wrap(AsStack!GetMtu(b1) - AsStack!GetLen(b1)) = tcpMtu
      BY <1>4, <2>1 DEF AsStack!Wrap, Wrap
    <2> HIDE DEF b1, tcpMtu
    <2> QED BY <1>0, <1>1, <2>2 DEF HeaderOf, Tcp
  <1>6. AsStack!GetMtu(c1) = GetMtu(u.tcp) /\ AsStack!GetLen(c1) = TcpHdr
    BY HeaderMtu, HeaderLens
  <1>7. In(d, c1) = d1
    <2>1. GetMtu(u.tcp) = Least(e.tcp.localMtu, tcpMtu)
      <3> HIDE DEF tcpMtu
      <3> QED BY <1>0, <1>1 DEF GetMtu, Tcp
    <2>2. AsStack!Wrap(AsStack!GetMtu(c1) - AsStack!GetLen(c1)) = payMtu
      BY <1>6, <2>1 DEF AsStack!Wrap, Wrap
    <2> HIDE DEF c1, payMtu
    <2> QED BY <1>0, <1>1, <2>2 DEF HeaderOf, Pay
  <1>8. AsStack!PropagateInwards(<<a, b, c, d>>)
          = <<a, In(b, a), In(c, In(b, a)), In(d, In(c, In(b, a)))>>
    <2> HIDE DEF a, b, c, d
    <2> QED BY FourInwards
  <1> HIDE DEF In
  <1>9. AsStack!PropagateInwards(<<a, b, c, d>>) = <<a, b1, c1, d1>>
    <2> HIDE DEF a, b, c, d, b1, c1, d1
    <2> QED BY <1>3, <1>5, <1>7, <1>8
  <1>10. Abs(e, x, y) = <<a, b, c, d>>
    BY DEF Abs
  <1>11. Abs(u, x, y) = <<a, b1, c1, d1>>
    BY <1>1 DEF Abs
  <1> QED BY <1>9, <1>10, <1>11 DEF u

\* What a header is told by the one inside it.
LEMMA Told ==
  ASSUME NEW h, NEW len, NEW type, NEW inner, NEW n,
         AsStack!Wrap(AsStack!GetLen(inner) + AsStack!GetPayloadLength(inner)) = n
  PROVE  /\ inner.kind = "pay" =>
              AsStack!Encapsulates(HeaderOf("tcp", h, len, type), inner)
                = HeaderOf("tcp", h, n, type)
         /\ inner.kind = "tcp" =>
              AsStack!Encapsulates(HeaderOf(Ver, h, len, type), inner)
                = HeaderOf(Ver, h, IpLenField(n), "tcp")
         /\ inner.kind = Ver =>
              AsStack!Encapsulates(HeaderOf("eth", h, len, type), inner)
                = HeaderOf("eth", h, n, Ver)
  <1> DEFINE Set(k, m) == AsStack!SetPayloadLength(HeaderOf(k, h, len, type), m)
  <1>1. \A k : AsStack!Encapsulates(HeaderOf(k, h, len, type), inner)
                 = AsStack!SetType(Set(k, n), inner)
    BY DEF AsStack!Encapsulates
  <1>2. \A k, m, z : /\ [HeaderOf(k, h, len, type) EXCEPT !.len = m] = HeaderOf(k, h, m, type)
                     /\ [HeaderOf(k, h, m, type) EXCEPT !.type = z] = HeaderOf(k, h, m, z)
                     /\ HeaderOf(k, h, len, type).kind = k
    BY DEF HeaderOf
  <1>3. Set("tcp", n) = HeaderOf("tcp", h, n, type) /\ Set("eth", n) = HeaderOf("eth", h, n, type)
    BY <1>2 DEF AsStack!SetPayloadLength
  <1>4. Set(Ver, n) = HeaderOf(Ver, h, IpLenField(n), type)
    <2>1. AsStack!GetLen(HeaderOf(Ver, h, len, type)) = IpHdr
      BY HeaderLens
    <2>2. CASE Ipv6
      <3>1. Ver = "ip6" /\ IpLenField(n) = n % U16
        BY <2>2, VerIs DEF IpLenField
      <3> QED BY <1>2, <3>1 DEF AsStack!SetPayloadLength
    <2>3. CASE ~Ipv6
      <3>1. Ver = "ip4" /\ IpLenField(n) = (IpHdr + n) % U16
        BY <2>3, VerIs DEF IpLenField
      <3> QED BY <1>2, <2>1, <3>1 DEF AsStack!SetPayloadLength
    <2> QED BY <2>2, <2>3
  <1> HIDE DEF Set
  <1>5. inner.kind = "pay" => \A e : AsStack!SetType(e, inner) = e
    BY DEF AsStack!SetType, AsStack!LayerOf
  <1>6. inner.kind = "tcp" => \A e : AsStack!SetType(e, inner) = [e EXCEPT !.type = "tcp"]
    BY DEF AsStack!SetType, AsStack!LayerOf
  <1>7. inner.kind = Ver => \A e : AsStack!SetType(e, inner) = [e EXCEPT !.type = Ver]
    BY VerIs DEF AsStack!SetType, AsStack!LayerOf
  <1>8. /\ AsStack!Encapsulates(HeaderOf("tcp", h, len, type), inner)
             = AsStack!SetType(Set("tcp", n), inner)
        /\ AsStack!Encapsulates(HeaderOf(Ver, h, len, type), inner)
             = AsStack!SetType(Set(Ver, n), inner)
        /\ AsStack!Encapsulates(HeaderOf("eth", h, len, type), inner)
             = AsStack!SetType(Set("eth", n), inner)
    BY <1>1, Zenon
  <1>9. /\ [HeaderOf(Ver, h, IpLenField(n), type) EXCEPT !.type = "tcp"]
             = HeaderOf(Ver, h, IpLenField(n), "tcp")
        /\ [HeaderOf("eth", h, n, type) EXCEPT !.type = Ver] = HeaderOf("eth", h, n, Ver)
    BY DEF HeaderOf
  <1>10. inner.kind = "pay" =>
           AsStack!Encapsulates(HeaderOf("tcp", h, len, type), inner) = HeaderOf("tcp", h, n, type)
    BY <1>3, <1>5, <1>8, Zenon
  <1>11. inner.kind = "tcp" =>
           AsStack!Encapsulates(HeaderOf(Ver, h, len, type), inner)
             = HeaderOf(Ver, h, IpLenField(n), "tcp")
    BY <1>4, <1>6, <1>8, <1>9, Zenon
  <1>12. inner.kind = Ver =>
           AsStack!Encapsulates(HeaderOf("eth", h, len, type), inner) = HeaderOf("eth", h, n, Ver)
    BY <1>3, <1>7, <1>8, <1>9, Zenon
  <1> QED BY <1>10, <1>11, <1>12

\* The lengths flow outwards as they do here.
LEMMA AbsOutwards ==
  ASSUME NEW e \in Template, NEW x, NEW y
  PROVE  AsStack!PropagateOutwards(Abs(e, x, y)) = Abs(PropagateOutwards(e), Ver, "tcp")
  <1> DEFINE u == PropagateOutwards(e)
             tcp == [e.tcp EXCEPT !.payloadLength = PayGetLen(e.pay)]
             ip  == [e.ip  EXCEPT !.lenField = IpLenField(Wrap(TcpHdr + TcpPayloadLength(tcp)))]
             eth == [e.eth EXCEPT !.payloadLength = Wrap(IpHdr + IpPayloadLength(ip))]
             a == HeaderOf("eth", e.eth, e.eth.payloadLength, x)
             b == HeaderOf(Ver, e.ip, e.ip.lenField, y)
             c == HeaderOf("tcp", e.tcp, e.tcp.payloadLength, "none")
             d == HeaderOf("pay", e.pay, e.pay.size - e.pay.payloadIndex, "none")
             a1 == HeaderOf("eth", eth, eth.payloadLength, Ver)
             b1 == HeaderOf(Ver, ip, ip.lenField, "tcp")
             c1 == HeaderOf("tcp", tcp, tcp.payloadLength, "none")
  <1>0. e.eth \in Eth /\ e.ip \in Ip /\ e.tcp \in Tcp /\ e.pay \in Pay
    BY DEF Template
  <1>1. u.eth = eth /\ u.ip = ip /\ u.tcp = tcp /\ u.pay = e.pay
    BY <1>0 DEF Template, PropagateOutwards
  <1> HIDE DEF u
  <1>w. \A m : AsStack!Wrap(m) = Wrap(m)
    BY DEF AsStack!Wrap, Wrap
  <1>2. AsStack!Encapsulates(c, d) = c1
    <2>1. /\ AsStack!GetLen(d) = PayGetLen(e.pay) /\ AsStack!GetPayloadLength(d) = 0
          /\ d.kind = "pay"
      BY HeaderLens, HeaderPayloads DEF PayGetLen, HeaderOf
    <2>2. AsStack!Wrap(AsStack!GetLen(d) + AsStack!GetPayloadLength(d)) = PayGetLen(e.pay)
      <3>1. PayGetLen(e.pay) \in Size /\ PayGetLen(e.pay) + 0 = PayGetLen(e.pay)
        BY <1>0, PayLens, SizeNat
      <3> QED BY <2>1, <3>1, <1>w, WrapId
    <2> HIDE DEF d
    <2>3. AsStack!Encapsulates(c, d) = HeaderOf("tcp", e.tcp, PayGetLen(e.pay), "none")
      BY <2>1, <2>2, Told
    <2> QED BY <1>0, <2>3 DEF HeaderOf, Tcp
  <1>3. AsStack!Encapsulates(b, c1) = b1
    <2>1. /\ AsStack!GetLen(c1) = TcpHdr /\ AsStack!GetPayloadLength(c1) = TcpPayloadLength(tcp)
          /\ c1.kind = "tcp"
      <3> HIDE DEF tcp
      <3> QED BY HeaderLens, HeaderPayloads DEF HeaderOf
    <2> HIDE DEF c1, tcp
    <2>2. AsStack!Encapsulates(b, c1)
            = HeaderOf(Ver, e.ip, IpLenField(Wrap(TcpHdr + TcpPayloadLength(tcp))), "tcp")
      BY <2>1, <1>w, Told
    <2> QED BY <1>0, <2>2 DEF HeaderOf, Ip
  <1>4. AsStack!Encapsulates(a, b1) = a1
    <2>1. /\ AsStack!GetLen(b1) = IpHdr /\ AsStack!GetPayloadLength(b1) = IpPayloadLength(ip)
          /\ b1.kind = Ver
      <3> HIDE DEF ip
      <3> QED BY HeaderLens, HeaderPayloads DEF HeaderOf
    <2> HIDE DEF b1, ip
    <2>2. AsStack!Encapsulates(a, b1)
            = HeaderOf("eth", e.eth, Wrap(IpHdr + IpPayloadLength(ip)), Ver)
      BY <2>1, <1>w, Told
    <2> QED BY <1>0, <2>2 DEF HeaderOf, Eth
  <1>5. AsStack!PropagateOutwards(<<a, b, c, d>>)
          = <<AsStack!Encapsulates(a, AsStack!Encapsulates(b, AsStack!Encapsulates(c, d))),
              AsStack!Encapsulates(b, AsStack!Encapsulates(c, d)),
              AsStack!Encapsulates(c, d), d>>
    <2> HIDE DEF a, b, c, d
    <2> QED BY FourOutwards
  <1>6. AsStack!PropagateOutwards(<<a, b, c, d>>) = <<a1, b1, c1, d>>
    <2> HIDE DEF a, b, c, d, a1, b1, c1
    <2> QED BY <1>2, <1>3, <1>4, <1>5
  <1>7. Abs(e, x, y) = <<a, b, c, d>>
    BY DEF Abs
  <1>8. Abs(u, Ver, "tcp") = <<a1, b1, c1, d>>
    <2> HIDE DEF eth, ip, tcp
    <2> QED BY <1>1 DEF Abs
  <1> QED BY <1>6, <1>7, <1>8 DEF u

\* Propagation commutes with the abstraction.
LEMMA AbsPropagate ==
  ASSUME NEW e, Ready(e), NEW x, NEW y
  PROVE  AsStack!Propagate(Abs(e, x, y)) = Abs(Propagate(e), Ver, "tcp")
  <1>1. e \in Template /\ PropagateInwards(e) \in Template
    BY InwardsSettles DEF Ready
  <1> QED BY <1>1, AbsInwards, AbsOutwards DEF AsStack!Propagate, Propagate

\* In the four-header stack each header is the first of its layer.
LEMMA AbsLayers ==
  ASSUME NEW t, NEW x, NEW y
  PROVE  LET s == Abs(t, x, y)
             Where(layer) == AsStack!FindLayer(s, layer, 1)
         IN  /\ DOMAIN s = 1..4 /\ Len(s) = 4
             /\ Where("L2") = 1 /\ Where("L3") = 2 /\ Where("L4") = 3 /\ Where("PAYLOAD") = 4
             /\ \A layer \in AsStack!Layers : 1 \in AsStack!Nestings(s, layer)
             /\ {"L2", "L3", "L4", "PAYLOAD"} = AsStack!Layers
  <1> DEFINE s == Abs(t, x, y)
  <1>1. /\ DOMAIN s = 1..4 /\ Len(s) = 4
        /\ s[1].kind = "eth" /\ s[2].kind = Ver /\ s[3].kind = "tcp" /\ s[4].kind = "pay"
    BY DEF Abs, HeaderOf
  <1> HIDE DEF s
  <1>2. /\ AsStack!LayerOf["eth"] = "L2" /\ AsStack!LayerOf[Ver] = "L3"
        /\ AsStack!LayerOf["tcp"] = "L4" /\ AsStack!LayerOf["pay"] = "PAYLOAD"
    BY VerIs DEF AsStack!LayerOf
  <1>3. /\ AsStack!LayerOf[s[1].kind] = "L2" /\ AsStack!LayerOf[s[2].kind] = "L3"
        /\ AsStack!LayerOf[s[3].kind] = "L4" /\ AsStack!LayerOf[s[4].kind] = "PAYLOAD"
    BY <1>1, <1>2
  <1>4. \A i, j \in 1..4 : AsStack!LayerOf[s[i].kind] = AsStack!LayerOf[s[j].kind] => i = j
    BY <1>3
  <1>5. \A p \in 1..4 : /\ AsStack!FindLayer(s, AsStack!LayerOf[s[p].kind], 1) = p
                        /\ 1 \in AsStack!Nestings(s, AsStack!LayerOf[s[p].kind])
    BY <1>1, <1>4, FourLayers
  <1>6. /\ AsStack!FindLayer(s, "L2", 1) = 1 /\ AsStack!FindLayer(s, "L3", 1) = 2
        /\ AsStack!FindLayer(s, "L4", 1) = 3 /\ AsStack!FindLayer(s, "PAYLOAD", 1) = 4
        /\ \A layer \in {"L2", "L3", "L4", "PAYLOAD"} : 1 \in AsStack!Nestings(s, layer)
    BY <1>3, <1>5
  <1>7. {"L2", "L3", "L4", "PAYLOAD"} = AsStack!Layers
    BY DEF AsStack!Layers, AsStack!Kinds, AsStack!LayerOf
  <1> QED BY <1>1, <1>6, <1>7 DEF s
-----------------------------------------------------------------------------
(* Every operation is one of Stack's, or is invisible there.               *)

\* An MTU set on the header at p.
LEMMA MtuStep ==
  ASSUME NEW u, Ready(u), tmpl' = Propagate(u), NEW p \in 1..4, NEW m,
         NEW h \in DOMAIN Mtus, m \in Mtus[h], p = 2 => m <= U16 - 1,
         Abs(u, Ver, "tcp") = [Abs(tmpl, Ver, "tcp") EXCEPT ![p] =
                                [Abs(tmpl, Ver, "tcp")[p] EXCEPT !.localMtu = m]]
  PROVE  AsStack!Next
  <1> DEFINE s == Abs(tmpl, Ver, "tcp")
             s1 == Abs(tmpl', Ver, "tcp")
             layer == <<"L2", "L3", "L4", "PAYLOAD">>[p]
             L == {i \in DOMAIN s : s1[i].localMtu # AsStack!DefaultMtu}
  <1>1. s1 = AsStack!Propagate(Abs(u, Ver, "tcp"))
    BY AbsPropagate
  <1>2. /\ layer \in AsStack!Layers /\ 1 \in AsStack!Nestings(s, layer)
        /\ AsStack!FindLayer(s, layer, 1) = p /\ (layer = "L3" => p = 2)
        /\ DOMAIN s = 1..4
    <2> HIDE DEF s
    <2>1. /\ p = 1 => layer = "L2"
          /\ p = 2 => layer = "L3"
          /\ p = 3 => layer = "L4"
          /\ p = 4 => layer = "PAYLOAD"
      OBVIOUS
    <2>2. p = 1 \/ p = 2 \/ p = 3 \/ p = 4
      OBVIOUS
    <2> HIDE DEF layer
    <2> QED BY <2>1, <2>2, AbsLayers DEF s
  <1> HIDE DEF layer
  <1>3. m \in UNION {Mtus[i] : i \in DOMAIN Mtus}
    OBVIOUS
  <1>4. Cardinality(L) <= 4
    <2>1. L \subseteq 1..4
      BY <1>2
    <2> HIDE DEF L
    <2>2. IsFiniteSet(1..4) /\ Cardinality(1..4) = 4
      <3> DEFINE a == 1
                 b == 4
      <3>1. a \in Int /\ b \in Int /\ a <= b /\ b - a + 1 = 4
        OBVIOUS
      <3> HIDE DEF a, b
      <3>2. IsFiniteSet(a..b) /\ Cardinality(a..b) = 4
        BY <3>1, FS_Interval
      <3> QED BY <3>2 DEF a, b
    <2>3. Cardinality(L) <= Cardinality(1..4)
      BY <2>1, <2>2, FS_Subset
    <2> QED BY <2>2, <2>3
  <1>5. AsStack!Cardinality(L) <= 4
    <2> HIDE DEF L
    <2> QED BY <1>4 DEF AsStack!Cardinality, Cardinality
  <1>6. s1 = AsStack!Propagate([s EXCEPT ![AsStack!FindLayer(s, layer, 1)] =
                                 [s[AsStack!FindLayer(s, layer, 1)] EXCEPT !.localMtu = m]])
    BY <1>1, <1>2
  <1>7. AsStack!WithMtu(layer, 1, m)
    <2>1. AsStack!WithHeader(layer, 1, [AsStack!Selected(layer, 1) EXCEPT !.localMtu = m])
      BY <1>6 DEF AsStack!WithHeader, AsStack!Selected, Abs, HeaderOf, Ver
    <2>2. layer = "L3" => m <= U16 - 1
      BY <1>2
    <2> QED BY <1>5, <2>1, <2>2 DEF AsStack!WithMtu, Abs, HeaderOf, Ver
  <1>8. AsStack!Fields
    BY <1>2, <1>3, <1>7 DEF AsStack!Fields, Abs, HeaderOf, Ver
  <1> QED BY <1>8 DEF AsStack!Next

\* The bytes of the payload replaced.
LEMMA PayloadStep ==
  ASSUME NEW u, Ready(u), tmpl' = Propagate(u), NEW n \in 0..MaxPayload,
         Abs(u, Ver, "tcp") = [Abs(tmpl, Ver, "tcp") EXCEPT ![4] =
                                [Abs(tmpl, Ver, "tcp")[4] EXCEPT !.len = n]]
  PROVE  AsStack!Next
  <1> DEFINE s == Abs(tmpl, Ver, "tcp")
             s1 == Abs(tmpl', Ver, "tcp")
  <1>1. s1 = AsStack!Propagate(Abs(u, Ver, "tcp"))
    BY AbsPropagate
  <1>2. /\ "PAYLOAD" \in AsStack!Layers /\ 1 \in AsStack!Nestings(s, "PAYLOAD")
        /\ AsStack!FindLayer(s, "PAYLOAD", 1) = 4
    <2> HIDE DEF s
    <2> QED BY AbsLayers DEF s
  <1>3. s1 = AsStack!Propagate([s EXCEPT ![AsStack!FindLayer(s, "PAYLOAD", 1)] =
                                 [s[AsStack!FindLayer(s, "PAYLOAD", 1)] EXCEPT !.len = n]])
    BY <1>1, <1>2
  <1>4. AsStack!WithPayload(1, n)
    BY <1>3 DEF AsStack!WithPayload, AsStack!WithHeader, AsStack!Selected, Abs, HeaderOf, Ver
  <1>5. AsStack!Fields
    BY <1>2, <1>4 DEF AsStack!Fields, Abs, HeaderOf, Ver
  <1> QED BY <1>5 DEF AsStack!Next

\* What Stack does not see.
LEMMA Invisible ==
  ASSUME IInv, NEW u, Ready(u), tmpl' = Propagate(u),
         Abs(u, Ver, "tcp") = Abs(tmpl, Ver, "tcp")
  PROVE  Abs(tmpl', Ver, "tcp") = Abs(tmpl, Ver, "tcp")
  <1>1. Propagate(tmpl) = tmpl
    BY PropagateSettles, SettledUnique DEF IInv, Ready
  <1>2. Abs(tmpl', Ver, "tcp") = AsStack!Propagate(Abs(tmpl, Ver, "tcp"))
    BY AbsPropagate
  <1>3. AsStack!Propagate(Abs(tmpl, Ver, "tcp")) = Abs(Propagate(tmpl), Ver, "tcp")
    BY AbsPropagate DEF IInv
  <1> QED BY <1>1, <1>2, <1>3

\* The bytes that Next() skips.
LEMMA SegmentStep ==
  ASSUME IInv, NextSegment
  PROVE  AsStack!Next
  <1> DEFINE u == [tmpl EXCEPT !.ip = NextIp(tmpl.ip), !.tcp = NextTcp(tmpl.tcp),
                               !.pay = NextPay(tmpl.pay)]
             s == Abs(tmpl, Ver, "tcp")
             fill == PayFillLen(tmpl.pay)
  <1>0. /\ Ready(tmpl) /\ tmpl \in Template
        /\ tmpl.eth \in Eth /\ tmpl.ip \in Ip /\ tmpl.tcp \in Tcp /\ tmpl.pay \in Pay
    BY DEF IInv, Ready, Template
  <1>1. Ready(u) /\ tmpl' = Propagate(u)
    BY <1>0, EditedHeaders DEF Ready, Template, NextSegment, NextTemplate
  <1>2. /\ u.eth = tmpl.eth /\ u.ip = NextIp(tmpl.ip) /\ u.tcp = NextTcp(tmpl.tcp)
        /\ u.pay = [tmpl.pay EXCEPT !.payloadIndex = @ + fill]
    <2>1. NextPay(tmpl.pay) = [tmpl.pay EXCEPT !.payloadIndex = @ + fill]
      BY <1>0, EditedHeaders
    <2> QED BY <1>0, <2>1 DEF Template
  <1> HIDE DEF u
  <1>3. /\ HeaderOf("eth", u.eth, u.eth.payloadLength, Ver)
             = HeaderOf("eth", tmpl.eth, tmpl.eth.payloadLength, Ver)
        /\ HeaderOf(Ver, u.ip, u.ip.lenField, "tcp")
             = HeaderOf(Ver, tmpl.ip, tmpl.ip.lenField, "tcp")
        /\ HeaderOf("tcp", u.tcp, u.tcp.payloadLength, "none")
             = HeaderOf("tcp", tmpl.tcp, tmpl.tcp.payloadLength, "none")
    BY <1>0, <1>2 DEF HeaderOf, NextIp, NextTcp, Ip, Tcp
  <1> DEFINE len == tmpl.pay.size - tmpl.pay.payloadIndex
             p == HeaderOf("pay", tmpl.pay, len, "none")
  <1>4. HeaderOf("pay", u.pay, u.pay.size - u.pay.payloadIndex, "none")
          = HeaderOf("pay", tmpl.pay, len - fill, "none")
    <2>1. fill \in Int /\ tmpl.pay.size \in Int /\ tmpl.pay.payloadIndex \in Int
      BY <1>0, PayLens, ConstAssumption DEF Pay
    <2> HIDE DEF fill
    <2>2. /\ u.pay.size = tmpl.pay.size /\ u.pay.payloadIndex = tmpl.pay.payloadIndex + fill
          /\ u.pay.localMtu = tmpl.pay.localMtu /\ u.pay.outerMtu = tmpl.pay.outerMtu
      BY <1>0, <1>2 DEF Pay
    <2>3. u.pay.size - u.pay.payloadIndex = len - fill
      BY <2>1, <2>2
    <2> QED BY <2>2, <2>3 DEF HeaderOf
  <1>5. AsStack!NextHeader(p) = HeaderOf("pay", tmpl.pay, len - fill, "none")
    <2>1. p.kind = "pay" /\ p.len = len
      BY DEF HeaderOf
    <2>2. AsStack!GetLen(p) = PayGetLen(tmpl.pay) /\ AsStack!GetMtu(p) = GetMtu(tmpl.pay)
      BY HeaderLens, HeaderMtu DEF PayGetLen
    <2>3. AsStack!Least(AsStack!GetLen(p), AsStack!GetMtu(p)) = fill
      BY <2>2 DEF AsStack!Least, PayFillLen, Least
    <2>4. AsStack!NextHeader(p) = [p EXCEPT !.len = p.len - fill]
      BY <2>1, <2>3 DEF AsStack!NextHeader
    <2>5. [p EXCEPT !.len = len - fill] = HeaderOf("pay", tmpl.pay, len - fill, "none")
      <3> HIDE DEF len, fill
      <3> QED BY DEF HeaderOf
    <2> QED BY <2>1, <2>4, <2>5
  <1>6. \A k, h, n, t : k # "pay" => AsStack!NextHeader(HeaderOf(k, h, n, t)) = HeaderOf(k, h, n, t)
    BY DEF AsStack!NextHeader, HeaderOf
  <1>7. [i \in DOMAIN s |-> AsStack!NextHeader(s[i])] = Abs(u, Ver, "tcp")
    <2> DEFINE a == HeaderOf("eth", tmpl.eth, tmpl.eth.payloadLength, Ver)
               b == HeaderOf(Ver, tmpl.ip, tmpl.ip.lenField, "tcp")
               c == HeaderOf("tcp", tmpl.tcp, tmpl.tcp.payloadLength, "none")
               d == HeaderOf("pay", tmpl.pay, len - fill, "none")
               Nx(h) == AsStack!NextHeader(h)
    <2>1. Nx(a) = a /\ Nx(b) = b /\ Nx(c) = c /\ Nx(p) = d
      <3>1. Ver # "pay"
        BY VerIs
      <3> QED BY <1>5, <1>6, <3>1
    <2>2. s = <<a, b, c, p>>
      BY DEF Abs
    <2>3. Abs(u, Ver, "tcp") = <<a, b, c, d>>
      BY <1>3, <1>4 DEF Abs
    <2> HIDE DEF a, b, c, d, p, s, Nx
    <2>4. [i \in DOMAIN s |-> Nx(s[i])] = <<Nx(a), Nx(b), Nx(c), Nx(p)>>
      BY <2>2
    <2> QED BY <2>1, <2>3, <2>4 DEF Nx
  <1>8. Abs(tmpl', Ver, "tcp") = AsStack!Propagate([i \in DOMAIN s |-> AsStack!NextHeader(s[i])])
    BY <1>1, <1>7, AbsPropagate
  <1>9. AsStack!NextSegment
    <2> HIDE DEF fill
    <2> QED BY <1>8 DEF AsStack!NextSegment, Abs, HeaderOf, Ver
  <1> QED BY <1>9 DEF AsStack!Next

\* Every step of the template is a step of the stack, or changes nothing of it.
LEMMA StackStep ==
  ASSUME IInv, Next
  PROVE  AsStack!Next \/ Abs(tmpl', Ver, "tcp") = Abs(tmpl, Ver, "tcp")
  <1>0. /\ Ready(tmpl) /\ tmpl \in Template
        /\ tmpl.eth \in Eth /\ tmpl.ip \in Ip /\ tmpl.tcp \in Tcp /\ tmpl.pay \in Pay
    BY DEF IInv, Ready, Template
  <1>1. CASE NextSegment
    BY <1>1, SegmentStep
  <1>2. ASSUME Retransmission PROVE Abs(tmpl', Ver, "tcp") = Abs(tmpl, Ver, "tcp")
    <2> DEFINE u == [tmpl EXCEPT !.ip = NextIp(tmpl.ip)]
    <2>1. Ready(u) /\ tmpl' = Propagate(u)
      BY <1>0, <1>2, EditedHeaders DEF Ready, Template, Retransmission, RetransmissionOf
    <2>2. /\ u.eth = tmpl.eth /\ u.tcp = tmpl.tcp /\ u.pay = tmpl.pay
          /\ u.ip.localMtu = tmpl.ip.localMtu /\ u.ip.outerMtu = tmpl.ip.outerMtu
          /\ u.ip.lenField = tmpl.ip.lenField
      BY <1>0 DEF Template, Ip, NextIp
    <2> HIDE DEF u
    <2>3. Abs(u, Ver, "tcp") = Abs(tmpl, Ver, "tcp")
      BY <2>2 DEF Abs, HeaderOf
    <2> QED BY <2>1, <2>3, Invisible
  <1>3. ASSUME NEW m \in Mtus.eth, WithEthMtu(m) PROVE AsStack!Next
    <2> DEFINE e == [tmpl.eth EXCEPT !.localMtu = m]
               u == [tmpl EXCEPT !.eth.localMtu = m]
    <2>1. e \in Eth /\ e.outerMtu = DefaultMtu
      BY <1>0, ConstAssumption DEF Eth, Size, Ready
    <2>2. Ready(u) /\ tmpl' = Propagate(u)
      BY <1>0, <1>3, <2>1 DEF Ready, Template, WithEthMtu
    <2>3. u = [tmpl EXCEPT !.eth = e]
      BY <1>0 DEF Template
    <2>4. /\ u.eth = e
          /\ \A k, n, t : HeaderOf(k, e, n, t) = [HeaderOf(k, tmpl.eth, n, t) EXCEPT !.localMtu = m]
      BY <1>0, <2>3 DEF Template, HeaderOf, Eth
    <2>5. u.ip = tmpl.ip /\ u.tcp = tmpl.tcp /\ u.pay = tmpl.pay
          /\ e.payloadLength = tmpl.eth.payloadLength
      BY <1>0 DEF Template, Eth
    <2>6. Abs(u, Ver, "tcp") = [Abs(tmpl, Ver, "tcp") EXCEPT ![1] =
                                 [Abs(tmpl, Ver, "tcp")[1] EXCEPT !.localMtu = m]]
      <3> HIDE DEF u, e
      <3> QED BY <1>0, <2>3, <2>4, <2>5 DEF Abs
    <2> HIDE DEF u, e
    <2>7. 1 \in 1..4 /\ "eth" \in DOMAIN Mtus /\ m \in Mtus["eth"]
      BY ConstAssumption
    <2> QED BY <2>2, <2>6, <2>7, MtuStep
  <1>4. ASSUME NEW m \in Mtus.ip, WithIpMtu(m) PROVE AsStack!Next
    <2> DEFINE e == [tmpl.ip EXCEPT !.localMtu = m]
               u == [tmpl EXCEPT !.ip.localMtu = m]
    <2>1. e \in Ip
      BY <1>0, ConstAssumption DEF Ip, Size, Ready
    <2>2. Ready(u) /\ tmpl' = Propagate(u)
      BY <1>0, <1>4, <2>1 DEF Ready, Template, WithIpMtu
    <2>3. u = [tmpl EXCEPT !.ip = e]
      BY <1>0 DEF Template
    <2>4. /\ u.ip = e
          /\ \A k, n, t : HeaderOf(k, e, n, t) = [HeaderOf(k, tmpl.ip, n, t) EXCEPT !.localMtu = m]
      BY <1>0, <2>3 DEF Template, HeaderOf, Ip
    <2>5. u.eth = tmpl.eth /\ u.tcp = tmpl.tcp /\ u.pay = tmpl.pay
          /\ e.lenField = tmpl.ip.lenField
      BY <1>0 DEF Template, Ip
    <2>6. Abs(u, Ver, "tcp") = [Abs(tmpl, Ver, "tcp") EXCEPT ![2] =
                                 [Abs(tmpl, Ver, "tcp")[2] EXCEPT !.localMtu = m]]
      <3> HIDE DEF u, e
      <3> QED BY <1>0, <2>3, <2>4, <2>5 DEF Abs
    <2> HIDE DEF u, e
    <2>7. 2 \in 1..4 /\ "ip" \in DOMAIN Mtus /\ m \in Mtus["ip"] /\ m <= U16 - 1
      BY <1>4, ConstAssumption DEF WithIpMtu, IpMaxPacket
    <2> QED BY <2>2, <2>6, <2>7, MtuStep
  <1>5. ASSUME NEW m \in Mtus.tcp, WithTcpMtu(m) PROVE AsStack!Next
    <2> DEFINE e == [tmpl.tcp EXCEPT !.localMtu = m]
               u == [tmpl EXCEPT !.tcp.localMtu = m]
    <2>1. e \in Tcp
      BY <1>0, ConstAssumption DEF Tcp, Size, Ready
    <2>2. Ready(u) /\ tmpl' = Propagate(u)
      BY <1>0, <1>5, <2>1 DEF Ready, Template, WithTcpMtu
    <2>3. u = [tmpl EXCEPT !.tcp = e]
      BY <1>0 DEF Template
    <2>4. /\ u.tcp = e
          /\ \A k, n, t : HeaderOf(k, e, n, t) = [HeaderOf(k, tmpl.tcp, n, t) EXCEPT !.localMtu = m]
      BY <1>0, <2>3 DEF Template, HeaderOf, Tcp
    <2>5. u.eth = tmpl.eth /\ u.ip = tmpl.ip /\ u.pay = tmpl.pay
          /\ e.payloadLength = tmpl.tcp.payloadLength
      BY <1>0 DEF Template, Tcp
    <2>6. Abs(u, Ver, "tcp") = [Abs(tmpl, Ver, "tcp") EXCEPT ![3] =
                                 [Abs(tmpl, Ver, "tcp")[3] EXCEPT !.localMtu = m]]
      <3> HIDE DEF u, e
      <3> QED BY <1>0, <2>3, <2>4, <2>5 DEF Abs
    <2> HIDE DEF u, e
    <2>7. 3 \in 1..4 /\ "tcp" \in DOMAIN Mtus /\ m \in Mtus["tcp"]
      BY ConstAssumption
    <2> QED BY <2>2, <2>6, <2>7, MtuStep
  <1>6. ASSUME NEW m \in Mtus.pay, WithPayMtu(m) PROVE AsStack!Next
    <2> DEFINE e == [tmpl.pay EXCEPT !.localMtu = m]
               u == [tmpl EXCEPT !.pay.localMtu = m]
    <2>1. e \in Pay
      BY <1>0, ConstAssumption DEF Pay, Size, Ready
    <2>2. Ready(u) /\ tmpl' = Propagate(u)
      BY <1>0, <1>6, <2>1 DEF Ready, Template, WithPayMtu
    <2>3. u = [tmpl EXCEPT !.pay = e]
      BY <1>0 DEF Template
    <2>4. /\ u.pay = e
          /\ \A k, n, t : HeaderOf(k, e, n, t) = [HeaderOf(k, tmpl.pay, n, t) EXCEPT !.localMtu = m]
      BY <1>0, <2>3 DEF Template, HeaderOf, Pay
    <2>5. u.eth = tmpl.eth /\ u.ip = tmpl.ip /\ u.tcp = tmpl.tcp
          /\ e.size = tmpl.pay.size /\ e.payloadIndex = tmpl.pay.payloadIndex
      BY <1>0 DEF Template, Pay
    <2>6. Abs(u, Ver, "tcp") = [Abs(tmpl, Ver, "tcp") EXCEPT ![4] =
                                 [Abs(tmpl, Ver, "tcp")[4] EXCEPT !.localMtu = m]]
      <3> HIDE DEF u, e
      <3> QED BY <1>0, <2>3, <2>4, <2>5 DEF Abs
    <2> HIDE DEF u, e
    <2>7. 4 \in 1..4 /\ "pay" \in DOMAIN Mtus /\ m \in Mtus["pay"]
      BY ConstAssumption
    <2> QED BY <2>2, <2>6, <2>7, MtuStep
  <1>7. ASSUME NEW s \in Seqs, WithSeq(s)
        PROVE  Abs(tmpl', Ver, "tcp") = Abs(tmpl, Ver, "tcp")
    <2> DEFINE h == [tmpl.tcp EXCEPT !.seq = s]
               u == [tmpl EXCEPT !.tcp.seq = s]
    <2>1. /\ h \in Tcp /\ h.localMtu = tmpl.tcp.localMtu /\ h.outerMtu = tmpl.tcp.outerMtu
          /\ h.payloadLength = tmpl.tcp.payloadLength
      BY <1>0, ConstAssumption DEF Tcp
    <2>2. /\ Ready(u) /\ tmpl' = Propagate(u)
          /\ u.eth = tmpl.eth /\ u.ip = tmpl.ip /\ u.tcp = h /\ u.pay = tmpl.pay
      BY <1>0, <1>7, <2>1 DEF Ready, Template, WithSeq
    <2> HIDE DEF u, h
    <2>3. Abs(u, Ver, "tcp") = Abs(tmpl, Ver, "tcp")
      BY <2>1, <2>2 DEF Abs, HeaderOf
    <2> QED BY <2>2, <2>3, Invisible
  <1>8. ASSUME NEW p \in Pay, tmpl' = Propagate([tmpl EXCEPT !.pay = p]),
               p.localMtu = tmpl.pay.localMtu, p.outerMtu = tmpl.pay.outerMtu
        PROVE  AsStack!Next
    <2> DEFINE u == [tmpl EXCEPT !.pay = p]
               n == p.size - p.payloadIndex
    <2>1. /\ Ready(u) /\ tmpl' = Propagate(u) /\ u.pay = p
          /\ u.eth = tmpl.eth /\ u.ip = tmpl.ip /\ u.tcp = tmpl.tcp
      BY <1>0, <1>8 DEF Ready, Template
    <2>2. n \in 0..MaxPayload
      BY ConstAssumption DEF Pay
    <2>3. \A k, i, t : [HeaderOf(k, tmpl.pay, i, t) EXCEPT !.len = n] = HeaderOf(k, p, n, t)
      <3> HIDE DEF n
      <3> QED BY <1>8 DEF HeaderOf
    <2>4. Abs(u, Ver, "tcp") = [Abs(tmpl, Ver, "tcp") EXCEPT ![4] =
                                 [Abs(tmpl, Ver, "tcp")[4] EXCEPT !.len = n]]
      <3>1. u.pay.size - u.pay.payloadIndex = n
        BY <2>1
      <3> HIDE DEF u, n
      <3> QED BY <2>1, <2>3, <3>1 DEF Abs
    <2> HIDE DEF u, n
    <2> QED BY <2>1, <2>2, <2>4, PayloadStep
  <1>9. ASSUME NEW n \in 0..MaxPayload, WithPayload(n) PROVE AsStack!Next
    <2> DEFINE p == ReplaceBytes(tmpl.pay, n)
    <2>1. p \in Pay
      BY <1>0, ReplaceType
    <2>2. p.localMtu = tmpl.pay.localMtu /\ p.outerMtu = tmpl.pay.outerMtu
      BY <1>0 DEF ReplaceBytes, Pay
    <2>3. tmpl' = Propagate([tmpl EXCEPT !.pay = p])
      BY <1>0, <1>9 DEF WithPayload, Template
    <2> HIDE DEF p
    <2> QED BY <1>8, <2>1, <2>2, <2>3
  <1>10. ASSUME NEW n \in 0..MaxPayload, WithAppend(n) PROVE AsStack!Next
    <2> DEFINE p == [tmpl.pay EXCEPT !.size = @ + n]
    <2>1. p \in Pay /\ p.localMtu = tmpl.pay.localMtu /\ p.outerMtu = tmpl.pay.outerMtu
      BY <1>0, <1>10, ConstAssumption DEF Pay, WithAppend
    <2>2. tmpl' = Propagate([tmpl EXCEPT !.pay = p])
      BY <1>0, <1>10 DEF WithAppend, Template
    <2> HIDE DEF p
    <2> QED BY <1>8, <2>1, <2>2
  <1>11. ASSUME NEW n \in 0..MaxPayload, WithLength(n) PROVE AsStack!Next
    <2> DEFINE p == SetLength(tmpl.pay, n)
    <2>1. n \in 0..tmpl.pay.size
      BY <1>0, <1>11, ConstAssumption DEF WithLength, Pay
    <2>2. p \in Pay
      BY <1>0, <2>1, EditedHeaders
    <2>3. p.localMtu = tmpl.pay.localMtu /\ p.outerMtu = tmpl.pay.outerMtu
      BY <1>0 DEF SetLength, Pay
    <2>4. tmpl' = Propagate([tmpl EXCEPT !.pay = p])
      BY <1>0, <1>11 DEF WithLength, Template
    <2> HIDE DEF p
    <2> QED BY <1>8, <2>2, <2>3, <2>4
  <1> QED
    BY <1>1, <1>2, <1>3, <1>4, <1>5, <1>6, <1>7, <1>9, <1>10, <1>11
    DEF Next, SetMtu, SetPayload, SetSeq

\* A new template is a stack of four new headers.
LEMMA StackInit ==
  ASSUME Init
  PROVE  AsStack!Init
  <1> SUFFICES ASSUME NEW n \in 0..MaxPayload, NEW s \in Seqs, tmpl = NewTemplate(n, s)
               PROVE  AsStack!Init
    BY DEF Init
  <1> DEFINE k == <<"eth", Ver, "tcp", "pay">>
             new == [i \in 1..4 |-> AsStack!New(k[i], n)]
             eth == [localMtu |-> DefaultMtu, outerMtu |-> DefaultMtu, payloadLength |-> 0]
             ip  == [localMtu |-> DefaultMtu, outerMtu |-> DefaultMtu, id |-> 0,
                     lenField |-> IpLenField(0)]
             tcp == [localMtu |-> DefaultMtu, outerMtu |-> DefaultMtu, payloadLength |-> 0,
                     seq |-> s]
             pay == [localMtu |-> DefaultMtu, outerMtu |-> DefaultMtu, size |-> n,
                     payloadIndex |-> 0]
             raw == [eth |-> eth, ip |-> ip, tcp |-> tcp, pay |-> pay]
  <1>0. DefaultMtu \in Size /\ 0 \in Size
    BY SizeNat, ConstAssumption DEF Size
  <1>1. Ready(raw)
    <2>1. eth \in Eth /\ tcp \in Tcp /\ pay \in Pay
      BY <1>0, ConstAssumption DEF Eth, Tcp, Pay
    <2>2. ip \in Ip
      BY <1>0, IpLenFieldType, ConstAssumption DEF Ip
    <2>3. eth.outerMtu = DefaultMtu
      OBVIOUS
    <2> HIDE DEF eth, ip, tcp, pay
    <2> QED BY <2>1, <2>2, <2>3 DEF Ready, Template
  <1>2. tmpl = Propagate(raw)
    BY DEF NewTemplate
  <1>3. /\ AsStack!New("eth", n) = HeaderOf("eth", eth, 0, "none")
        /\ AsStack!New("tcp", n) = HeaderOf("tcp", tcp, 0, "none")
        /\ AsStack!New("pay", n) = HeaderOf("pay", pay, n, "none")
    BY DEF AsStack!New, AsStack!DefaultMtu, HeaderOf, DefaultMtu
  <1>4. AsStack!New(Ver, n) = HeaderOf(Ver, ip, IpLenField(0), "none")
    <2>1. CASE Ipv6
      <3>1. Ver = "ip6" /\ IpLenField(0) = 0
        BY <2>1, VerIs, ConstAssumption DEF IpLenField
      <3> QED BY <3>1 DEF AsStack!New, AsStack!DefaultMtu, HeaderOf, DefaultMtu
    <2>2. CASE ~Ipv6
      <3>1. Ver = "ip4" /\ IpLenField(0) = IpHdr
        BY <2>2, VerIs, ConstAssumption DEF IpLenField
      <3> QED BY <3>1 DEF AsStack!New, AsStack!DefaultMtu, HeaderOf, DefaultMtu
    <2> QED BY <2>1, <2>2
  <1>5. new = Abs(raw, "none", "none")
    <2>1. k[1] = "eth" /\ k[2] = Ver /\ k[3] = "tcp" /\ k[4] = "pay"
      OBVIOUS
    <2>2. /\ raw.eth = eth /\ raw.ip = ip /\ raw.tcp = tcp /\ raw.pay = pay
          /\ raw.eth.payloadLength = 0 /\ raw.ip.lenField = IpLenField(0)
          /\ raw.tcp.payloadLength = 0 /\ raw.pay.size - raw.pay.payloadIndex = n
      OBVIOUS
    <2> HIDE DEF k, raw, eth, ip, tcp, pay
    <2>3. Abs(raw, "none", "none") = <<AsStack!New("eth", n), AsStack!New(Ver, n),
                                       AsStack!New("tcp", n), AsStack!New("pay", n)>>
      BY <1>3, <1>4, <2>2 DEF Abs
    <2>4. <<AsStack!New("eth", n), AsStack!New(Ver, n),
            AsStack!New("tcp", n), AsStack!New("pay", n)>> = new
      BY <2>1
    <2> QED BY <2>3, <2>4
  <1>6. Abs(tmpl, Ver, "tcp") = AsStack!Propagate(new)
    <2> HIDE DEF raw, new
    <2> QED BY <1>1, <1>2, <1>5, AbsPropagate
  <1>7. k \in [1..4 -> AsStack!Kinds]
    <2>1. {"eth", Ver, "tcp", "pay"} \subseteq AsStack!Kinds
      BY VerIs DEF AsStack!Kinds, AsStack!LayerOf
    <2>2. k \in [1..4 -> {"eth", Ver, "tcp", "pay"}]
      OBVIOUS
    <2> HIDE DEF k
    <2> QED BY <2>1, <2>2
  <1>8. \A i \in 1..(4 - 1) : AsStack!MayHold(k[i], k[i + 1])
    <2>1. /\ AsStack!MayHold("eth", Ver) /\ AsStack!MayHold(Ver, "tcp")
          /\ AsStack!MayHold("tcp", "pay")
      BY VerIs DEF AsStack!MayHold, AsStack!LayerOf
    <2>2. /\ k[1] = "eth" /\ k[2] = Ver /\ k[3] = "tcp" /\ k[4] = "pay"
          /\ 1 + 1 = 2 /\ 2 + 1 = 3 /\ 3 + 1 = 4
      OBVIOUS
    <2>3. \A i \in 1..(4 - 1) : i = 1 \/ i = 2 \/ i = 3
      OBVIOUS
    <2> HIDE DEF k
    <2> QED BY <2>1, <2>2, <2>3
  <1>9. 4 \in 1..4
    OBVIOUS
  <1> HIDE DEF k
  <1>10. AsStack!Init
    BY <1>6, <1>7, <1>8, <1>9 DEF AsStack!Init, Abs, HeaderOf, Ver
  <1> QED BY <1>10

\* The constants that the stack is given are those it may be given, so what
\* Stack_proofs proves of a stack holds of the template.
LEMMA StackApplies ==
  LET hdrLen == [eth |-> EthHdr, ip4 |-> IpHdr, ip6 |-> IpHdr, tcp |-> TcpHdr]
      mtuChoices == UNION {Mtus[h] : h \in DOMAIN Mtus}
  IN  /\ SizeMod \in Nat \ {0} /\ U16 \in 1..SizeMod
      /\ hdrLen \in [{"eth", "ip4", "ip6", "tcp"} -> Nat \ {0}] /\ hdrLen["ip4"] < U16
      /\ mtuChoices \subseteq 0..(SizeMod - 1) /\ MaxPayload \in 0..(SizeMod - 1)
  <1>1. \A h \in DOMAIN Mtus : Mtus[h] \subseteq 0..(SizeMod - 1)
    BY ConstAssumption
  <1>2. SizeMod \in Nat \ {0} /\ U16 \in 1..SizeMod /\ MaxPayload \in 0..(SizeMod - 1)
    BY ConstAssumption
  <1>3. IpHdr < U16
    BY ConstAssumption
  <1>4. UNION {Mtus[h] : h \in DOMAIN Mtus} \subseteq 0..(SizeMod - 1)
    BY <1>1
  <1> QED BY <1>2, <1>3, <1>4, ConstAssumption

\* The value that the refinement mapping gives Stack's variable.
StackView ==
  LET ip == IF Ipv6 THEN "ip6" ELSE "ip4"
      H(k, h, len, type) == [kind |-> k, localMtu |-> h.localMtu,
                             outerMtu |-> h.outerMtu, len |-> len, type |-> type]
  IN  << H("eth", tmpl.eth, tmpl.eth.payloadLength, ip),
         H(ip, tmpl.ip, tmpl.ip.lenField, "tcp"),
         H("tcp", tmpl.tcp, tmpl.tcp.payloadLength, "none"),
         H("pay", tmpl.pay, tmpl.pay.size - tmpl.pay.payloadIndex, "none") >>

\* The template is a special case of Stack.
THEOREM StackRefinement == Spec => ImplementsStack
  <1>1. Init => AsStack!Init
    BY StackInit
  <1>2. IInv /\ [Next]_tmpl => [AsStack!Next]_StackView
    <2>1. StackView = Abs(tmpl, Ver, "tcp") /\ StackView' = Abs(tmpl', Ver, "tcp")
      BY DEF StackView, Abs, HeaderOf, Ver
    <2>2. CASE Next
      BY <2>1, <2>2, StackStep
    <2>3. CASE UNCHANGED tmpl
      BY <2>1, <2>3
    <2> QED BY <2>2, <2>3
  <1> QED BY <1>1, <1>2, Invariance, PTL DEF Spec, ImplementsStack, AsStack!Spec, StackView
=============================================================================
