-------------------------- MODULE LroHarness_proofs ---------------------------
(***************************************************************************)
(* The harness, for any tests that keep to HarnessAssumption and wherever  *)
(* the code under test makes its mistake:                                  *)
(*   - the arithmetic on times is exact;                                   *)
(*   - LRO is full when TestAutoFlush says so;                             *)
(*   - an mbuf has one owner, who frees it once (OneOwner): IInv says who, *)
(*     AInv accounts for what was freed;                                   *)
(*   - the state keeps its type (TypeOK), from TInv;                       *)
(*   - the clock does not run backwards (AgesAreReal), from Ages;          *)
(*   - a test that reports nothing has freed every mbuf once               *)
(*     (GreenIsClean), from Books, what the zone counts once the mistake   *)
(*     is made;                                                            *)
(*   - a test that reports nothing saw no flush at the wrong time          *)
(*     (FlushedOnTime), from Paid, which counts the calls that if_input    *)
(*     waits for;                                                          *)
(*   - a test that reports nothing saw every byte that LRO took go up the  *)
(*     stack (GreenLosesNothing): BytesUp says what the mock has seen,     *)
(*     Given what LRO has taken.                                           *)
(***************************************************************************)
EXTENDS LroHarness, UmaZone_proofs, SequenceTheorems, TLAPS

(* Times: sums and differences are exact and normal, for any length of the *)
(* second, and the comparison agrees with what the times stand for.        *)

USE DEF Timeval, IsNormal

\* Multiplication by the length of the second respects sums, differences and the
\* order.
LEMMA Seconds ==
  ASSUME NEW m \in Int, NEW n \in Int
  PROVE  /\ (m + n) * UsecPerSec = m * UsecPerSec + n * UsecPerSec
         /\ (m - n) * UsecPerSec = m * UsecPerSec - n * UsecPerSec
         /\ m > n => m * UsecPerSec >= n * UsecPerSec + UsecPerSec
         /\ m * UsecPerSec \in Int
<1> UsecPerSec \in Int /\ UsecPerSec > 0  BY TimevalAssumption
<1>1. (m + n) * UsecPerSec = m * UsecPerSec + n * UsecPerSec  OBVIOUS
<1>2. (m - n) * UsecPerSec = m * UsecPerSec - n * UsecPerSec  OBVIOUS
<1>3. ASSUME m > n PROVE m * UsecPerSec >= n * UsecPerSec + UsecPerSec
  <2> DEFINE d == m - n
  <2>1. d \in Int /\ d >= 1  BY <1>3
  <2>2. d * UsecPerSec >= UsecPerSec
    <3> HIDE DEF d
    <3> QED  BY <2>1
  <2>3. d * UsecPerSec = m * UsecPerSec - n * UsecPerSec  BY <1>2
  <2> QED  BY <2>2, <2>3
<1> QED  BY <1>1, <1>2, <1>3

\* timevalfix (timeval.cpp:36) does not change what a time stands for, and makes
\* it normal if tv_usec is off by less than a second.
LEMMA Fixing ==
  ASSUME NEW t \in Timeval
  PROVE  /\ timevalfix(t) \in Timeval
         /\ Micros(timevalfix(t)) = Micros(t)
         /\ t.tv_usec \in (-UsecPerSec)..(2 * UsecPerSec - 1) => IsNormal(timevalfix(t))
<1> DEFINE U == UsecPerSec
           f == timevalfix(t)
<1>0. U \in Int /\ U > 0 /\ t.tv_sec \in Int /\ t.tv_usec \in Int  BY TimevalAssumption
<1>1. \/ f = t /\ t.tv_usec >= 0 /\ t.tv_usec < U
      \/ /\ f = [tv_sec |-> t.tv_sec - 1, tv_usec |-> t.tv_usec + U]
         /\ t.tv_usec < 0
      \/ /\ f = [tv_sec |-> t.tv_sec + 1, tv_usec |-> t.tv_usec - U]
         /\ t.tv_usec >= U
  BY <1>0 DEF timevalfix
<1>2. f \in Timeval  BY <1>0, <1>1
<1>3. Micros(f) = Micros(t)
  <2>1. /\ (t.tv_sec + 1) * U = t.tv_sec * U + U
        /\ (t.tv_sec - 1) * U = t.tv_sec * U - U
        /\ t.tv_sec * U \in Int
    BY <1>0, Seconds
  <2>2. Micros(f) = f.tv_sec * U + f.tv_usec /\ Micros(t) = t.tv_sec * U + t.tv_usec
    BY DEF Micros
  <2> HIDE DEF U
  <2> QED  BY <1>0, <1>1, <2>1, <2>2
<1>4. t.tv_usec \in (-U)..(2 * U - 1) => IsNormal(f)  BY <1>0, <1>1
<1> QED  BY <1>2, <1>3, <1>4

\* timevaladd (timeval.cpp:18) adds.
THEOREM AddExact ==
  ASSUME NEW a, NEW b, IsNormal(a), IsNormal(b)
  PROVE  /\ IsNormal(timevaladd(a, b))
         /\ Micros(timevaladd(a, b)) = Micros(a) + Micros(b)
<1> DEFINE s == [tv_sec |-> a.tv_sec + b.tv_sec, tv_usec |-> a.tv_usec + b.tv_usec]
<1>0. UsecPerSec \in Int /\ UsecPerSec > 0  BY TimevalAssumption
<1>1. s \in Timeval /\ s.tv_usec \in (-UsecPerSec)..(2 * UsecPerSec - 1)  BY <1>0
<1>2. timevaladd(a, b) = timevalfix(s)  BY DEF timevaladd
<1>3. Micros(s) = Micros(a) + Micros(b)
  <2>1. (a.tv_sec + b.tv_sec) * UsecPerSec = a.tv_sec * UsecPerSec + b.tv_sec * UsecPerSec
    BY Seconds
  <2>2. a.tv_sec * UsecPerSec \in Int /\ b.tv_sec * UsecPerSec \in Int  BY Seconds
  <2> QED  BY <1>0, <2>1, <2>2 DEF Micros
<1> QED  BY <1>1, <1>2, <1>3, Fixing

\* timevalsub (timeval.cpp:27) subtracts, also when the clock has run backwards:
\* the seconds are then negative, the microseconds never.
THEOREM SubExact ==
  ASSUME NEW a, NEW b, IsNormal(a), IsNormal(b)
  PROVE  /\ IsNormal(timevalsub(a, b))
         /\ Micros(timevalsub(a, b)) = Micros(a) - Micros(b)
<1> DEFINE s == [tv_sec |-> a.tv_sec - b.tv_sec, tv_usec |-> a.tv_usec - b.tv_usec]
<1>0. UsecPerSec \in Int /\ UsecPerSec > 0  BY TimevalAssumption
<1>1. s \in Timeval /\ s.tv_usec \in (-UsecPerSec)..(2 * UsecPerSec - 1)  BY <1>0
<1>2. timevalsub(a, b) = timevalfix(s)  BY DEF timevalsub
<1>3. Micros(s) = Micros(a) - Micros(b)
  <2>1. (a.tv_sec - b.tv_sec) * UsecPerSec = a.tv_sec * UsecPerSec - b.tv_sec * UsecPerSec
    BY Seconds
  <2>2. a.tv_sec * UsecPerSec \in Int /\ b.tv_sec * UsecPerSec \in Int  BY Seconds
  <2> QED  BY <1>0, <2>1, <2>2 DEF Micros
<1> QED  BY <1>1, <1>2, <1>3, Fixing

\* The kernel's comparison of seconds first and microseconds second is the order
\* of the times: what tcp_lro_flush_inactive decides with, for times that the
\* functions above have made normal.
THEOREM CompareExact ==
  ASSUME NEW a, NEW b, IsNormal(a), IsNormal(b)
  PROVE  NotBefore(a, b) <=> Micros(a) >= Micros(b)
<1>0. UsecPerSec \in Int /\ UsecPerSec > 0  BY TimevalAssumption
<1>1. /\ a.tv_sec \in Int /\ b.tv_sec \in Int
      /\ a.tv_usec \in 0..(UsecPerSec - 1) /\ b.tv_usec \in 0..(UsecPerSec - 1)
  OBVIOUS
<1>2. /\ a.tv_sec > b.tv_sec => a.tv_sec * UsecPerSec >= b.tv_sec * UsecPerSec + UsecPerSec
      /\ b.tv_sec > a.tv_sec => b.tv_sec * UsecPerSec >= a.tv_sec * UsecPerSec + UsecPerSec
      /\ a.tv_sec * UsecPerSec \in Int /\ b.tv_sec * UsecPerSec \in Int
  BY <1>1, Seconds
<1> QED  BY <1>0, <1>1, <1>2 DEF NotBefore, Micros

HIDE DEF Timeval, IsNormal
-----------------------------------------------------------------------------
(* TestAutoFlush, for the numbers that the model-checked instance scales.  *)

\* An MTU larger than the headers is the headers and the largest payload.
LEMMA MtuParts ==
  ASSUME NEW net \in Nat \ {0}, NEW tcp \in Nat \ {0}, NEW mtu \in Nat, net + tcp < mtu
  PROVE  LET h == net + tcp
             m == mtu - net - tcp
         IN  h \in Nat \ {0} /\ m \in Nat \ {0} /\ mtu = m + h
  OBVIOUS

\* How many packets of m bytes, with headers of h, leave room for another one in M
\* bytes: the quotient M \div m counts the headers of none of them.
LEMMA RoomForAnother ==
  ASSUME NEW h \in Nat, NEW m \in Nat \ {0}, NEW M \in Nat, NEW n \in Nat
  PROVE  IF M % m >= 2 * h
         THEN h + n * m + (m + h) > M <=> n >= M \div m
         ELSE n >= (M \div m) - 1 => h + n * m + (m + h) > M
<1> DEFINE k == M \div m
           r == M % m
           c == k * m
           l == n * m
<1>1. k \in Nat /\ r \in Nat /\ r < m  OBVIOUS
<1>2. c \in Nat /\ l \in Nat /\ M = c + r  OBVIOUS
<1> HIDE DEF k, r, c
<1>3. n >= k => l >= c
  <2>1. SUFFICES ASSUME n >= k PROVE l >= c  OBVIOUS
  <2>2. PICK d \in Nat : n = k + d  BY <1>1, <2>1
  <2>3. l = c + d * m /\ d * m \in Nat  BY <1>1, <2>2 DEF c
  <2> QED  BY <1>2, <2>3
<1>4. n >= k - 1 => l + m >= c
  <2>1. SUFFICES ASSUME n >= k - 1 PROVE l + m >= c  OBVIOUS
  <2>2. PICK d \in Nat : n + 1 = k + d  BY <1>1, <2>1
  <2>3. l + m = (n + 1) * m  OBVIOUS
  <2>4. (k + d) * m = k * m + d * m /\ d * m \in Nat  BY <1>1
  <2>5. l + m = c + d * m  BY <2>2, <2>3, <2>4 DEF c
  <2> QED  BY <1>2, <2>4, <2>5
<1>5. n < k => l + m <= c
  <2>1. SUFFICES ASSUME n < k PROVE l + m <= c  OBVIOUS
  <2>2. PICK d \in Nat : k = (n + 1) + d
    <3>1. k - (n + 1) \in Nat /\ k = (n + 1) + (k - (n + 1))  BY <1>1, <2>1
    <3> QED  BY <3>1
  <2>3. l + m = (n + 1) * m  OBVIOUS
  <2>4. ((n + 1) + d) * m = (n + 1) * m + d * m /\ d * m \in Nat  OBVIOUS
  <2>5. c = l + m + d * m  BY <2>2, <2>3, <2>4 DEF c
  <2> QED  BY <1>2, <2>4, <2>5
<1> HIDE DEF l
<1>6. CASE r >= 2 * h
  <2>1. n >= k => h + l + (m + h) > M   BY <1>1, <1>2, <1>3
  <2>2. n < k => h + l + (m + h) <= M  BY <1>1, <1>2, <1>5, <1>6
  <2>3. h + l + (m + h) > M <=> n >= k  BY <1>1, <1>2, <2>1, <2>2
  <2> QED  BY <1>6, <2>3 DEF k, r, l
<1>7. CASE ~(r >= 2 * h)
  <2>1. n >= k - 1 => h + l + (m + h) > M  BY <1>1, <1>2, <1>4, <1>7
  <2> QED  BY <1>7, <2>1 DEF k, r, l
<1> QED  BY <1>6, <1>7

\* The number of packets after which TestAutoFlush expects LRO to flush
\* (tcp_lro.gtest.cpp:870), which counts payloads alone, is the number after which
\* LRO has no room for another packet of the MTU if what the division leaves over
\* holds the headers of two packets; if not, LRO flushes one packet earlier.
THEOREM AutoFlushCount ==
  ASSUME NEW v \in {"v4", "v6"}, NEW n \in Nat, NEW p,
         p.ip.headerLen = GetNetworkHeaderLen(v),
         Len(p.pay) = n * (IfMtu - GetNetworkHeaderLen(v) - TcpHdr)
  PROVE  LET headers    == GetNetworkHeaderLen(v) + TcpHdr
             maxPayload == IfMtu - GetNetworkHeaderLen(v) - TcpHdr
             packets    == IpMaxPacket \div maxPayload
         IN  IF IpMaxPacket % maxPayload >= 2 * headers
             THEN Full(p, IfMtu) <=> n >= packets
             ELSE n >= packets - 1 => Full(p, IfMtu)
<1> DEFINE net == GetNetworkHeaderLen(v)
           h == net + TcpHdr
           m == IfMtu - net - TcpHdr
<1>1. /\ net \in Nat \ {0} /\ TcpHdr \in Nat \ {0} /\ net + TcpHdr < IfMtu
      /\ IfMtu \in Nat /\ IpMaxPacket \in Nat
  BY LroAssumption DEF GetNetworkHeaderLen
<1>2. h \in Nat /\ m \in Nat \ {0} /\ IfMtu = m + h
  <2> HIDE DEF net
  <2> QED  BY <1>1, MtuParts
<1>3. Full(p, IfMtu) <=> h + n * m + (m + h) > IpMaxPacket
  <2>1. p.ip.headerLen = net /\ Len(p.pay) = n * m  OBVIOUS
  <2>2. Full(p, IfMtu) <=> net + TcpHdr + n * m + IfMtu > IpMaxPacket  BY <2>1 DEF Full
  <2> HIDE DEF net, m
  <2> QED  BY <1>2, <2>2
<1> HIDE DEF net, h, m
<1>4. IF IpMaxPacket % m >= 2 * h
      THEN Full(p, IfMtu) <=> n >= IpMaxPacket \div m
      ELSE n >= (IpMaxPacket \div m) - 1 => Full(p, IfMtu)
  BY <1>1, <1>2, <1>3, RoomForAnother
<1> QED  BY <1>4 DEF net, h, m

\* With the numbers of the test, 44 packets over IPv4 and 45 over IPv6.
THEOREM AutoFlushHolds ==
  ASSUME NetHdr = [v4 |-> 20, v6 |-> 40], TcpHdr = 20, IpMaxPacket = 65535, IfMtu = 1500,
         NEW v \in {"v4", "v6"}, NEW n \in Nat, NEW p,
         p.ip.headerLen = GetNetworkHeaderLen(v),
         Len(p.pay) = n * (IfMtu - GetNetworkHeaderLen(v) - TcpHdr)
  PROVE  LET packets == IpMaxPacket \div (IfMtu - GetNetworkHeaderLen(v) - TcpHdr)
         IN  /\ packets = IF v = "v4" THEN 44 ELSE 45
             /\ Full(p, IfMtu) <=> n >= packets
<1> DEFINE h == GetNetworkHeaderLen(v) + TcpHdr
           m == IfMtu - GetNetworkHeaderLen(v) - TcpHdr
<1>1. CASE v = "v4"
  <2>1. h = 40 /\ m = 1460  BY <1>1 DEF GetNetworkHeaderLen
  <2>2. 65535 \div 1460 = 44 /\ 65535 % 1460 = 1295  OBVIOUS
  <2>3. IpMaxPacket \div m = 44 /\ IpMaxPacket % m >= 2 * h
    <3> HIDE DEF h, m
    <3> QED  BY <2>1, <2>2
  <2> QED  BY <1>1, <2>3, AutoFlushCount
<1>2. CASE v = "v6"
  <2>1. h = 60 /\ m = 1440  BY <1>2 DEF GetNetworkHeaderLen
  <2>2. 65535 \div 1440 = 45 /\ 65535 % 1440 = 735  OBVIOUS
  <2>3. IpMaxPacket \div m = 45 /\ IpMaxPacket % m >= 2 * h
    <3> HIDE DEF h, m
    <3> QED  BY <2>1, <2>2
  <2> QED  BY <1>2, <2>3, AutoFlushCount
<1> QED  BY <1>1, <1>2
-----------------------------------------------------------------------------
(* Sets of owners.                                                         *)

Chained(Q) == UNION {e.mbufs : e \in Q}

\* The mbufs H belong to the pointer (K), to the call (P) or to one entry of Q.
\* Pointer and call may share an mbuf; nobody shares with an entry.
Owns(H, K, P, Q) ==
  /\ H = K \cup P \cup Chained(Q)
  /\ \A e \in Q : e.mbufs \cap (K \cup P) = {}
  /\ \A e, f \in Q : e # f => e.mbufs \cap f.mbufs = {}

\* An entry leaves the queue and its mbufs are freed.
LEMMA Leave ==
  ASSUME NEW H, NEW K, NEW P, NEW Q, Owns(H, K, P, Q), NEW e \in Q
  PROVE  Owns(H \ e.mbufs, K, P, Q \ {e})
<1>1. Chained(Q) = e.mbufs \cup Chained(Q \ {e})  BY DEF Chained
<1>2. e.mbufs \cap Chained(Q \ {e}) = {}  BY DEF Chained, Owns
<1>3. e.mbufs \cap (K \cup P) = {}  BY DEF Owns
<1>4. H \ e.mbufs = K \cup P \cup Chained(Q \ {e})  BY <1>1, <1>2, <1>3 DEF Owns
<1> QED  BY <1>4 DEF Owns

\* All entries leave.
LEMMA Drain ==
  ASSUME NEW H, NEW K, NEW P, NEW Q, Owns(H, K, P, Q)
  PROVE  Owns(H \ Chained(Q), K, P, {})
<1>1. Chained({}) = {}  BY DEF Chained
<1>2. Chained(Q) \cap (K \cup P) = {}  BY DEF Chained, Owns
<1> QED  BY <1>1, <1>2 DEF Owns

\* An entry joins with what the call owned.
LEMMA Join ==
  ASSUME NEW H, NEW K, NEW P, NEW Q, Owns(H, K, P, Q), NEW f, f.mbufs = P, P \cap K = {}
  PROVE  Owns(H, K, {}, Q \cup {f})
<1>1. Chained(Q \cup {f}) = Chained(Q) \cup P  BY DEF Chained
<1> QED  BY <1>1 DEF Owns

\* The call gives up what it owned, which is freed.
LEMMA GiveUp ==
  ASSUME NEW H, NEW K, NEW P, NEW Q, Owns(H, K, P, Q), P \cap K = {}
  PROVE  Owns(H \ P, K, {}, Q)
<1>1. P \cap Chained(Q) = {}  BY DEF Chained, Owns
<1> QED  BY <1>1 DEF Owns

\* An entry is replaced by one with the mbufs of the call as well.
LEMMA Grow ==
  ASSUME NEW H, NEW K, NEW P, NEW Q, Owns(H, K, P, Q), P \cap K = {},
         NEW e \in Q, NEW f, f.mbufs = e.mbufs \cup P
  PROVE  Owns(H, K, {}, (Q \ {e}) \cup {f})
<1>1. Chained(Q) = e.mbufs \cup Chained(Q \ {e})  BY DEF Chained
<1>2. Chained((Q \ {e}) \cup {f}) = Chained(Q \ {e}) \cup f.mbufs  BY DEF Chained
<1>3. \A x \in Q \ {e} : x.mbufs \cap f.mbufs = {}  BY DEF Owns
<1>4. f.mbufs \cap K = {}  BY DEF Owns
<1>5. H = K \cup {} \cup Chained((Q \ {e}) \cup {f})  BY <1>1, <1>2 DEF Owns
<1> QED  BY <1>3, <1>4, <1>5 DEF Owns

\* An entry is replaced by one with the same mbufs.
LEMMA Replace ==
  ASSUME NEW H, NEW K, NEW P, NEW Q, Owns(H, K, P, Q),
         NEW e \in Q, NEW f, f.mbufs = e.mbufs
  PROVE  Owns(H, K, P, (Q \ {e}) \cup {f})
<1>1. Chained((Q \ {e}) \cup {f}) = Chained(Q)  BY DEF Chained
<1> QED  BY <1>1 DEF Owns

\* What the pointer owned is freed, while there is no call.
LEMMA Reset ==
  ASSUME NEW H, NEW K, NEW Q, Owns(H, K, {}, Q)
  PROVE  Owns(H \ K, {}, {}, Q)
<1>1. K \cap Chained(Q) = {}  BY DEF Chained, Owns
<1> QED  BY <1>1 DEF Owns

\* A new mbuf, for the call alone or for both.
LEMMA Allocate ==
  ASSUME NEW H, NEW K, NEW Q, Owns(H, K, {}, Q), NEW m, m \notin H
  PROVE  Owns(H \cup {m}, K, {m}, Q) /\ Owns((H \cup {m}) \ K, {m}, {m}, Q)
<1>1. K \cap Chained(Q) = {} /\ m \notin K /\ m \notin Chained(Q)  BY DEF Chained, Owns
<1>2. \A e \in Q : m \notin e.mbufs  BY <1>1 DEF Chained
<1> QED  BY <1>1, <1>2 DEF Owns
-----------------------------------------------------------------------------
(* The invariant.                                                          *)

IsSeq(s) == \E S : s \in Seq(S)

\* A sequence of anything grows by one.
LEMMA Longer ==
  ASSUME NEW s, IsSeq(s), NEW x
  PROVE  IsSeq(Append(s, x)) /\ Len(s) \in Nat /\ Len(Append(s, x)) = Len(s) + 1
<1>1. PICK S : s \in Seq(S)  BY DEF IsSeq
<1>2. s \in Seq(S \cup {x}) /\ x \in S \cup {x}  BY <1>1
<1>3. Append(s, x) \in Seq(S \cup {x})  BY <1>2
<1>4. Len(s) \in Nat /\ Len(Append(s, x)) = Len(s) + 1  BY <1>2
<1> QED  BY <1>3, <1>4 DEF IsSeq

ZoneFields == {"alloced", "held", "junk", "smashed", "fails", "dead"}

Shape ==
  /\ DOMAIN zone = ZoneFields
  /\ at \in [fn : Nat, pc : Nat \ {0}]
  /\ IsSeq(pkts)
  /\ kept \in 0..Len(pkts) /\ arg \in 0..Len(pkts)

\* The fixture runs a function of a test.
Placed ==
  phase = "body" =>
    /\ test.version \in DOMAIN Scripts /\ test.name \in DOMAIN Scripts[test.version]
    /\ at.fn \in DOMAIN Scripts[test.version][test.name]

\* tcp_lro_rx is called in a step of this kind, with an mbuf that the pointer has
\* or has not.
InCall ==
  /\ arg = 0 => ret = "none"
  /\ arg # 0 => At("rx") /\ (Step.raw <=> kept # arg)

\* What the call has not given to a queue entry.
Pending == IF ret = Taken THEN {} ELSE {arg} \ {0}

\* The ownership, while the code under test behaves and the result of the call,
\* once there is one, is what the test wants.
Owned ==
  ~wrong /\ "assert" \notin failed /\ (ret = "none" \/ ret = Step.ret) =>
    /\ Owns(zone.held, KeptSet, Pending, queue)
    /\ \A e \in queue : e.mbufs \subseteq 1..Len(pkts)

IInv == Shape /\ Placed /\ InCall /\ Owned

\* A step of the test that runs is one of its function's.
LEMMA StepTaken ==
  ASSUME Shape, Placed, At("rx")
  PROVE  Step.raw <=> Step.ret = Taken
<1>1. test.version \in DOMAIN Scripts /\ test.name \in DOMAIN Scripts[test.version]
      /\ at.fn \in DOMAIN Scripts[test.version][test.name]
  BY DEF Placed, At, InBody
<1>2. IsFunction(Function)  BY <1>1, HarnessAssumption DEF Function, IsTest
<1>3. at.pc \in DOMAIN Function  BY <1>2 DEF Shape, At, InBody, IsFunction
<1> QED  BY <1>2, <1>3 DEF IsFunction, Step, At
-----------------------------------------------------------------------------
(* What the actions are made of.                                           *)

\* m_freem, uma_zalloc_arg and uma_zfree_arg, as far as the owners are concerned.
LEMMA Freed ==
  ASSUME Shape, NEW S, m_freem(S)
  PROVE  zone'.held = zone.held \ S /\ DOMAIN zone' = ZoneFields
BY DEF m_freem, Shape, ZoneFields

\* uma_zalloc_arg lends the item out ...
LEMMA Allocated ==
  ASSUME NEW z, DOMAIN z = ZoneFields, NEW m
  PROVE  /\ uma_zalloc_arg(z, m).held = z.held \cup {m}
         /\ DOMAIN uma_zalloc_arg(z, m) = ZoneFields
<1> DEFINE inited == trash_dtor(fill_redzone(z, m), m)
<1>1. DOMAIN inited = ZoneFields /\ inited.held = z.held
  BY DEF trash_dtor, fill_redzone, ZoneFields
<1>2. uma_zalloc_arg(z, m)
        = [mb_ctor_mbuf(inited, m) EXCEPT !.alloced = (mb_ctor_mbuf(inited, m).alloced + 1) % CountMod,
                                           !.held = mb_ctor_mbuf(inited, m).held \cup {m}]
  BY DEF uma_zalloc_arg
<1> HIDE DEF inited
<1>3. DOMAIN mb_ctor_mbuf(inited, m) = ZoneFields /\ mb_ctor_mbuf(inited, m).held = z.held
  BY <1>1 DEF mb_ctor_mbuf, trash_ctor, ZoneFields
<1> QED  BY <1>2, <1>3 DEF ZoneFields

\* ... and uma_zfree_arg takes it back.
LEMMA Released ==
  ASSUME NEW z, DOMAIN z = ZoneFields, NEW m
  PROVE  /\ uma_zfree_arg(z, m).held = z.held \ {m}
         /\ DOMAIN uma_zfree_arg(z, m) = ZoneFields
<1> DEFINE counted == [z EXCEPT !.fails = IF z.alloced > 0 THEN @ ELSE @ \cup {"extraFree"},
                                !.alloced = (@ - 1) % CountMod]
           torn    == trash_ctor(trash_dtor(counted, m), m)
           checked == verify_redzone(torn, m)
<1>1. DOMAIN counted = ZoneFields /\ counted.held = z.held  BY DEF ZoneFields
<1>2. uma_zfree_arg(z, m) = [checked EXCEPT !.held = checked.held \ {m}]
  BY DEF uma_zfree_arg
<1> HIDE DEF counted
<1>3. DOMAIN torn = ZoneFields /\ torn.held = z.held
  BY <1>1 DEF trash_ctor, trash_dtor, ZoneFields
<1> HIDE DEF torn
<1>4. DOMAIN checked = ZoneFields /\ checked.held = z.held
  BY <1>3 DEF verify_redzone, ZoneFields
<1> HIDE DEF checked
<1> QED  BY <1>2, <1>4 DEF ZoneFields

\* A mock may report a call, but that is no failed ASSERT_.
LEMMA Reported ==
  ASSUME NEW p, NEW S, IfInput(gm, p, S) \/ getmicrotime(p)
  PROVE  "assert" \notin failed' => "assert" \notin failed
BY DEF IfInput, getmicrotime
-----------------------------------------------------------------------------
(* The steps.                                                              *)

\* The groups of variables.
USE DEF mocks, memory, lro, call, program

\* Nothing is owned before the first test.
LEMMA InitInv == Init => IInv
<1> SUFFICES ASSUME Init PROVE IInv  OBVIOUS
<1>1. Shape
  <2>1. IsSeq(pkts) /\ Len(pkts) = 0
    <3>1. pkts = <<>> /\ pkts \in Seq({})  BY DEF Init
    <3> QED  BY <3>1 DEF IsSeq
  <2> QED  BY <2>1 DEF Init, Shape, NewZone, ZoneFields
<1>2. Placed /\ InCall  BY DEF Init, Placed, InCall
<1>3. Owned
  <2>1. KeptSet = {} /\ Pending = {} /\ zone.held = {} /\ queue = {}
    BY DEF Init, KeptSet, Pending, NewZone
  <2> QED  BY <2>1 DEF Owned, Owns, Chained
<1> QED  BY <1>1, <1>2, <1>3 DEF IInv

\* The steps of a call and of a flush.
Working ==
  \/ Rx \/ ReadClock \/ FlushOne \/ Errs

\* They leave the fixture and the pointer alone.
LEMMA WorkingFrame ==
  ASSUME Shape, Working
  PROVE  /\ UNCHANGED <<pkts, arg, program, at, kept>> \/ FlushErr
         /\ UNCHANGED <<pkts, arg, program, kept>>
         /\ DOMAIN zone' = ZoneFields
         /\ "assert" \notin failed' => "assert" \notin failed
<1> USE DEF Returns, PassOn
<1>0. UNCHANGED zone => DOMAIN zone' = ZoneFields  BY DEF Shape
<1>1. CASE RxRefuse  BY <1>0, <1>1 DEF RxRefuse
<1>2. CASE RxFlush  BY <1>2, Freed DEF RxFlush, IfInput
<1>3. CASE RxQueue  BY <1>0, <1>3 DEF RxQueue, getmicrotime
<1>4. CASE RxAbsorb  BY <1>4, Freed DEF RxAbsorb
<1>5. CASE RxAppend  BY <1>0, <1>5 DEF RxAppend, getmicrotime
<1>6. CASE RxFill  BY <1>6, Freed DEF RxFill, IfInput
<1>7. CASE ReadClock  BY <1>0, <1>7 DEF ReadClock, getmicrotime
<1>8. CASE FlushOne  BY <1>8, Freed DEF FlushOne, IfInput
<1>9. CASE RxErr  BY <1>0, <1>9, Freed DEF RxErr, IfInput
<1>10. CASE EntryErr  BY <1>0, <1>10, Freed DEF EntryErr, IfInput
<1>11. CASE FreeErr  BY <1>11, Freed DEF FreeErr
<1>12. CASE FlushErr  BY <1>0, <1>12 DEF FlushErr
<1> QED  BY <1>1, <1>2, <1>3, <1>4, <1>5, <1>6, <1>7, <1>8, <1>9, <1>10, <1>11, <1>12
         DEF Working, Rx, Errs

\* Next, with the steps of a call and of a flush as one.
LEMMA NextCases ==
  ASSUME [Next]_vars
  PROVE  \/ Working \/ FlushDone \/ Generate \/ Assert
         \/ Return \/ TestCaseTearDown \/ TearDown
         \/ SetExpectation \/ CallMockSequence \/ EnableForwardingStep \/ SetIfMtuStep
         \/ FreeStep
         \/ \E v \in DOMAIN Scripts : \E name \in DOMAIN Scripts[v] : SetUp(name, v)
         \/ UNCHANGED vars
BY DEF Next, Run, Working

\* Each part of the invariant is preserved.
LEMMA ShapeStep ==
  ASSUME IInv, [Next]_vars
  PROVE  Shape'
<1> USE DEF IInv
<1>0. /\ Len(pkts) \in Nat /\ at.pc + 1 \in Nat \ {0}
      /\ UNCHANGED zone => DOMAIN zone' = ZoneFields
      /\ Advance => at' \in [fn : Nat, pc : Nat \ {0}]
  BY Longer DEF Shape, Advance
<1>1. CASE Working
  <2>1. at' = at \/ Advance  BY <1>1, WorkingFrame DEF FlushErr
  <2> QED  BY <1>0, <1>1, <2>1, WorkingFrame DEF Shape
<1>2. CASE FlushDone  BY <1>0, <1>2 DEF FlushDone, Shape
<1>3. CASE Generate
  <2> DEFINE m == Len(pkts) + 1
             z == uma_zalloc_arg(zone, m)
  <2>1. IsSeq(pkts') /\ Len(pkts') = Len(pkts) + 1 /\ arg' = m /\ kept' \in {kept, m}
    BY <1>3, Longer DEF Generate, Shape
  <2>2. DOMAIN z = ZoneFields  BY Allocated DEF Shape
  <2>3. DOMAIN zone' = ZoneFields
    <3> HIDE DEF z
    <3>1. zone' = z \/ zone' = uma_zfree_arg(z, kept)  BY <1>3 DEF Generate, z
    <3> QED  BY <2>2, <3>1, Released
  <2> QED  BY <1>0, <1>3, <2>1, <2>3 DEF Generate, Shape
<1>4. CASE Assert
  <2>1. Advance \/ at' = [at EXCEPT !.pc = Len(Function) + 1]  BY <1>4 DEF Assert
  <2>2. at' \in [fn : Nat, pc : Nat \ {0}]
    <3>1. At("rx")  BY <1>4 DEF Assert, InCall
    <3>2. Len(Function) \in Nat
      BY <3>1, HarnessAssumption DEF Placed, At, InBody, Function, IsFunction, IsTest
    <3> QED  BY <1>0, <2>1, <3>2 DEF Shape
  <2> QED  BY <1>0, <1>4, <2>2 DEF Assert, Shape
<1>5. CASE Return
  <2>1. DOMAIN zone' = ZoneFields  BY <1>5, Freed DEF Return
  <2> QED  BY <1>0, <1>5, <2>1 DEF Return, Shape
<1>6. CASE TestCaseTearDown
  <2>1. DOMAIN zone' = ZoneFields
    BY <1>0, <1>6, Freed DEF TestCaseTearDown, tcp_lro_free
  <2> QED  BY <1>0, <1>6, <2>1 DEF TestCaseTearDown, Shape
<1>7. CASE TearDown
  <2>1. DOMAIN zone' = ZoneFields  BY <1>7 DEF TearDown, uma_zdestroy, Shape, ZoneFields
  <2> QED  BY <1>0, <1>7, <2>1 DEF TearDown, Shape
<1>8. CASE SetExpectation \/ CallMockSequence \/ EnableForwardingStep \/ SetIfMtuStep
  BY <1>0, <1>8 DEF SetExpectation, CallMockSequence, EnableForwardingStep, SetIfMtuStep, Shape
<1>9. CASE FreeStep
  <2>1. DOMAIN zone' = ZoneFields  BY <1>9, Freed DEF FreeStep, tcp_lro_free
  <2> QED  BY <1>0, <1>9, <2>1 DEF FreeStep, Shape
<1>10. ASSUME NEW v \in DOMAIN Scripts, NEW name \in DOMAIN Scripts[v], SetUp(name, v)
       PROVE  Shape'
  <2>1. IsSeq(pkts') /\ Len(pkts') = 0
    <3>1. pkts' = <<>> /\ pkts' \in Seq({})  BY <1>10 DEF SetUp
    <3> QED  BY <3>1 DEF IsSeq
  <2> QED  BY <1>10, <2>1 DEF SetUp, Shape, NewZone, ZoneFields
<1>11. CASE UNCHANGED vars  BY <1>11 DEF vars, Shape
<1> QED  BY <1>1, <1>2, <1>3, <1>4, <1>5, <1>6, <1>7, <1>8, <1>9, <1>10, <1>11, NextCases

\* The test stays within its functions.
LEMMA PlacedStep ==
  ASSUME IInv, [Next]_vars
  PROVE  Placed'
<1> USE DEF IInv
<1>0. /\ Advance => at'.fn = at.fn
      /\ UNCHANGED <<test, phase>> /\ at'.fn = at.fn => Placed'
  BY DEF Advance, Shape, Placed
<1>1. CASE Working
  <2>1. at' = at \/ Advance  BY <1>1, WorkingFrame DEF FlushErr
  <2> QED  BY <1>0, <1>1, <2>1, WorkingFrame
<1>2. CASE FlushDone  BY <1>0, <1>2 DEF FlushDone
<1>3. CASE Generate  BY <1>0, <1>3 DEF Generate
<1>4. CASE Assert
  <2>1. at'.fn = at.fn  BY <1>0, <1>4 DEF Assert, Shape
  <2> QED  BY <1>0, <1>4, <2>1 DEF Assert
<1>5. CASE Return
  <2>1. CASE phase' = "caseTearDown"  BY <2>1 DEF Placed
  <2>2. CASE phase' # "caseTearDown"
    <3>1. /\ at.fn < Len(Scripts[test.version][test.name])
          /\ at' = [fn |-> at.fn + 1, pc |-> 1] /\ UNCHANGED <<phase, test>>
      BY <1>5, <2>2 DEF Return
    <3>2. /\ test.version \in DOMAIN Scripts /\ test.name \in DOMAIN Scripts[test.version]
          /\ at.fn \in DOMAIN Scripts[test.version][test.name]
      BY <1>5 DEF Return, Placed
    <3>3. at.fn + 1 \in DOMAIN Scripts[test.version][test.name]
      BY <3>1, <3>2, HarnessAssumption DEF IsTest
    <3> QED  BY <3>1, <3>2, <3>3 DEF Placed
  <2> QED  BY <2>1, <2>2
<1>6. CASE TestCaseTearDown \/ TearDown  BY <1>6 DEF TestCaseTearDown, TearDown, Placed
<1>7. CASE SetExpectation \/ CallMockSequence \/ EnableForwardingStep \/ SetIfMtuStep
  BY <1>0, <1>7 DEF SetExpectation, CallMockSequence, EnableForwardingStep, SetIfMtuStep
<1>8. CASE FreeStep  BY <1>0, <1>8 DEF FreeStep
<1>9. ASSUME NEW v \in DOMAIN Scripts, NEW name \in DOMAIN Scripts[v], SetUp(name, v)
      PROVE  Placed'
  <2>1. test' = [name |-> name, version |-> v] /\ at' = [fn |-> 1, pc |-> 1]
    BY <1>9 DEF SetUp
  <2>2. 1 \in DOMAIN Scripts[v][name]  BY HarnessAssumption DEF IsTest
  <2> QED  BY <2>1, <2>2 DEF Placed
<1>10. CASE UNCHANGED vars  BY <1>10 DEF vars, Placed
<1> QED  BY <1>1, <1>2, <1>3, <1>4, <1>5, <1>6, <1>7, <1>8, <1>9, <1>10, NextCases

\* A call of tcp_lro_rx is under way only at a step that makes one.
LEMMA InCallStep ==
  ASSUME IInv, [Next]_vars
  PROVE  InCall'
<1> USE DEF IInv
<1>0. arg = 0 /\ UNCHANGED <<arg, ret>> => InCall'  BY DEF InCall
<1>1. CASE Working
  <2>1. CASE FlushErr
    <3>1. arg = 0  BY <2>1 DEF FlushErr, Flushing, At, InCall
    <3> QED  BY <1>0, <2>1, <3>1 DEF FlushErr
  <2>2. CASE UNCHANGED <<pkts, arg, program, at, kept>>
    <3>1. Step' = Step /\ (At("rx") => At("rx")')
      BY <2>2 DEF Step, Function, At, InBody
    <3>2. arg = 0 => ret' = ret
      <4> SUFFICES ASSUME arg = 0 PROVE ret' = ret  OBVIOUS
      <4>1. ~Rx /\ ~RxErr
        BY DEF Rx, RxRefuse, RxFlush, RxQueue, RxAbsorb, RxAppend, RxFill, RxErr, Calling
      <4> QED  BY <1>1, <4>1 DEF Working, Errs, ReadClock, FlushOne, EntryErr, FreeErr, FlushErr
    <3> QED  BY <2>2, <3>1, <3>2 DEF InCall
  <2> QED  BY <1>1, <2>1, <2>2, WorkingFrame
<1>2. CASE FlushDone
  <2>1. arg = 0  BY <1>2 DEF FlushDone, Flushing, At, InCall
  <2> QED  BY <1>0, <1>2, <2>1 DEF FlushDone
<1>3. CASE Generate
  <2>1. Step' = Step /\ At("rx")'  BY <1>3 DEF Generate, Step, Function, At, InBody
  <2>2. /\ arg' = Len(pkts) + 1 /\ arg' # 0 /\ kept # arg'
        /\ \/ Step.raw /\ kept' = kept
           \/ ~Step.raw /\ kept' = arg'
    BY <1>3, Longer DEF Generate, Shape
  <2> QED  BY <2>1, <2>2 DEF InCall
<1>4. CASE Assert  BY <1>4 DEF Assert, InCall
<1>5. CASE Return \/ TestCaseTearDown \/ TearDown
  <2>1. arg = 0  BY <1>5 DEF Return, TestCaseTearDown, TearDown, At, InBody, InCall
  <2> QED  BY <1>0, <1>5, <2>1 DEF Return, TestCaseTearDown, TearDown
<1>6. CASE SetExpectation \/ CallMockSequence \/ EnableForwardingStep \/ SetIfMtuStep
            \/ FreeStep
  <2>1. arg = 0
    BY <1>6 DEF SetExpectation, CallMockSequence, EnableForwardingStep, SetIfMtuStep, FreeStep,
                At, InCall
  <2> QED  BY <1>0, <1>6, <2>1 DEF SetExpectation, CallMockSequence, EnableForwardingStep,
                                   SetIfMtuStep, FreeStep
<1>7. ASSUME NEW v \in DOMAIN Scripts, NEW name \in DOMAIN Scripts[v], SetUp(name, v)
      PROVE  InCall'
  BY <1>7 DEF SetUp, InCall
<1>8. CASE UNCHANGED vars  BY <1>8 DEF vars, InCall, At, InBody, Step, Function
<1> QED  BY <1>1, <1>2, <1>3, <1>4, <1>5, <1>6, <1>7, <1>8, NextCases

\* The values that tcp_lro_rx returns differ.
LEMMA Codes == Taken # TCP_LRO_CANNOT /\ Taken # TCP_LRO_NOT_SUPPORTED /\ Taken # "none"
BY DEF Taken, TCP_LRO_CANNOT, TCP_LRO_NOT_SUPPORTED

\* The ownership before a step of the call: the call and the pointer share the
\* mbuf exactly when the test wants it back.
LEMMA BeforeCall ==
  ASSUME IInv, Calling, ~wrong, "assert" \notin failed
  PROVE  /\ Owns(zone.held, KeptSet, {arg}, queue)
         /\ \A e \in queue : e.mbufs \subseteq 1..Len(pkts)
         /\ arg \in 1..Len(pkts)
         /\ Step.ret = Taken => {arg} \cap KeptSet = {}
<1>1. Pending = {arg}  BY Codes DEF Calling, Pending
<1>2. Step.ret = Taken => kept # arg  BY StepTaken DEF IInv, Calling, InCall
<1>3. arg \in 1..Len(pkts)  BY DEF IInv, Shape, Calling
<1> QED  BY <1>1, <1>2, <1>3 DEF IInv, Owned, Calling, KeptSet

\* The ownership in every other step of the test.
LEMMA OutsideCall ==
  ASSUME IInv, arg = 0, ~wrong, "assert" \notin failed
  PROVE  /\ Owns(zone.held, KeptSet, {}, queue) /\ ret = "none" /\ Pending = {}
         /\ \A e \in queue : e.mbufs \subseteq 1..Len(pkts)
BY DEF IInv, InCall, Owned, Pending

\* In a step of the code under test the mbufs of S are freed, or none is.
Frees(S) == m_freem(S) \/ (S = {} /\ UNCHANGED memory)

\* What tcp_lro_rx does to the ownership when it returns what the test wants, be the
\* owned mbufs those of the zone or not.
LEMMA CallOwned ==
  ASSUME Rx, ret' = Step.ret, NEW O, Owns(O, KeptSet, {arg}, queue),
         Step.ret = Taken => {arg} \cap KeptSet = {}
  PROVE  \E S \in SUBSET O :
           Frees(S) /\ Owns(O \ S, KeptSet, IF ret' = Taken THEN {} ELSE {arg}, queue')
<1> USE DEF Returns, Frees
<1> HIDE DEF KeptSet
<1>1. ASSUME NEW e \in queue PROVE e.mbufs \subseteq O /\ arg \in O
  BY DEF Owns, Chained
<1>2. CASE RxRefuse
  <2>1. ret' # Taken /\ UNCHANGED <<memory, queue>>  BY <1>2, Codes DEF RxRefuse, ErrorOf
  <2>2. {} \in SUBSET O /\ O \ {} = O  OBVIOUS
  <2> QED  BY <2>1, <2>2
<1>3. CASE RxFlush
  <2>1. PICK e \in queue : m_freem(e.mbufs) /\ queue' = queue \ {e}
    BY <1>3 DEF RxFlush, IfInput, EntriesOf
  <2>2. ret' # Taken  BY <1>3, Codes DEF RxFlush
  <2>3. Owns(O \ e.mbufs, KeptSet, {arg}, queue \ {e})  BY Leave
  <2> QED  BY <1>1, <2>1, <2>2, <2>3
<1>4. CASE RxQueue
  <2>1. PICK f : /\ queue' = queue \cup {f} /\ f.mbufs = {arg}
                 /\ UNCHANGED memory /\ ret' = Taken
    BY <1>4 DEF RxQueue
  <2>2. {} \in SUBSET O /\ O \ {} = O  OBVIOUS
  <2>3. Owns(O, KeptSet, {}, queue')  BY <2>1, Join
  <2> QED  BY <2>1, <2>2, <2>3
<1>5. CASE RxAbsorb
  <2>1. PICK e, f : e \in queue /\ queue' = (queue \ {e}) \cup {f} /\ f.mbufs = e.mbufs
    <3>1. PICK e \in queue :
            queue' = (queue \ {e}) \cup
              {[pkt |-> Acknowledged(e.pkt, Pkt), mbufs |-> e.mbufs, mtime |-> e.mtime]}
      BY <1>5 DEF RxAbsorb, EntriesOf
    <3> DEFINE f == [pkt |-> Acknowledged(e.pkt, Pkt), mbufs |-> e.mbufs, mtime |-> e.mtime]
    <3>2. queue' = (queue \ {e}) \cup {f} /\ f.mbufs = e.mbufs  BY <3>1
    <3> QED  BY <3>2
  <2>2. ret' = Taken /\ m_freem({arg})  BY <1>5 DEF RxAbsorb
  <2>3. Owns(O \ {arg}, KeptSet, {}, queue)  BY <2>2, GiveUp
  <2>4. Owns(O \ {arg}, KeptSet, {}, queue')  BY <2>1, <2>3, Replace
  <2> QED  BY <1>1, <2>1, <2>2, <2>4
<1>6. CASE RxAppend
  <2>1. PICK e, f : /\ e \in queue /\ queue' = (queue \ {e}) \cup {f}
                   /\ f.mbufs = e.mbufs \cup {arg}
                   /\ UNCHANGED memory /\ ret' = Taken
    BY <1>6 DEF RxAppend, EntriesOf
  <2>2. {} \in SUBSET O /\ O \ {} = O  OBVIOUS
  <2>3. Owns(O, KeptSet, {}, queue')  BY <2>1, Grow
  <2> QED  BY <2>1, <2>2, <2>3
<1>7. CASE RxFill
  <2>1. PICK e \in queue : /\ m_freem(e.mbufs \cup {arg})
                           /\ queue' = queue \ {e} /\ ret' = Taken
    BY <1>7 DEF RxFill, IfInput, EntriesOf
  <2>2. Owns(O \ {arg}, KeptSet, {}, queue)  BY <2>1, GiveUp
  <2>3. Owns((O \ {arg}) \ e.mbufs, KeptSet, {}, queue \ {e})  BY <2>2, Leave
  <2>4. (O \ {arg}) \ e.mbufs = O \ (e.mbufs \cup {arg}) /\ e.mbufs \cup {arg} \in SUBSET O
    BY <1>1
  <2> QED  BY <2>1, <2>3, <2>4
<1> QED  BY <1>2, <1>3, <1>4, <1>5, <1>6, <1>7 DEF Rx

\* Ownership passes from one to another, or the mbuf is freed.
LEMMA OwnedStep ==
  ASSUME IInv, [Next]_vars
  PROVE  Owned'
<1> SUFFICES ASSUME ~wrong', "assert" \notin failed', ret' = "none" \/ ret' = Step.ret'
             PROVE  /\ Owns(zone'.held, KeptSet', Pending', queue')
                    /\ \A e \in queue' : e.mbufs \subseteq 1..Len(pkts')
  BY DEF Owned
<1> HIDE DEF mocks, memory, lro, call, program
<1>1. CASE Rx
  <2>1. /\ ~wrong /\ "assert" \notin failed /\ UNCHANGED <<pkts, arg, program, at, kept>>
    <3>1. ~FlushErr
      BY <1>1 DEF Rx, RxRefuse, RxFlush, RxQueue, RxAbsorb, RxAppend, RxFill, Calling, FlushErr,
                  Flushing, At
    <3>2. wrong' = wrong
      BY <1>1 DEF Rx, RxRefuse, RxFlush, RxQueue, RxAbsorb, RxAppend, RxFill, lro
    <3> QED  BY <1>1, <3>1, <3>2, WorkingFrame DEF Working, IInv
  <2>2. Step' = Step /\ KeptSet' = KeptSet  BY <2>1 DEF Step, Function, KeptSet, program
  <2>3. Calling /\ ret' # "none"
    BY <1>1 DEF Rx, RxRefuse, RxFlush, RxQueue, RxAbsorb, RxAppend, RxFill, Returns, ErrorOf,
                Taken, TCP_LRO_CANNOT, TCP_LRO_NOT_SUPPORTED
  <2>4. Pending' = IF ret' = Taken THEN {} ELSE {arg}  BY <2>1, <2>3 DEF Pending, Calling
  <2>5. /\ Owns(zone.held, KeptSet, {arg}, queue) /\ arg \in 1..Len(pkts)
        /\ \A e \in queue : e.mbufs \subseteq 1..Len(pkts)
        /\ Step.ret = Taken => {arg} \cap KeptSet = {}
    BY <2>1, <2>3, BeforeCall
  <2>6. ret' = Step.ret  BY <2>2, <2>3
  <2>7. PICK S \in SUBSET zone.held :
          /\ Frees(S)
          /\ Owns(zone.held \ S, KeptSet, IF ret' = Taken THEN {} ELSE {arg}, queue')
    BY <1>1, <2>5, <2>6, CallOwned
  <2>8. zone'.held = zone.held \ S  BY <2>7, Freed DEF Frees, memory, IInv
  <2>9. zone.held \subseteq 1..Len(pkts)
    <3>1. KeptSet \subseteq 1..Len(pkts)  BY DEF IInv, Shape, KeptSet
    <3> QED  BY <2>5, <3>1 DEF Owns, Chained
  <2>10. \A e \in queue' : e.mbufs \subseteq 1..Len(pkts')
    BY <2>1, <2>7, <2>9 DEF Owns, Chained
  <2> QED  BY <2>2, <2>4, <2>7, <2>8, <2>10
<1>2. CASE ReadClock \/ FlushOne \/ FlushDone
  <2>1. /\ arg = 0 /\ ~wrong
        /\ UNCHANGED <<arg, ret, kept, pkts>>
    BY <1>2 DEF ReadClock, FlushOne, FlushDone, Flushing, At, IInv, InCall, call, lro
  <2>2. "assert" \notin failed
    BY <1>2, WorkingFrame DEF Working, FlushDone, mocks, IInv
  <2>3. /\ Owns(zone.held, KeptSet, {}, queue) /\ Pending = {}
        /\ \A e \in queue : e.mbufs \subseteq 1..Len(pkts)
    BY <2>1, <2>2, OutsideCall
  <2>4. KeptSet' = KeptSet /\ Pending' = {}  BY <2>1, <2>3 DEF KeptSet, Pending
  <2>5. CASE ReadClock \/ FlushDone
    <3>1. zone' = zone /\ queue' = queue  BY <2>5 DEF ReadClock, FlushDone, memory, lro
    <3> QED  BY <2>1, <2>3, <2>4, <3>1
  <2>6. CASE FlushOne
    <3>1. PICK e \in queue : zone'.held = zone.held \ e.mbufs /\ queue' = queue \ {e}
      BY <2>6, Freed DEF FlushOne, Due, Expired, PassOn, IfInput, IInv
    <3> QED  BY <2>1, <2>3, <2>4, <3>1, Leave
  <2> QED  BY <1>2, <2>5, <2>6
<1>3. CASE Errs  BY <1>3 DEF Errs, RxErr, EntryErr, FreeErr, FlushErr, Err
<1>4. CASE Generate
  <2> DEFINE m == Len(pkts) + 1
             z == uma_zalloc_arg(zone, m)
  <2>1. arg = 0 /\ ~wrong /\ "assert" \notin failed
    BY <1>4 DEF Generate, mocks, lro
  <2>2. /\ Owns(zone.held, KeptSet, {}, queue) /\ ret = "none"
        /\ \A e \in queue : e.mbufs \subseteq 1..Len(pkts)
    BY <2>1, OutsideCall
  <2>3. Len(pkts) \in Nat /\ Len(pkts') = m /\ kept \in 0..Len(pkts)
    BY <1>4, Longer DEF Generate, IInv, Shape
  <2>4. m \notin zone.held /\ m # kept /\ m # 0
    <3>1. m \notin KeptSet /\ m # kept /\ m # 0  BY <2>3 DEF KeptSet
    <3>2. \A e \in queue : m \notin e.mbufs  BY <2>2, <2>3
    <3> QED  BY <2>2, <3>1, <3>2 DEF Owns, Chained
  <2>5. Pending' = {m} /\ queue' = queue
    BY <1>4, <2>2, <2>4, Codes DEF Generate, Pending, lro
  <2>6. \A e \in queue' : e.mbufs \subseteq 1..Len(pkts')  BY <2>2, <2>3, <2>5
  <2>7. DOMAIN z = ZoneFields /\ z.held = zone.held \cup {m}
    BY Allocated DEF IInv, Shape
  <2>8. /\ Owns(z.held, KeptSet, {m}, queue)
         /\ Owns(z.held \ KeptSet, {m}, {m}, queue)
    <3> HIDE DEF z, m
    <3>1. Owns(zone.held, KeptSet, {}, queue) /\ m \notin zone.held  BY <2>2, <2>4
    <3>2. /\ Owns(zone.held \cup {m}, KeptSet, {m}, queue)
          /\ Owns((zone.held \cup {m}) \ KeptSet, {m}, {m}, queue)
      BY ONLY <3>1, Allocate
    <3> QED  BY <2>7, <3>2
  <2>9. CASE Step.raw /\ zone' = z /\ kept' = kept
    <3>1. KeptSet' = KeptSet  BY <2>9 DEF KeptSet
    <3> HIDE DEF z, m
    <3> QED  BY <2>5, <2>6, <2>9, <2>8, <3>1
  <2>10. CASE kept' = m /\ zone' = (IF kept = 0 THEN z ELSE uma_zfree_arg(z, kept))
    <3>1. KeptSet' = {m}  BY <2>4, <2>10 DEF KeptSet
    <3>2. zone'.held = z.held \ KeptSet
      <4> HIDE DEF z, m
      <4> QED  BY <2>7, <2>10, Released DEF KeptSet
    <3> HIDE DEF z, m
    <3> QED  BY <2>5, <2>6, <2>8, <3>1, <3>2
  <2> QED  BY <1>4, <2>9, <2>10 DEF Generate
<1>5. CASE Assert
  <2>1. arg # 0 /\ At("rx") /\ (Step.raw <=> kept # arg)
    BY <1>5 DEF Assert, IInv, InCall
  <2>2. ret = Step.ret /\ ~wrong /\ "assert" \notin failed
    BY <1>5 DEF Assert, lro
  <2>3. Owns(zone.held, KeptSet, Pending, queue) /\ \A e \in queue : e.mbufs \subseteq 1..Len(pkts)
    BY <2>2 DEF IInv, Owned
  <2>4. Pending \subseteq KeptSet
    <3>1. ret # Taken => kept = arg  BY <2>1, <2>2, StepTaken DEF IInv
    <3> QED  BY <3>1 DEF Pending, KeptSet
  <2>5. KeptSet' = KeptSet /\ Pending' = {}
        /\ zone' = zone /\ queue' = queue /\ pkts' = pkts
    BY <1>5 DEF Assert, KeptSet, Pending, memory, lro
  <2>6. Owns(zone.held, KeptSet, {}, queue)  BY <2>3, <2>4 DEF Owns
  <2> QED  BY <2>3, <2>5, <2>6
<1>6. CASE Return
  <2>1. arg = 0  BY <1>6 DEF Return, At, IInv, InCall
  <2>2. ~wrong /\ "assert" \notin failed /\ queue' = queue /\ pkts' = pkts
    BY <1>6 DEF Return, lro, mocks, call
  <2>3. zone'.held = zone.held \ KeptSet  BY <1>6, Freed DEF Return, IInv
  <2>4. KeptSet' = {} /\ Pending' = {}
    BY <1>6, <2>1 DEF Return, KeptSet, Pending, call
  <2> QED  BY <2>1, <2>2, <2>3, <2>4, OutsideCall, Reset
<1>7. CASE TestCaseTearDown \/ FreeStep
  <2>1. arg = 0  BY <1>7 DEF TestCaseTearDown, FreeStep, At, InBody, IInv, InCall
  <2>2. /\ ~wrong /\ "assert" \notin failed /\ UNCHANGED <<kept, arg, ret, pkts>>
        /\ \/ zone'.held = zone.held \ Chained(queue) /\ queue' = {}
           \/ zone' = zone /\ queue' = queue
    BY <1>7, Freed DEF TestCaseTearDown, FreeStep, tcp_lro_free, mocks, call, memory, IInv, Chained
  <2>3. KeptSet' = KeptSet /\ Pending' = {} /\ Pending = {}
    BY <2>1, <2>2 DEF KeptSet, Pending
  <2>4. /\ Owns(zone.held, KeptSet, {}, queue)
        /\ \A e \in queue : e.mbufs \subseteq 1..Len(pkts)
    BY <2>1, <2>2, OutsideCall
  <2>5. Owns(zone.held \ Chained(queue), KeptSet, {}, {})  BY <2>4, Drain
  <2> QED  BY <2>2, <2>3, <2>4, <2>5
<1>8. CASE \/ TearDown \/ SetExpectation \/ CallMockSequence \/ EnableForwardingStep
           \/ SetIfMtuStep
  <2>1. arg = 0
    BY <1>8 DEF TearDown, SetExpectation, CallMockSequence, EnableForwardingStep, SetIfMtuStep,
                At, InBody, IInv, InCall
  <2>2. /\ ~wrong /\ "assert" \notin failed /\ UNCHANGED <<kept, arg, ret, pkts, queue>>
        /\ zone'.held = zone.held
    BY <1>8 DEF TearDown, SetExpectation, CallMockSequence, EnableForwardingStep, SetIfMtuStep,
                uma_zdestroy, mocks, lro, call, memory, IInv, Shape, ZoneFields
  <2>3. KeptSet' = KeptSet /\ Pending' = {} BY <2>1, <2>2 DEF KeptSet, Pending
  <2> QED  BY <2>1, <2>2, <2>3, OutsideCall
<1>9. ASSUME NEW v \in DOMAIN Scripts, NEW name \in DOMAIN Scripts[v], SetUp(name, v)
      PROVE  /\ Owns(zone'.held, KeptSet', Pending', queue')
             /\ \A e \in queue' : e.mbufs \subseteq 1..Len(pkts')
  <2>1. KeptSet' = {} /\ Pending' = {} /\ zone'.held = {} /\ queue' = {}
    BY <1>9 DEF SetUp, KeptSet, Pending, NewZone
  <2> QED  BY <2>1 DEF Owns, Chained
<1>10. CASE UNCHANGED vars
  <2>1. UNCHANGED <<zone, kept, arg, ret, queue, pkts, wrong, failed, test, at>>
    BY <1>10 DEF vars, mocks, memory, lro, call, program
  <2>2. Step' = Step /\ KeptSet' = KeptSet /\ Pending' = Pending
    BY <2>1 DEF Step, Function, KeptSet, Pending
  <2> QED  BY <2>1, <2>2 DEF IInv, Owned
<1> QED
  BY <1>1, <1>2, <1>3, <1>4, <1>5, <1>6, <1>7, <1>8, <1>9, <1>10, NextCases DEF Working

-----------------------------------------------------------------------------
(* The expectations.                                                       *)

\* A set of numbers up to n that is not empty has a greatest element.
LEMMA GreatestElement ==
  ASSUME NEW n \in Nat, NEW T \in SUBSET (1..n), T # {}
  PROVE  \E k \in T : \A m \in T : m <= k
<1> DEFINE R == OpToRel(<, Nat)
           D == {n - k : k \in T}
<1>1. IsWellFoundedOn(R, Nat)  BY NatLessThanWellFounded
<1>2. \A x, y \in Nat : <<x, y>> \in R <=> x < y  BY DEF OpToRel
<1> HIDE DEF R
<1>3. D \in SUBSET Nat /\ D # {}
  <2>1. \A k \in T : k \in 1..n /\ n - k \in Nat  OBVIOUS
  <2>2. PICK k \in T : TRUE  OBVIOUS
  <2>3. n - k \in D  OBVIOUS
  <2> QED  BY <2>1, <2>3
<1>4. PICK d \in D : \A c \in D : ~ (<<c, d>> \in R)
  <2> HIDE DEF R, D
  <2> QED  BY <1>1, <1>3, WFMin
<1>5. PICK k \in T : d = n - k  OBVIOUS
<1>6. ASSUME NEW m \in T PROVE m <= k
  <2>1. n - m \in D /\ n - m \in Nat /\ d \in Nat  BY <1>3
  <2>2. ~(n - m < d)
    <3> HIDE DEF R, D
    <3> QED  BY <1>2, <1>4, <2>1
  <2> QED  BY <1>5, <2>1, <2>2
<1> QED  BY <1>6

ExpectationFields == {"fn", "arg", "seqs", "pre", "retires", "called", "over", "retired"}

\* The expectations are a sequence, and those of getmicrotime store times.
Stated(es) ==
  /\ IsSeq(es) /\ Len(es) \in Nat /\ DOMAIN es = 1..Len(es)
  /\ \A i \in DOMAIN es :
       /\ DOMAIN es[i] = ExpectationFields
       /\ es[i].fn = "getmicrotime" => es[i].arg \in Timeval

\* The newest expectation that may handle a call exists, if any does.
LEMMA HandlerExists ==
  ASSUME NEW es, Stated(es), NEW fn, NEW x, Handling(es, fn, x) # {}
  PROVE  /\ Handler(es, fn, x) \in Handling(es, fn, x)
         /\ \A j \in Handling(es, fn, x) : j <= Handler(es, fn, x)
<1> DEFINE T == Handling(es, fn, x)
<1>1. T \in SUBSET (1..Len(es)) /\ Len(es) \in Nat /\ T # {}  BY DEF Stated, Handling
<1>2. \E k \in T : \A m \in T : m <= k
  <2> HIDE DEF T
  <2> QED  BY <1>1, GreatestElement
<1> QED  BY <1>2 DEF Handler

\* A call changes whether an expectation was called and whether it has retired.
LEMMA CalledFields ==
  ASSUME NEW es, Stated(es), NEW fn, NEW x
  PROVE  /\ DOMAIN Called(es, fn, x) = DOMAIN es
         /\ \A i \in DOMAIN es : LET e == Called(es, fn, x)[i] IN
              /\ DOMAIN e = ExpectationFields
              /\ e.fn = es[i].fn /\ e.arg = es[i].arg /\ e.seqs = es[i].seqs
              /\ e.pre = es[i].pre /\ e.retires = es[i].retires
              /\ Handling(es, fn, x) = {} => e = es[i]
              /\ LET h == Handler(es, fn, x) IN
                   Handling(es, fn, x) # {} =>
                     /\ e.called <=> (es[i].called \/ i = h)
                     /\ e.retired <=> (es[i].retired \/ i \in es[h].pre \/ (i = h /\ es[h].retires))
<1>1. CASE Handling(es, fn, x) = {}  BY <1>1 DEF Called, Stated
<1>2. CASE Handling(es, fn, x) # {}
  <2> DEFINE h == Handler(es, fn, x)
             New(i) == [es[i] EXCEPT !.over    = @ \/ (i = h /\ es[h].called),
                                     !.called  = @ \/ i = h,
                                     !.retired = @ \/ i \in es[h].pre \/ (i = h /\ es[h].retires)]
  <2>1. Called(es, fn, x) = [i \in DOMAIN es |-> New(i)]  BY <1>2 DEF Called
  <2>2. ASSUME NEW i \in DOMAIN es
        PROVE  /\ DOMAIN New(i) = ExpectationFields
               /\ New(i).fn = es[i].fn /\ New(i).arg = es[i].arg /\ New(i).seqs = es[i].seqs
               /\ New(i).pre = es[i].pre /\ New(i).retires = es[i].retires
               /\ New(i).called = (es[i].called \/ i = h)
               /\ New(i).retired
                    = (es[i].retired \/ i \in es[h].pre \/ (i = h /\ es[h].retires))
    <3>1. DOMAIN es[i] = ExpectationFields  BY DEF Stated
    <3> HIDE DEF h
    <3> QED  BY <3>1 DEF ExpectationFields
  <2> HIDE DEF h, New
  <2>3. DOMAIN Called(es, fn, x) = DOMAIN es
        /\ \A i \in DOMAIN es : Called(es, fn, x)[i] = New(i)
    BY <2>1
  <2>4. h = Handler(es, fn, x)  BY DEF h
  <2>5. ASSUME NEW i \in DOMAIN es
        PROVE  LET e == Called(es, fn, x)[i] IN
               /\ DOMAIN e = ExpectationFields
               /\ e.fn = es[i].fn /\ e.arg = es[i].arg /\ e.seqs = es[i].seqs
               /\ e.pre = es[i].pre /\ e.retires = es[i].retires
               /\ e.called <=> (es[i].called \/ i = h)
               /\ e.retired <=> (es[i].retired \/ i \in es[h].pre \/ (i = h /\ es[h].retires))
    <3>1. Called(es, fn, x)[i] = New(i)  BY <2>3
    <3> QED  BY <2>2, <3>1, Zenon
  <2> QED  BY <1>2, <2>3, <2>4, <2>5, Zenon
<1> QED  BY <1>1, <1>2

\* A call leaves the expectations a sequence.
LEMMA CalledStated ==
  ASSUME NEW es, Stated(es), NEW fn, NEW x
  PROVE  Stated(Called(es, fn, x)) /\ Len(Called(es, fn, x)) = Len(es)
<1> DEFINE c == Called(es, fn, x)
<1>1. DOMAIN c = 1..Len(es) /\ Len(es) \in Nat  BY CalledFields DEF Stated
<1>2. Len(c) = Len(es) /\ IsSeq(c)
  <2>1. CASE c = es  BY <2>1 DEF Stated
  <2>2. CASE c # es
    <3> DEFINE V == {c[i] : i \in DOMAIN es}
    <3>1. c = [i \in DOMAIN es |-> c[i]]  BY <2>2 DEF Called
    <3> HIDE DEF c
    <3>2. c \in [1..Len(es) -> V]  BY <3>1 DEF Stated
    <3> HIDE DEF V
    <3>3. c \in Seq(V) /\ Len(c) = Len(es)  BY <1>1, <3>2
    <3> QED  BY <3>3 DEF IsSeq
  <2> QED  BY <2>1, <2>2
<1> QED  BY <1>1, <1>2, CalledFields DEF Stated

\* A new expectation is the last one, and it waits for those of its sequences.
LEMMA ExpectedStated ==
  ASSUME NEW es, Stated(es), NEW fn, NEW x, NEW seqs, fn = "getmicrotime" => x \in Timeval
  PROVE  LET n == Len(es) + 1
             s == Append(es, Expectation(es, fn, x, seqs))
         IN  /\ Stated(s) /\ Len(s) = n
             /\ s[n] = Expectation(es, fn, x, seqs)
             /\ \A i \in 1..Len(es) : s[i] = es[i]
<1> DEFINE e == Expectation(es, fn, x, seqs)
           s == Append(es, e)
<1>1. /\ DOMAIN e = ExpectationFields /\ e.fn = fn /\ e.arg = x
  BY DEF Expectation, ExpectationFields
<1> HIDE DEF e
<1>2. PICK S : es \in Seq(S \cup {e})
  <2>1. PICK S : es \in Seq(S)  BY DEF Stated, IsSeq
  <2>2. es \in Seq(S \cup {e})  BY <2>1
  <2> QED  BY <2>2
<1>3. /\ Len(s) = Len(es) + 1 /\ s[Len(es) + 1] = e
      /\ \A i \in 1..Len(es) : s[i] = es[i]
      /\ DOMAIN s = 1..Len(s) /\ s \in Seq(S \cup {e})
  BY <1>2 DEF Stated
<1> HIDE DEF s
<1>4. Len(s) \in Nat  BY <1>3 DEF Stated
<1>5. ASSUME NEW i \in DOMAIN s
      PROVE  DOMAIN s[i] = ExpectationFields /\ (s[i].fn = "getmicrotime" => s[i].arg \in Timeval)
  <2>1. i = Len(es) + 1 \/ i \in 1..Len(es)  BY <1>3, <1>4 DEF Stated
  <2> QED  BY <1>1, <1>3, <2>1 DEF Stated
<1>6. Stated(s)  BY <1>3, <1>4, <1>5 DEF Stated, IsSeq
<1> QED  BY <1>3, <1>6 DEF s, e

-----------------------------------------------------------------------------
(* The type invariant. An mbuf is freed at most once for each of its       *)
(* owners, whoever they are, and once by mistake.                          *)

\* The times that getmicrotime stores are times.
LEMMA TimesAreTimes ==
  ASSUME Stated(gm)
  PROVE  Times \subseteq Timeval
<1>1. CASE Handling(gm, "getmicrotime", 0) = {}  BY <1>1, HarnessAssumption DEF Times
<1>2. CASE Handling(gm, "getmicrotime", 0) # {}
  <2> DEFINE h == Handler(gm, "getmicrotime", 0)
  <2>1. h \in Handling(gm, "getmicrotime", 0)  BY <1>2, HandlerExists
  <2>2. h \in DOMAIN gm /\ gm[h].fn = "getmicrotime"  BY <2>1 DEF Handling, Handles
  <2> QED  BY <1>2, <2>2 DEF Times, Stated
<1> QED  BY <1>1, <1>2

IsEntry(e) == DOMAIN e = {"pkt", "mbufs", "mtime"} /\ e.mtime \in Timeval

\* No two entries share an mbuf.
Apart(Q) == \A e, f \in Q : e # f => e.mbufs \cap f.mbufs = {}

\* What the entries own when one of them leaves, a new one joins or one is replaced.
LEMMA ApartLeave ==
  ASSUME NEW Q, Apart(Q), NEW e \in Q
  PROVE  Apart(Q \ {e}) /\ Chained(Q \ {e}) = Chained(Q) \ e.mbufs
<1>1. Chained(Q) = e.mbufs \cup Chained(Q \ {e})  BY DEF Chained
<1>2. e.mbufs \cap Chained(Q \ {e}) = {}  BY DEF Chained, Apart
<1> QED  BY <1>1, <1>2 DEF Apart

\* An entry of a new mbuf joins the queue.
LEMMA ApartJoin ==
  ASSUME NEW Q, Apart(Q), NEW f, f.mbufs \cap Chained(Q) = {}
  PROVE  Apart(Q \cup {f}) /\ Chained(Q \cup {f}) = Chained(Q) \cup f.mbufs
<1>1. Chained(Q \cup {f}) = Chained(Q) \cup f.mbufs  BY DEF Chained
<1>2. \A e \in Q : e.mbufs \cap f.mbufs = {}  BY DEF Chained
<1> QED  BY <1>1, <1>2 DEF Apart

\* What a call of tcp_lro_rx owns before it returns.
Lent == IF ret = "none" THEN {arg} \ {0} ELSE {}

Queued ==
  /\ \A e \in queue : IsEntry(e) /\ e.mbufs \subseteq 1..Len(pkts)
  /\ Apart(queue) /\ Lent \cap Chained(queue) = {}

\* In a step of the code under test the mbufs of S are freed. Each leaves the queue
\* or was the argument of the call, unless this is the one mistake; what joins the
\* queue was the argument.
Moves(S) ==
  /\ S \subseteq 1..Len(pkts)
  /\ m_freem(S) \/ (S = {} /\ UNCHANGED memory)
  /\ \A m \in S : \/ m \in Chained(queue) \ Chained(queue')
                  \/ m \in Lent \ (Lent' \cup Chained(queue'))
                  \/ ~wrong /\ wrong'
  /\ Chained(queue') \subseteq Chained(queue) \cup (Lent \ (Lent' \cup S))
  /\ Lent' \subseteq Lent /\ (wrong => wrong')
  /\ Apart(queue') /\ \A e \in queue' : IsEntry(e)

\* Nothing is freed and no entry changes hands.
LEMMA MovesNothing ==
  ASSUME Queued, UNCHANGED <<memory, queue>>, Lent' \subseteq Lent, wrong => wrong'
  PROVE  Moves({})
BY DEF Moves, Queued

\* An entry is freed, and the argument with it or not.
LEMMA MovesEntry ==
  ASSUME Shape, Queued, NEW e \in queue, queue' = queue \ {e},
         NEW P \in SUBSET Lent, m_freem(e.mbufs \cup P),
         Lent' \subseteq Lent, Lent' \cap P = {}, wrong => wrong'
  PROVE  \E S : Moves(S)
<1> DEFINE S == e.mbufs \cup P
<1>1. Apart(queue') /\ Chained(queue') = Chained(queue) \ e.mbufs
  BY ApartLeave DEF Queued
<1>2. Lent \cap Chained(queue) = {} /\ e.mbufs \subseteq Chained(queue)
  BY DEF Queued, Chained
<1>3. S \subseteq 1..Len(pkts)
  <2>1. Lent \subseteq 1..Len(pkts)  BY DEF Shape, Lent
  <2> QED  BY <2>1 DEF Queued
<1>4. \A x \in queue' : IsEntry(x)  BY DEF Queued
<1> HIDE DEF Lent
<1>5. Moves(S)  BY <1>1, <1>2, <1>3, <1>4 DEF Moves
<1> QED  BY <1>5

\* Only the argument is freed, and an entry is replaced by one with the same mbufs.
LEMMA MovesArgument ==
  ASSUME Shape, Queued, m_freem(Lent), Lent' = {}, wrong => wrong',
         NEW e \in queue, NEW f, queue' = (queue \ {e}) \cup {f}, IsEntry(f), f.mbufs = e.mbufs
  PROVE  \E S : Moves(S)
<1>1. Apart(queue') /\ Chained(queue') = Chained(queue)
  <2>1. Chained((queue \ {e}) \cup {f}) = Chained(queue)  BY DEF Chained
  <2>2. Apart((queue \ {e}) \cup {f})  BY DEF Apart, Queued
  <2> QED  BY <2>1, <2>2
<1>2. Lent \cap Chained(queue) = {} /\ \A x \in queue' : IsEntry(x)  BY DEF Queued
<1>3. Lent \subseteq 1..Len(pkts)  BY DEF Shape, Lent
<1> HIDE DEF Lent
<1>4. Moves(Lent)  BY <1>1, <1>2, <1>3 DEF Moves
<1> QED  BY <1>4

\* Nothing is freed, and an entry is replaced by one that may have the argument as
\* well.
LEMMA MovesOver ==
  ASSUME Queued, UNCHANGED memory, NEW P \in SUBSET Lent, Lent' \subseteq Lent, Lent' \cap P = {},
         wrong => wrong', NEW e \in queue, NEW f, queue' = (queue \ {e}) \cup {f}, IsEntry(f),
         f.mbufs \subseteq e.mbufs \cup P
  PROVE  Moves({})
<1>1. P \cap Chained(queue) = {} /\ e.mbufs \subseteq Chained(queue)  BY DEF Queued, Chained
<1>2. Apart(queue') /\ Chained(queue') = (Chained(queue) \ e.mbufs) \cup f.mbufs
  <2> HIDE DEF Lent
  <2>1. Apart(queue)  BY DEF Queued
  <2>2. /\ Apart((queue \ {e}) \cup {f})
        /\ Chained((queue \ {e}) \cup {f}) = (Chained(queue) \ e.mbufs) \cup f.mbufs
    <3> DEFINE R == queue \ {e}
    <3>1. Apart(R) /\ Chained(R) = Chained(queue) \ e.mbufs  BY <2>1, ApartLeave
    <3> HIDE DEF R
    <3>2. f.mbufs \cap Chained(R) = {}  BY <1>1, <3>1
    <3>3. Apart(R \cup {f}) /\ Chained(R \cup {f}) = Chained(R) \cup f.mbufs
      BY <3>1, <3>2, ApartJoin
    <3> QED  BY <3>1, <3>3 DEF R
  <2> QED  BY <2>2
<1>3. \A x \in queue' : IsEntry(x)  BY DEF Queued
<1> HIDE DEF Lent
<1> QED  BY <1>1, <1>2, <1>3 DEF Moves

\* Nothing is freed, and the argument is a new entry.
LEMMA MovesIn ==
  ASSUME Queued, UNCHANGED memory, Lent' = {}, wrong => wrong',
         NEW f, queue' = queue \cup {f}, IsEntry(f), f.mbufs = Lent
  PROVE  Moves({})
<1>1. Apart(queue') /\ Chained(queue') = Chained(queue) \cup Lent
  BY ApartJoin DEF Queued
<1>2. \A x \in queue' : IsEntry(x)  BY DEF Queued
<1> HIDE DEF Lent
<1> QED  BY <1>1, <1>2 DEF Moves

\* The steps of the code under test are of these kinds.
LEMMA WorkingMoves ==
  ASSUME IInv, Stated(gm), Queued, Working
  PROVE  \E S : Moves(S)
<1> USE DEF Returns, PassOn, IInv
<1>0. /\ UNCHANGED <<arg, ret>> => Lent' = Lent
      /\ Calling => Lent = {arg}
      /\ ret' # "none" => Lent' = {}
      /\ Times \subseteq Timeval
  BY TimesAreTimes DEF Lent, Calling
<1>a. Taken # "none" /\ TCP_LRO_CANNOT # "none" /\ TCP_LRO_NOT_SUPPORTED # "none"
  BY DEF Taken, TCP_LRO_CANNOT, TCP_LRO_NOT_SUPPORTED
<1>1. CASE RxRefuse
  <2>1. Calling /\ UNCHANGED <<memory, queue, wrong>> /\ ret' # "none"
    BY <1>1, <1>a DEF RxRefuse, ErrorOf
  <2> QED  BY <1>0, <2>1, MovesNothing
<1>2. CASE RxFlush
  <2>1. PICK e \in queue : m_freem(e.mbufs) /\ queue' = queue \ {e}
    BY <1>2 DEF RxFlush, IfInput, EntriesOf
  <2>2. Calling /\ UNCHANGED wrong /\ ret' # "none"  BY <1>2, <1>a DEF RxFlush
  <2>3. {} \in SUBSET Lent /\ e.mbufs \cup {} = e.mbufs /\ Lent' = {}  BY <1>0, <2>2
  <2> QED  BY <2>1, <2>2, <2>3, MovesEntry
<1>3. CASE RxQueue
  <2>1. PICK tv \in Times : queue' = queue \cup {[pkt |-> Pkt, mbufs |-> {arg}, mtime |-> tv]}
    BY <1>3 DEF RxQueue
  <2> DEFINE f == [pkt |-> Pkt, mbufs |-> {arg}, mtime |-> tv]
  <2>2. Calling /\ UNCHANGED <<memory, wrong>> /\ ret' # "none"  BY <1>3, <1>a DEF RxQueue
  <2>3. IsEntry(f) /\ f.mbufs = Lent /\ queue' = queue \cup {f} /\ Lent' = {}
    BY <1>0, <2>1, <2>2 DEF IsEntry
  <2> HIDE DEF f
  <2> QED  BY <2>2, <2>3, MovesIn
<1>4. CASE RxAbsorb
  <2>1. PICK e \in queue :
          queue' = (queue \ {e}) \cup
            {[pkt |-> Acknowledged(e.pkt, Pkt), mbufs |-> e.mbufs, mtime |-> e.mtime]}
    BY <1>4 DEF RxAbsorb, EntriesOf
  <2> DEFINE f == [pkt |-> Acknowledged(e.pkt, Pkt), mbufs |-> e.mbufs, mtime |-> e.mtime]
  <2>2. Calling /\ UNCHANGED wrong /\ m_freem({arg}) /\ ret' # "none"
    BY <1>4, <1>a DEF RxAbsorb
  <2>3. IsEntry(f) /\ f.mbufs = e.mbufs /\ queue' = (queue \ {e}) \cup {f}
    BY <2>1 DEF IsEntry, Queued
  <2>4. m_freem(Lent) /\ Lent' = {}  BY <1>0, <2>2
  <2> HIDE DEF f
  <2> QED  BY <2>2, <2>3, <2>4, MovesArgument
<1>5. CASE RxAppend
  <2>1. PICK e \in queue, tv \in Times :
          queue' = (queue \ {e}) \cup
            {[pkt |-> Merged(e.pkt, Pkt), mbufs |-> e.mbufs \cup {arg}, mtime |-> tv]}
    BY <1>5 DEF RxAppend, EntriesOf
  <2> DEFINE f == [pkt |-> Merged(e.pkt, Pkt), mbufs |-> e.mbufs \cup {arg}, mtime |-> tv]
  <2>2. Calling /\ UNCHANGED <<memory, wrong>> /\ ret' # "none"  BY <1>5, <1>a DEF RxAppend
  <2>3. IsEntry(f) /\ f.mbufs \subseteq e.mbufs \cup Lent /\ queue' = (queue \ {e}) \cup {f}
        /\ Lent' = {}
    BY <1>0, <2>1, <2>2 DEF IsEntry
  <2> HIDE DEF f
  <2>4. Lent \in SUBSET Lent  OBVIOUS
  <2>5. Lent' \subseteq Lent /\ Lent' \cap Lent = {}  BY <2>3
  <2>6. Moves({})  BY <2>2, <2>3, <2>4, <2>5, MovesOver
  <2> QED  BY <2>6
<1>6. CASE RxFill
  <2>1. PICK e \in queue : m_freem(e.mbufs \cup {arg}) /\ queue' = queue \ {e}
    BY <1>6 DEF RxFill, IfInput, EntriesOf
  <2>2. Calling /\ UNCHANGED wrong /\ ret' # "none"  BY <1>6, <1>a DEF RxFill
  <2>3. Lent \in SUBSET Lent /\ m_freem(e.mbufs \cup Lent) /\ Lent' = {}  BY <1>0, <2>1, <2>2
  <2> QED  BY <2>1, <2>2, <2>3, MovesEntry
<1>7. CASE ReadClock \/ FlushErr
  <2>1. UNCHANGED <<memory, queue, arg, ret>> /\ (wrong => wrong')
    BY <1>7 DEF ReadClock, FlushErr, Err
  <2> QED  BY <1>0, <2>1, MovesNothing
<1>8. CASE FlushOne
  <2>1. PICK e \in queue : m_freem(e.mbufs) /\ queue' = queue \ {e}
    BY <1>8 DEF FlushOne, Due, Expired, IfInput
  <2>2. UNCHANGED <<arg, ret, wrong>>  BY <1>8 DEF FlushOne
  <2>3. {} \in SUBSET Lent /\ e.mbufs \cup {} = e.mbufs /\ Lent' = Lent  BY <1>0, <2>2
  <2> QED  BY <2>1, <2>2, <2>3, MovesEntry
<1>9. CASE RxErr
  <2>1. Calling /\ ~wrong /\ wrong' /\ ret' # "none"  BY <1>9, <1>a DEF RxErr, Err
  <2>2. Lent = {arg} /\ Lent' = {}  BY <1>0, <2>1
  <2>3. CASE UNCHANGED <<memory, queue>>  BY <2>1, <2>2, <2>3, MovesNothing
  <2>4. CASE m_freem({arg}) /\ \E e \in queue : queue' = queue \ {e}
    <3>1. PICK e \in queue : queue' = queue \ {e}  BY <2>4
    <3>2. Apart(queue') /\ Chained(queue') = Chained(queue) \ e.mbufs
      BY <3>1, ApartLeave DEF Queued
    <3>3. \A x \in queue' : IsEntry(x)  BY <3>1 DEF Queued
    <3>5. arg \in 1..Len(pkts)  BY <2>1 DEF Shape, Calling
    <3>6. arg \notin Chained(queue')  BY <2>2, <3>2 DEF Queued
    <3>4. Moves({arg})  BY <2>1, <2>2, <2>4, <3>2, <3>3, <3>5, <3>6 DEF Moves
    <3> QED  BY <3>4
  <2>5. CASE /\ UNCHANGED memory
             /\ queue' = queue \cup {[pkt |-> Pkt, mbufs |-> {arg}, mtime |-> Garbage]}
    <3> DEFINE f == [pkt |-> Pkt, mbufs |-> {arg}, mtime |-> Garbage]
    <3>1. IsEntry(f) /\ f.mbufs = Lent /\ queue' = queue \cup {f}
      BY <2>2, <2>5, HarnessAssumption DEF IsEntry
    <3> HIDE DEF f
    <3> QED  BY <2>1, <2>2, <2>5, <3>1, MovesIn
  <2>6. \/ UNCHANGED <<memory, queue>>
        \/ m_freem({arg}) /\ \E e \in queue : queue' = queue \ {e}
        \/ /\ UNCHANGED memory
           /\ queue' = queue \cup {[pkt |-> Pkt, mbufs |-> {arg}, mtime |-> Garbage]}
    BY <1>9 DEF RxErr, IfInput, EntriesOf
  <2> QED  BY <2>3, <2>4, <2>5, <2>6
<1>10. CASE EntryErr
  <2>1. ~wrong /\ wrong' /\ UNCHANGED <<arg, ret>>  BY <1>10 DEF EntryErr, Err
  <2>2. Lent' = Lent /\ {} \in SUBSET Lent  BY <1>0, <2>1
  <2>3. PICK e \in queue :
          \/ m_freem(e.mbufs) /\ queue' = queue \ {e}
          \/ queue' = queue \ {e} /\ UNCHANGED memory
          \/ /\ UNCHANGED memory
             /\ \E m \in e.mbufs : queue' = (queue \ {e}) \cup {[e EXCEPT !.mbufs = @ \ {m}]}
          \/ /\ UNCHANGED memory
             /\ queue' = (queue \ {e}) \cup {[e EXCEPT !.pkt.pay = Tail(@) \o <<-2>>]}
    BY <1>10 DEF EntryErr, IfInput
  <2>4. CASE m_freem(e.mbufs) /\ queue' = queue \ {e}
    <3>1. e.mbufs \cup {} = e.mbufs  OBVIOUS
    <3> QED  BY <2>1, <2>2, <2>4, <3>1, MovesEntry
  <2>5. CASE queue' = queue \ {e} /\ UNCHANGED memory
    <3>1. Apart(queue') /\ Chained(queue') \subseteq Chained(queue)
      BY <2>5, ApartLeave DEF Queued
    <3>2. Moves({})  BY <2>1, <2>2, <2>5, <3>1 DEF Moves, Queued
    <3> QED  BY <3>2
  <2>6. ASSUME NEW f, queue' = (queue \ {e}) \cup {f}, IsEntry(f), f.mbufs \subseteq e.mbufs,
               UNCHANGED memory
        PROVE  Moves({})
    <3>1. f.mbufs \subseteq e.mbufs \cup {} /\ Lent' \cap {} = {} /\ Lent' \subseteq Lent
      BY <2>2, <2>6
    <3> HIDE DEF Lent
    <3> QED  BY <2>1, <2>2, <2>6, <3>1, MovesOver
  <2>7. CASE /\ UNCHANGED memory
             /\ \E m \in e.mbufs : queue' = (queue \ {e}) \cup {[e EXCEPT !.mbufs = @ \ {m}]}
    <3>1. PICK m \in e.mbufs : queue' = (queue \ {e}) \cup {[e EXCEPT !.mbufs = @ \ {m}]}
      BY <2>7
    <3> DEFINE f == [e EXCEPT !.mbufs = @ \ {m}]
    <3>2. IsEntry(f) /\ f.mbufs \subseteq e.mbufs  BY DEF IsEntry, Queued
    <3>3. queue' = (queue \ {e}) \cup {f}  BY <3>1
    <3> HIDE DEF f
    <3>4. Moves({})  BY <2>6, <2>7, <3>2, <3>3
    <3> QED  BY <3>4
  <2>8. CASE /\ UNCHANGED memory
             /\ queue' = (queue \ {e}) \cup {[e EXCEPT !.pkt.pay = Tail(@) \o <<-2>>]}
    <3> DEFINE f == [e EXCEPT !.pkt.pay = Tail(@) \o <<-2>>]
    <3>1. IsEntry(f) /\ f.mbufs \subseteq e.mbufs  BY DEF IsEntry, Queued
    <3>2. queue' = (queue \ {e}) \cup {f}  BY <2>8
    <3> HIDE DEF f
    <3>3. Moves({})  BY <2>6, <2>8, <3>1, <3>2
    <3> QED  BY <3>3
  <2> QED  BY <2>3, <2>4, <2>5, <2>7, <2>8
<1>11. CASE FreeErr
  <2>1. ~wrong /\ wrong' /\ UNCHANGED <<arg, ret, queue>>  BY <1>11 DEF FreeErr, Err
  <2>2. PICK m \in 1..Len(pkts) : m_freem({m})  BY <1>11 DEF FreeErr
  <2>3. Moves({m})  BY <1>0, <2>1, <2>2 DEF Moves, Queued
  <2> QED  BY <2>3
<1> QED  BY <1>1, <1>2, <1>3, <1>4, <1>5, <1>6, <1>7, <1>8, <1>9, <1>10, <1>11
         DEF Working, Rx, Errs

One(P) == IF P THEN 1 ELSE 0

\* Those who may still free m, the mistake counted as one of them.
Owners(m) == One(kept = m) + One(m \in Chained(queue)) + One(m \in Lent) + One(~wrong)

Loaded ==
  \A m \in Items : frees[m] + Owners(m) <= 3 /\ (m > Len(pkts) => frees[m] = 0)

Stored == zone \in Zone /\ frees \in [Items -> Nat]

\* The steps of the test that came before the one it is at.
Behind(op) == {x \in StepsOf(op) : Precedes(x, at)}

\* There are no more packets than calls of tcp_lro_rx that were made.
Counted ==
  /\ Len(pkts) <= MaxMbufs
  /\ phase = "body" => Len(pkts) <= Cardinality(Behind("rx")) + One(arg # 0)

Named ==
  /\ phase \in {"start", "body", "caseTearDown", "mockTearDown", "over"}
  /\ failed \subseteq {"unexpected", "excess", "unmet", "assert"} \cup Failures
  /\ ret \in {"none", Taken, TCP_LRO_CANNOT, TCP_LRO_NOT_SUPPORTED}
  /\ took \subseteq 1..Len(pkts)

TInv == Stated(gm) /\ Queued /\ Stored /\ Loaded /\ Counted /\ Named

\* The mbufs of a test are numbered from 1.
LEMMA Numbered ==
  ASSUME Shape, Counted
  PROVE  /\ Len(pkts) \in Nat /\ MaxMbufs \in Nat /\ Items = 1..MaxMbufs
         /\ 1..Len(pkts) \subseteq Items
         /\ Lent \subseteq 1..Len(pkts) /\ KeptSet \subseteq 1..Len(pkts)
<1>1. Len(pkts) \in Nat  BY Longer DEF Shape
<1>2. MaxMbufs \in Nat /\ Items = 1..MaxMbufs /\ Len(pkts) <= MaxMbufs
  BY HarnessAssumption DEF Counted
<1> QED  BY <1>1, <1>2 DEF Shape, Lent, KeptSet

\* m_freem keeps the zone a zone and counts.
LEMMA FreedType ==
  ASSUME Stored, NEW S \in SUBSET Items, m_freem(S)
  PROVE  /\ Stored'
         /\ \A m \in Items : frees'[m] = frees[m] + One(m \in S)
<1>1. Cardinality(S) \in Nat /\ CountMod \in Nat /\ CountMod > 0  BY HeldSize, ZoneAssumption
<1>2. zone.alloced \in Nat  BY DEF Stored, Zone
<1>3. (zone.alloced - Cardinality(S)) % CountMod \in 0..(CountMod - 1)  BY <1>1, <1>2
<1>4. zone' \in Zone
  BY <1>3 DEF m_freem, Stored, Zone, Failures
<1>5. \A m \in Items : frees'[m] = frees[m] + One(m \in S)  BY DEF m_freem, One
<1>6. frees' \in [Items -> Nat]  BY DEF m_freem, Stored
<1> QED  BY <1>4, <1>5, <1>6 DEF Stored

\* Each mbuf that is freed has lost an owner.
LEMMA LoadedStep ==
  ASSUME Stored, Loaded, Stored', Shape, Counted, pkts' = pkts, NEW S, S \subseteq 1..Len(pkts),
         \A m \in Items : frees'[m] = frees[m] + One(m \in S),
         \A m \in Items : One(m \in S) + Owners(m)' <= Owners(m)
  PROVE  Loaded'
<1> SUFFICES ASSUME NEW m \in Items
             PROVE  frees'[m] + Owners(m)' <= 3 /\ (m > Len(pkts) => frees'[m] = 0)
  BY DEF Loaded
<1>1. m \in Nat \ {0} /\ Len(pkts) \in Nat  BY Numbered
<1>2. /\ frees[m] \in Nat /\ frees'[m] \in Nat /\ frees'[m] = frees[m] + One(m \in S)
      /\ frees[m] + Owners(m) <= 3
  BY DEF Stored, Loaded
<1>3. Owners(m) \in Nat /\ Owners(m)' \in Nat /\ One(m \in S) \in Nat
  BY DEF Owners, One
<1>4. One(m \in S) + Owners(m)' <= Owners(m)  OBVIOUS
<1>5. CASE m \in 1..Len(pkts)
  <2>1. ~(m > Len(pkts))  BY <1>5
  <2> HIDE DEF Owners, One
  <2> QED  BY <1>2, <1>3, <1>4, <2>1
<1>6. CASE m \notin 1..Len(pkts)
  <2>1. One(m \in S) = 0  BY <1>6 DEF One
  <2>2. m > Len(pkts) /\ frees[m] = 0  BY <1>1, <1>6 DEF Loaded
  <2> HIDE DEF Owners
  <2> QED  BY <1>2, <1>3, <1>4, <2>1, <2>2
<1> QED  BY <1>5, <1>6

\* The steps of the code under test keep the memory typed, the queue and the load.
LEMMA WorkingMemory ==
  ASSUME IInv, TInv, Working
  PROVE  Queued' /\ Stored' /\ Loaded'
<1> USE DEF IInv, TInv
<1>1. PICK S : Moves(S)  BY WorkingMoves
<1>2. UNCHANGED <<pkts, arg, kept>>  BY WorkingFrame
<1>3. 1..Len(pkts) \subseteq Items /\ Lent \subseteq 1..Len(pkts)  BY Numbered
<1>4. Stored' /\ \A m \in Items : frees'[m] = frees[m] + One(m \in S)
  <2>1. CASE m_freem(S)  BY <1>1, <1>3, <2>1, FreedType DEF Moves
  <2>2. CASE S = {} /\ UNCHANGED memory  BY <2>2 DEF Stored, One
  <2> QED  BY <1>1, <2>1, <2>2 DEF Moves
<1>5. Queued'
  <2>1. /\ Chained(queue) \subseteq 1..Len(pkts)
        /\ Chained(queue') \subseteq Chained(queue) \cup (Lent \ (Lent' \cup S))
        /\ Lent \cap Chained(queue) = {} /\ Lent' \subseteq Lent
    BY <1>1 DEF Moves, Queued, Chained
  <2> HIDE DEF Lent
  <2>2. Chained(queue') \subseteq 1..Len(pkts) /\ Lent' \cap Chained(queue') = {}
    BY <1>3, <2>1
  <2>3. \A e \in queue' : e.mbufs \subseteq Chained(queue')  BY DEF Chained
  <2> QED  BY <1>1, <1>2, <2>2, <2>3 DEF Queued, Moves
<1>6. ASSUME NEW m
      PROVE  One(m \in S) + Owners(m)' <= Owners(m)
  <2>1. /\ m \in S => \/ m \in Chained(queue) /\ m \notin Chained(queue')
                      \/ m \in Lent /\ m \notin Lent' /\ m \notin Chained(queue')
                      \/ ~wrong /\ wrong'
        /\ m \in Chained(queue') => m \in Chained(queue) \/ (m \in Lent /\ m \notin Lent' /\ m \notin S)
        /\ (m \in Lent' => m \in Lent) /\ (wrong => wrong')
        /\ ~(m \in Lent /\ m \in Chained(queue))
    BY <1>1 DEF Moves, Queued
  <2>2. One(m \in S) + One(m \in Chained(queue')) + One(m \in Lent') + One(~wrong')
          <= One(m \in Chained(queue)) + One(m \in Lent) + One(~wrong)
    <3> HIDE DEF Lent
    <3> QED  BY <2>1 DEF One
  <2>3. One(kept' = m) = One(kept = m)  BY <1>2
  <2>4. /\ One(m \in S) \in Nat /\ One(m \in Chained(queue')) \in Nat /\ One(m \in Lent') \in Nat
        /\ One(~wrong') \in Nat /\ One(m \in Chained(queue)) \in Nat /\ One(m \in Lent) \in Nat
        /\ One(~wrong) \in Nat /\ One(kept = m) \in Nat
    BY DEF One
  <2>5. /\ Owners(m)' = One(kept' = m) + One(m \in Chained(queue')) + One(m \in Lent') + One(~wrong')
        /\ Owners(m) = One(kept = m) + One(m \in Chained(queue)) + One(m \in Lent) + One(~wrong)
    BY DEF Owners, Chained
  <2> HIDE DEF One, Owners, Lent
  <2> QED  BY <2>2, <2>3, <2>4, <2>5
<1>7. S \subseteq 1..Len(pkts)  BY <1>1 DEF Moves
<1>8. Loaded'  BY <1>2, <1>4, <1>6, <1>7, LoadedStep
<1> QED  BY <1>4, <1>5, <1>8

\* So do the steps that free what the pointer or the queue holds, or nothing, and
\* those that end a call.
LEMMA ReleaseMemory ==
  ASSUME IInv, TInv, UNCHANGED <<pkts, wrong>>, NEW S, S \subseteq 1..Len(pkts),
         Stored', \A m \in Items : frees'[m] = frees[m] + One(m \in S),
         Lent' \subseteq Lent,
         \/ queue' = queue /\ kept' = kept /\ S = {}
         \/ queue' = queue /\ kept' = 0 /\ S = KeptSet
         \/ queue' = {} /\ kept' = kept /\ S = Chained(queue)
  PROVE  Queued' /\ Loaded'
<1> USE DEF IInv, TInv
<1>1. Queued'
  <2> HIDE DEF Lent
  <2> QED  BY DEF Queued, Apart, Chained
<1>2. ASSUME NEW m \in Items
      PROVE  One(m \in S) + Owners(m)' <= Owners(m)
  <2>1. /\ One(m \in S) \in Nat /\ One(m \in Chained(queue')) \in Nat /\ One(m \in Lent') \in Nat
        /\ One(~wrong) \in Nat /\ One(m \in Chained(queue)) \in Nat /\ One(m \in Lent) \in Nat
        /\ One(kept' = m) \in Nat /\ One(kept = m) \in Nat
    BY DEF One
  <2>2. /\ Owners(m)' = One(kept' = m) + One(m \in Chained(queue')) + One(m \in Lent') + One(~wrong)
        /\ Owners(m) = One(kept = m) + One(m \in Chained(queue)) + One(m \in Lent) + One(~wrong)
    BY DEF Owners, Chained
  <2>3. One(m \in Lent') <= One(m \in Lent)
    <3> HIDE DEF Lent
    <3> QED  BY DEF One
  <2>4. One(m \in S) + One(kept' = m) + One(m \in Chained(queue'))
          <= One(kept = m) + One(m \in Chained(queue))
    <3>1. m # 0  BY Numbered
    <3>2. queue' = {} => m \notin Chained(queue')  BY DEF Chained
    <3>3. m \in KeptSet <=> kept = m  BY <3>1 DEF KeptSet
    <3>4. queue' = queue => Chained(queue') = Chained(queue)  OBVIOUS
    <3>5. CASE queue' = queue /\ kept' = kept /\ S = {}
      <4>1. One(m \in S) = 0  BY <3>5 DEF One
      <4> HIDE DEF One
      <4> QED  BY <2>1, <3>4, <3>5, <4>1
    <3>6. CASE queue' = queue /\ kept' = 0 /\ S = KeptSet
      <4>1. One(m \in S) = One(kept = m) /\ One(kept' = m) = 0
        BY <3>1, <3>3, <3>6 DEF One
      <4> HIDE DEF One
      <4> QED  BY <2>1, <3>4, <3>6, <4>1
    <3>7. CASE queue' = {} /\ kept' = kept /\ S = Chained(queue)
      <4>1. One(m \in S) = One(m \in Chained(queue)) /\ One(m \in Chained(queue')) = 0
        BY <3>2, <3>7 DEF One
      <4> HIDE DEF One
      <4> QED  BY <2>1, <3>7, <4>1
    <3> QED  BY <3>5, <3>6, <3>7
  <2> DEFINE s == One(m \in S)
             k == One(kept = m)
             l == One(kept' = m)
             c == One(m \in Chained(queue))
             d == One(m \in Chained(queue'))
             t == One(m \in Lent)
             u == One(m \in Lent')
             w == One(~wrong)
  <2>5. /\ s \in Nat /\ k \in Nat /\ l \in Nat /\ c \in Nat /\ d \in Nat
        /\ t \in Nat /\ u \in Nat /\ w \in Nat /\ u <= t /\ s + l + d <= k + c
    BY <2>1, <2>3, <2>4
  <2>6. Owners(m)' = l + d + u + w /\ Owners(m) = k + c + t + w  BY <2>2
  <2> HIDE DEF Owners, s, k, l, c, d, t, u, w
  <2>7. s + Owners(m)' <= Owners(m)  BY <2>5, <2>6
  <2> QED  BY <2>7 DEF s
<1>3. Loaded'  BY <1>2, LoadedStep
<1> QED  BY <1>1, <1>3

\* A new mbuf has the owners of its call.
LEMMA GenerateMemory ==
  ASSUME IInv, TInv, Counted', Generate
  PROVE  Queued' /\ Stored' /\ Loaded'
<1> USE DEF IInv, TInv
<1> DEFINE m == Len(pkts) + 1
           z == uma_zalloc_arg(zone, m)
           S == IF Step.raw THEN {} ELSE KeptSet
<1>1. /\ arg = 0 /\ pkts' = Append(pkts, Step.pkt) /\ arg' = m
      /\ UNCHANGED <<queue, wrong, ret>>
      /\ Step.raw => zone' = z /\ kept' = kept /\ frees' = frees
      /\ ~Step.raw => /\ kept' = m
                      /\ zone' = IF kept = 0 THEN z ELSE uma_zfree_arg(z, kept)
                      /\ frees' = [i \in Items |-> frees[i] + (IF i = kept THEN 1 ELSE 0)]
  BY DEF Generate
<1>2. /\ ret = "none" /\ Lent = {} /\ Len(pkts) \in Nat /\ Len(pkts') = m /\ m \in Items
      /\ 1..Len(pkts) \subseteq Items /\ KeptSet \subseteq 1..Len(pkts) /\ 0 \notin Items
      /\ Items \subseteq Nat
  <2>1. ret = "none" /\ Lent = {}  BY <1>1 DEF InCall, Lent
  <2>2. Len(pkts') = m  BY <1>1, Longer DEF Shape
  <2>3. MaxMbufs \in Nat /\ Items = 1..MaxMbufs /\ m <= MaxMbufs
    BY <2>2, HarnessAssumption DEF Counted
  <2> QED  BY <2>1, <2>2, <2>3, Numbered
<1>3. Stored'
  <2>1. z \in Zone  BY <1>2, ZallocFields DEF Stored
  <2>2. zone' \in Zone
    <3> HIDE DEF z
    <3>1. kept # 0 => kept \in Items  BY <1>2 DEF KeptSet
    <3> QED  BY <1>1, <2>1, <3>1, ZfreeFields
  <2>3. frees' \in [Items -> Nat]  BY <1>1 DEF Stored
  <2> QED  BY <2>2, <2>3 DEF Stored
<1>4. Lent' = {m}  BY <1>1, <1>2 DEF Lent
<1>5. /\ \A e \in queue : e.mbufs \subseteq 1..Len(pkts)
      /\ Chained(queue) \subseteq 1..Len(pkts) /\ m \notin 1..Len(pkts)
      /\ 1..Len(pkts) \subseteq 1..Len(pkts')
  BY <1>2 DEF Queued, Chained
<1>6. Queued'
  <2>1. \A e \in queue' : e.mbufs \subseteq 1..Len(pkts')  BY <1>1, <1>5
  <2> HIDE DEF Lent, m
  <2> QED  BY <1>1, <1>4, <1>5, <2>1 DEF Queued
<1>7. \A i \in Items : frees'[i] = frees[i] + One(i \in S)
  BY <1>1, <1>2 DEF One, KeptSet, Stored
<1>8. Loaded'
  <2> SUFFICES ASSUME NEW i \in Items
               PROVE  frees'[i] + Owners(i)' <= 3 /\ (i > Len(pkts') => frees'[i] = 0)
    BY DEF Loaded
  <2>1. /\ Owners(i)' = One(kept' = i) + One(i \in Chained(queue')) + One(i \in Lent') + One(~wrong')
        /\ Owners(i) = One(kept = i) + One(i \in Chained(queue)) + One(i \in Lent) + One(~wrong)
    BY DEF Owners, Chained
  <2>2. /\ frees[i] \in Nat /\ frees[i] + Owners(i) <= 3 /\ (i > Len(pkts) => frees[i] = 0)
        /\ frees'[i] = frees[i] + One(i \in S)
    BY <1>7 DEF Stored, Loaded
  <2>3. Chained(queue') = Chained(queue) /\ wrong' = wrong  BY <1>1
  <2>4. S \subseteq 1..Len(pkts) /\ kept' \in {kept, m} /\ kept # m
    BY <1>1, <1>2 DEF KeptSet, Shape
  <2>5. CASE i = m
    <3>1. frees[i] = 0 /\ One(i \in S) = 0 /\ One(i \in Chained(queue')) = 0
      BY <1>2, <1>5, <2>2, <2>3, <2>4, <2>5 DEF One
    <3>2. One(kept' = i) <= 1 /\ One(i \in Lent') <= 1 /\ One(~wrong') <= 1
          /\ One(kept' = i) \in Nat /\ One(i \in Lent') \in Nat /\ One(~wrong') \in Nat
      BY DEF One
    <3>3. i = Len(pkts')  BY <1>2, <2>5
    <3>4. ~(i > Len(pkts'))  BY <1>2, <2>5, <3>3
    <3> HIDE DEF One, Owners, m, Lent
    <3> QED  BY <2>1, <2>2, <3>1, <3>2, <3>4
  <2>6. CASE i # m
    <3>1. One(i \in S) + One(kept' = i) = One(kept = i)
      BY <1>1, <1>2, <2>4, <2>6 DEF One, KeptSet
    <3>2. One(i \in Lent') = 0 /\ One(i \in Lent) = 0  BY <1>2, <1>4, <2>6 DEF One
    <3>3. i > Len(pkts') => i > Len(pkts) /\ i \notin S  BY <1>2, <2>4
    <3>4. One(i \in S) \in Nat /\ One(kept' = i) \in Nat /\ One(kept = i) \in Nat
          /\ One(i \in Chained(queue)) \in Nat /\ One(~wrong) \in Nat
          /\ (i \notin S => One(i \in S) = 0)
      BY DEF One
    <3> HIDE DEF One, Owners, m, Lent, S
    <3>5. i > Len(pkts') => frees'[i] = 0  BY <2>2, <3>3, <3>4
    <3> DEFINE s == One(i \in S)
               k == One(kept = i)
               l == One(kept' = i)
               c == One(i \in Chained(queue))
               w == One(~wrong)
    <3>6. Owners(i)' = l + c + 0 + w /\ Owners(i) = k + c + 0 + w  BY <2>1, <2>3, <3>2
    <3>7. s + l = k /\ s \in Nat /\ l \in Nat /\ k \in Nat /\ c \in Nat /\ w \in Nat
      BY <3>1, <3>4
    <3>8. frees'[i] = frees[i] + s  BY <2>2
    <3> HIDE DEF s, k, l, c, w
    <3>9. frees'[i] + Owners(i)' = frees[i] + Owners(i)  BY <2>2, <3>6, <3>7, <3>8
    <3> QED  BY <2>2, <3>5, <3>9
  <2> QED  BY <2>5, <2>6
<1> QED  BY <1>3, <1>6, <1>8

\* Memory: the parts of the type invariant that speak of mbufs.
LEMMA MemoryStep ==
  ASSUME IInv, TInv, Counted', [Next]_vars
  PROVE  Queued' /\ Stored' /\ Loaded'
<1> USE DEF IInv, TInv
<1>0. /\ 1..Len(pkts) \subseteq Items /\ KeptSet \subseteq 1..Len(pkts)
      /\ Chained(queue) \subseteq 1..Len(pkts)
      /\ UNCHANGED <<arg, ret>> => Lent' \subseteq Lent
  BY Numbered DEF Queued, Chained, Lent
<1>1. CASE Working  BY <1>1, WorkingMemory
<1>2. CASE Generate  BY <1>2, GenerateMemory
<1>3. ASSUME UNCHANGED <<pkts, wrong, arg, ret, queue, kept, frees>>, zone' \in Zone
      PROVE  Queued' /\ Stored' /\ Loaded'
  <2> DEFINE S == {}
  <2>1. Stored' /\ \A m \in Items : frees'[m] = frees[m] + One(m \in S)
    BY <1>3 DEF Stored, One
  <2>2. S \subseteq 1..Len(pkts)  OBVIOUS
  <2> QED  BY <1>0, <1>3, <2>1, <2>2, ReleaseMemory
<1>4. CASE \/ FlushDone \/ SetExpectation \/ CallMockSequence \/ EnableForwardingStep
           \/ SetIfMtuStep \/ UNCHANGED vars
  <2>1. UNCHANGED <<pkts, wrong, arg, ret, queue, kept, frees, zone>>
    BY <1>4 DEF FlushDone, SetExpectation, CallMockSequence, EnableForwardingStep, SetIfMtuStep,
                vars
  <2> QED  BY <1>3, <2>1 DEF Stored
<1>5. CASE TearDown
  <2>1. zone' \in Zone  BY <1>5, ZdestroyFields DEF TearDown, Stored
  <2>2. UNCHANGED <<pkts, wrong, arg, ret, queue, kept, frees>>  BY <1>5 DEF TearDown
  <2> QED  BY <1>3, <2>1, <2>2
<1>6. CASE Assert
  <2> DEFINE S == {}
  <2>1. UNCHANGED <<pkts, wrong, queue, kept, frees, zone>> /\ arg' = 0 /\ ret' = "none"
    BY <1>6 DEF Assert
  <2>2. Stored' /\ \A m \in Items : frees'[m] = frees[m] + One(m \in S)
    BY <2>1 DEF Stored, One
  <2>3. Lent' \subseteq Lent /\ S \subseteq 1..Len(pkts)  BY <2>1 DEF Lent
  <2> QED  BY <2>1, <2>2, <2>3, ReleaseMemory
<1>7. CASE Return
  <2>1. m_freem(KeptSet) /\ kept' = 0 /\ UNCHANGED <<pkts, wrong, queue, arg, ret>>
    BY <1>7 DEF Return
  <2>2. Stored' /\ \A m \in Items : frees'[m] = frees[m] + One(m \in KeptSet)
    BY <1>0, <2>1, FreedType
  <2> QED  BY <1>0, <2>1, <2>2, ReleaseMemory
<1>8. CASE TestCaseTearDown \/ FreeStep
  <2>1. UNCHANGED <<pkts, wrong, kept, arg, ret>>  BY <1>8 DEF TestCaseTearDown, FreeStep
  <2>2. \/ m_freem(Chained(queue)) /\ queue' = {}
        \/ UNCHANGED <<queue, memory>>
    BY <1>8 DEF TestCaseTearDown, FreeStep, tcp_lro_free, Chained
  <2>3. CASE m_freem(Chained(queue)) /\ queue' = {}
    <3>1. Stored' /\ \A m \in Items : frees'[m] = frees[m] + One(m \in Chained(queue))
      BY <1>0, <2>3, FreedType
    <3> QED  BY <1>0, <2>1, <2>3, <3>1, ReleaseMemory
  <2>4. CASE UNCHANGED <<queue, memory>>  BY <1>3, <2>1, <2>4 DEF Stored
  <2> QED  BY <2>2, <2>3, <2>4
<1>9. ASSUME NEW v \in DOMAIN Scripts, NEW name \in DOMAIN Scripts[v], SetUp(name, v)
      PROVE  Queued' /\ Stored' /\ Loaded'
  <2>1. /\ zone' = NewZone /\ frees' = [m \in Items |-> 0]
        /\ kept' = 0 /\ arg' = 0 /\ ret' = "none" /\ queue' = {}
    BY <1>9 DEF SetUp
  <2>2. Stored'  BY <2>1, NewZoneType DEF Stored
  <2>3. Queued' /\ Lent' = {} /\ Chained(queue') = {}
    BY <2>1 DEF Queued, Apart, Chained, Lent
  <2>4. ASSUME NEW m \in Items
        PROVE  frees'[m] + Owners(m)' <= 3 /\ (m > Len(pkts') => frees'[m] = 0)
    <3>1. m # 0  BY Numbered
    <3>2. Owners(m)' = One(kept' = m) + One(m \in Chained(queue')) + One(m \in Lent') + One(~wrong')
      BY DEF Owners, Chained
    <3>3. One(kept' = m) = 0 /\ One(m \in Chained(queue')) = 0 /\ One(m \in Lent') = 0
          /\ One(~wrong') \in 0..1
      BY <2>1, <2>3, <3>1 DEF One
    <3> HIDE DEF One, Owners, Lent
    <3> QED  BY <2>1, <3>2, <3>3
  <2> QED  BY <2>2, <2>3, <2>4 DEF Loaded
<1> QED  BY <1>1, <1>2, <1>4, <1>5, <1>6, <1>7, <1>8, <1>9, NextCases

\* A test has finitely many steps.
LEMMA FinitelyMany ==
  ASSUME NEW fs, IsTest(fs), NEW op
  PROVE  IsFiniteSet(StepsIn(fs, op))
<1> DEFINE Of(i) == {[fn |-> i, pc |-> j] : j \in 1..Len(fs[i])}
           All == {Of(i) : i \in 1..Len(fs)}
<1>1. Len(fs) \in Nat /\ \A i \in 1..Len(fs) : Len(fs[i]) \in Nat  BY DEF IsTest, IsFunction
<1>2. ASSUME NEW i \in 1..Len(fs) PROVE IsFiniteSet(Of(i))
  <2> DEFINE g == [j \in 1..Len(fs[i]) |-> [fn |-> i, pc |-> j]]
  <2>1. g \in Surjection(1..Len(fs[i]), Of(i))  BY DEF Surjection
  <2>2. IsFiniteSet(1..Len(fs[i]))
    <3>1. 1 \in Int /\ Len(fs[i]) \in Int  BY <1>1
    <3> QED  BY <3>1, FS_Interval
  <2> HIDE DEF g, Of
  <2> QED  BY <2>1, <2>2, FS_Surjection
<1>3. IsFiniteSet(All)
  <2> DEFINE g == [i \in 1..Len(fs) |-> Of(i)]
  <2>1. g \in Surjection(1..Len(fs), All)
    <3> HIDE DEF Of
    <3> QED  BY DEF Surjection
  <2>2. IsFiniteSet(1..Len(fs))  BY <1>1, FS_Interval
  <2> HIDE DEF g, All
  <2> QED  BY <2>1, <2>2, FS_Surjection
<1>4. IsFiniteSet(UNION All)
  <2>1. \A T \in All : IsFiniteSet(T)
    <3> HIDE DEF Of
    <3> QED  BY <1>2
  <2> HIDE DEF All
  <2> QED  BY <1>3, <2>1, FS_UNION
<1>5. StepsIn(fs, op) \in SUBSET UNION All  BY DEF StepsIn
<1> HIDE DEF All
<1> QED  BY <1>4, <1>5, FS_Subset

\* The steps of the test that runs.
LEMMA StepsAre ==
  ASSUME Shape, Placed, phase = "body", NEW op
  PROVE  /\ IsTest(Scripts[test.version][test.name])
         /\ IsFunction(Function)
         /\ \A x \in StepsOf(op) :
              /\ x.fn \in 1..Len(Scripts[test.version][test.name])
              /\ x.pc \in 1..Len(Scripts[test.version][test.name][x.fn])
              /\ x.fn \in Nat /\ x.pc \in Nat /\ x = [fn |-> x.fn, pc |-> x.pc]
              /\ Scripts[test.version][test.name][x.fn][x.pc].op = op
         /\ At(op) => at \in StepsOf(op)
<1> DEFINE fs == Scripts[test.version][test.name]
<1>1. test.version \in DOMAIN Scripts /\ test.name \in DOMAIN Scripts[test.version]
      /\ at.fn \in DOMAIN fs
  BY DEF Placed
<1>2. IsTest(fs)  BY <1>1, HarnessAssumption
<1>3. /\ Len(fs) \in Nat /\ DOMAIN fs = 1..Len(fs)
      /\ \A i \in 1..Len(fs) : IsFunction(fs[i]) /\ Len(fs[i]) \in Nat
  BY <1>2 DEF IsTest, IsFunction
<1>4. IsFunction(Function) /\ Function = fs[at.fn]  BY <1>1, <1>3 DEF Function
<1>5. ASSUME NEW x \in StepsOf(op)
      PROVE  /\ x.fn \in 1..Len(fs) /\ x.pc \in 1..Len(fs[x.fn])
             /\ x.fn \in Nat /\ x.pc \in Nat /\ x = [fn |-> x.fn, pc |-> x.pc]
             /\ fs[x.fn][x.pc].op = op
  <2>1. /\ x \in UNION {{[fn |-> i, pc |-> j] : j \in 1..Len(fs[i])} : i \in 1..Len(fs)}
        /\ fs[x.fn][x.pc].op = op
    BY DEF StepsOf, StepsIn
  <2>2. PICK i \in 1..Len(fs) : x \in {[fn |-> i, pc |-> j] : j \in 1..Len(fs[i])}
    BY <2>1
  <2>3. PICK j \in 1..Len(fs[i]) : x = [fn |-> i, pc |-> j]  BY <2>2
  <2> HIDE DEF fs
  <2> QED  BY <1>3, <2>1, <2>3
<1>6. ASSUME At(op) PROVE at \in StepsOf(op)
  <2>1. at.pc \in 1..Len(fs[at.fn]) /\ at.fn \in 1..Len(fs) /\ fs[at.fn][at.pc].op = op
    BY <1>1, <1>3, <1>4, <1>6 DEF At, InBody, Step, Shape
  <2>2. at = [fn |-> at.fn, pc |-> at.pc]  BY DEF Shape
  <2>3. at \in {[fn |-> at.fn, pc |-> j] : j \in 1..Len(fs[at.fn])}
    <3> HIDE DEF fs
    <3> QED  BY <2>1, <2>2
  <2>4. at \in UNION {{[fn |-> i, pc |-> j] : j \in 1..Len(fs[i])} : i \in 1..Len(fs)}
    <3> HIDE DEF fs
    <3> QED  BY <2>1, <2>3
  <2> QED  BY <2>1, <2>4 DEF StepsOf, StepsIn
<1> QED  BY <1>2, <1>4, <1>5, <1>6

\* A step of the test comes before the test's place for good.
LEMMA BehindGrows ==
  ASSUME Shape, Shape', Placed, phase = "body", test' = test, NEW op,
         Precedes(at, at') \/ at' = at
  PROVE  /\ Behind(op) \subseteq Behind(op)'
         /\ At(op) /\ Precedes(at, at') => at \in Behind(op)' \ Behind(op)
<1>1. StepsOf(op)' = StepsOf(op)  BY DEF StepsOf
<1>2. /\ at.fn \in Nat /\ at.pc \in Nat /\ at'.fn \in Nat /\ at'.pc \in Nat  BY DEF Shape
<1>3. \A x \in StepsOf(op) : x.fn \in Nat /\ x.pc \in Nat  BY StepsAre
<1>4. ASSUME NEW x \in StepsOf(op), Precedes(x, at) PROVE Precedes(x, at')
  BY <1>2, <1>3, <1>4 DEF Precedes
<1>5. At(op) => at \in StepsOf(op)  BY StepsAre
<1>6. ~Precedes(at, at)  BY <1>2 DEF Precedes
<1> QED  BY <1>1, <1>4, <1>5, <1>6 DEF Behind

\* Where a step takes the test.
LEMMA Onward ==
  ASSUME Shape, Placed
  PROVE  /\ Advance => Precedes(at, at')
         /\ At("rx") /\ at' = [at EXCEPT !.pc = Len(Function) + 1] => Precedes(at, at')
         /\ at' = [fn |-> at.fn + 1, pc |-> 1] => Precedes(at, at')
<1>1. at \in [fn : Nat, pc : Nat \ {0}]  BY DEF Shape
<1>2. Advance => Precedes(at, at')  BY <1>1 DEF Advance, Precedes
<1>3. ASSUME At("rx"), at' = [at EXCEPT !.pc = Len(Function) + 1] PROVE Precedes(at, at')
  <2>1. Len(Function) \in Nat /\ at.pc <= Len(Function)
    BY <1>3, StepsAre DEF At, InBody, IsFunction
  <2> QED  BY <1>1, <1>3, <2>1 DEF Precedes
<1>4. at' = [fn |-> at.fn + 1, pc |-> 1] => Precedes(at, at')  BY <1>1 DEF Precedes
<1> QED  BY <1>2, <1>3, <1>4

\* Counting the packets.
LEMMA CountedStep ==
  ASSUME IInv, IInv', TInv, [Next]_vars
  PROVE  Counted'
<1> USE DEF IInv, TInv
<1> DEFINE B == Behind("rx")
<1>0. /\ Len(pkts) \in Nat /\ MaxMbufs \in Nat /\ One(arg # 0) \in 0..1 /\ One(arg' # 0) \in 0..1
      /\ Len(pkts) <= MaxMbufs
  BY Numbered DEF One, Counted
<1>1. ASSUME phase = "body"
      PROVE  /\ IsFiniteSet(StepsOf("rx")) /\ Cardinality(StepsOf("rx")) <= MaxMbufs
             /\ Cardinality(StepsOf("rx")) \in Nat
             /\ \A T \in SUBSET StepsOf("rx") :
                  /\ IsFiniteSet(T) /\ Cardinality(T) \in Nat
                  /\ Cardinality(T) <= Cardinality(StepsOf("rx"))
  <2>1. IsTest(Scripts[test.version][test.name])  BY <1>1, StepsAre
  <2>2. IsFiniteSet(StepsOf("rx"))  BY <2>1, FinitelyMany DEF StepsOf
  <2>3. Cardinality(StepsOf("rx")) <= MaxMbufs  BY <2>1 DEF IsTest, StepsOf
  <2> QED  BY <2>2, <2>3, FS_Subset, FS_CardinalityType
<1>2. B \in SUBSET StepsOf("rx")  BY DEF Behind
\* The place does not change, or moves on, and there is no new packet.
<1>3. ASSUME phase = "body", phase' = "body", test' = test, pkts' = pkts,
             at' = at \/ Precedes(at, at'),
             (arg = 0 <=> arg' = 0) \/ (At("rx") /\ Precedes(at, at'))
      PROVE  Counted'
  <2> DEFINE C == Behind("rx")'
  <2>1. B \subseteq C /\ (At("rx") /\ Precedes(at, at') => at \in C \ B)  BY <1>3, BehindGrows
  <2>2. StepsOf("rx")' = StepsOf("rx")  BY <1>3 DEF StepsOf
  <2>3. C \in SUBSET StepsOf("rx")  BY <2>2 DEF Behind
  <2> HIDE DEF B, C
  <2>4. Cardinality(B) \in Nat /\ Cardinality(C) \in Nat /\ IsFiniteSet(C) /\ IsFiniteSet(B)
    BY <1>1, <1>2, <1>3, <2>3
  <2>5. Cardinality(B) <= Cardinality(C)  BY <2>1, <2>4, FS_Subset
  <2>6. ASSUME at \in C \ B PROVE Cardinality(B) + 1 <= Cardinality(C)
    <3>1. IsFiniteSet(B \cup {at}) /\ Cardinality(B \cup {at}) = Cardinality(B) + 1
      BY <2>4, <2>6, FS_AddElement
    <3>2. B \cup {at} \in SUBSET C  BY <2>1, <2>6
    <3> QED  BY <2>4, <3>1, <3>2, FS_Subset
  <2>7. Len(pkts) <= Cardinality(B) + One(arg # 0)  BY <1>3 DEF Counted, B
  <2>8. Len(pkts') <= Cardinality(C) + One(arg' # 0)
    <3>1. CASE arg = 0 <=> arg' = 0
      <4>1. One(arg' # 0) = One(arg # 0)  BY <3>1 DEF One
      <4> HIDE DEF One
      <4> QED  BY <1>0, <1>3, <2>4, <2>5, <2>7, <4>1
    <3>2. CASE At("rx") /\ Precedes(at, at')
      <4> HIDE DEF One
      <4> QED  BY <1>0, <1>3, <2>1, <2>4, <2>6, <2>7, <3>2
    <3> QED  BY <1>3, <3>1, <3>2
  <2> QED  BY <1>0, <1>3, <2>8 DEF Counted, C
<1>4. ASSUME phase' # "body", pkts' = pkts PROVE Counted'
  BY <1>0, <1>4 DEF Counted
<1>5. CASE Working
  <2>1. UNCHANGED <<pkts, arg, phase, test>> /\ (at' = at \/ Advance)
    BY <1>5, WorkingFrame DEF FlushErr
  <2> QED  BY <1>3, <1>4, <2>1, Onward
<1>6. CASE FlushDone \/ SetExpectation \/ CallMockSequence \/ EnableForwardingStep
            \/ SetIfMtuStep \/ FreeStep
  <2>1. UNCHANGED <<pkts, arg, phase, test>> /\ Advance
    BY <1>6 DEF FlushDone, SetExpectation, CallMockSequence, EnableForwardingStep, SetIfMtuStep,
                FreeStep
  <2> QED  BY <1>3, <1>4, <2>1, Onward
<1>7. CASE Generate
  <2>1. /\ At("rx") /\ arg = 0 /\ arg' # 0 /\ Len(pkts') = Len(pkts) + 1
        /\ UNCHANGED <<test, phase, at>> /\ phase = "body"
    BY <1>0, <1>7, Longer DEF Generate, Shape, At, InBody
  <2>2. at \in StepsOf("rx") \ B
    <3>1. at \in StepsOf("rx")  BY <2>1, StepsAre
    <3>2. ~Precedes(at, at)  BY DEF Precedes, Shape
    <3> QED  BY <3>1, <3>2 DEF Behind
  <2>3. Behind("rx")' = B  BY <2>1 DEF Behind, StepsOf
  <2> HIDE DEF B
  <2>4. /\ IsFiniteSet(B) /\ Cardinality(B) \in Nat
        /\ Cardinality(B \cup {at}) <= Cardinality(StepsOf("rx"))
        /\ Cardinality(StepsOf("rx")) <= MaxMbufs /\ Cardinality(StepsOf("rx")) \in Nat
    BY <1>1, <1>2, <2>1, <2>2
  <2>5. Cardinality(B \cup {at}) = Cardinality(B) + 1  BY <2>2, <2>4, FS_AddElement
  <2>6. Len(pkts) <= Cardinality(B)
    <3>1. Len(pkts) <= Cardinality(B) + One(arg # 0) /\ One(arg # 0) = 0
      BY <2>1 DEF Counted, B, One
    <3> HIDE DEF One
    <3> QED  BY <1>0, <2>4, <3>1
  <2>7. One(arg' # 0) = 1  BY <2>1 DEF One
  <2>8. Len(pkts') <= MaxMbufs /\ Len(pkts') <= Cardinality(B) + One(arg' # 0)
    <3> HIDE DEF One
    <3> QED  BY <1>0, <2>1, <2>4, <2>5, <2>6, <2>7
  <2> QED  BY <2>1, <2>3, <2>8 DEF Counted
<1>8. CASE Assert
  <2>1. /\ At("rx") /\ UNCHANGED <<pkts, phase, test>>
        /\ Advance \/ at' = [at EXCEPT !.pc = Len(Function) + 1]
    BY <1>8 DEF Assert, InCall
  <2>2. phase = "body" /\ phase' = "body"  BY <2>1 DEF At, InBody
  <2> QED  BY <1>3, <2>1, <2>2, Onward
<1>9. CASE Return
  <2>1. UNCHANGED <<pkts, arg, test>> /\ phase = "body"  BY <1>9 DEF Return
  <2>2. CASE phase' = "body"
    <3>1. at' = [fn |-> at.fn + 1, pc |-> 1]  BY <1>9, <2>2 DEF Return
    <3> QED  BY <1>3, <2>1, <2>2, <3>1, Onward
  <2> QED  BY <1>4, <2>1, <2>2
<1>10. CASE TestCaseTearDown \/ TearDown
  BY <1>4, <1>10 DEF TestCaseTearDown, TearDown
<1>11. ASSUME NEW v \in DOMAIN Scripts, NEW name \in DOMAIN Scripts[v], SetUp(name, v)
       PROVE  Counted'
  <2>1. pkts' = <<>> /\ arg' = 0 /\ test' = [name |-> name, version |-> v]
    BY <1>11 DEF SetUp
  <2>2. Len(pkts') = 0  BY <2>1
  <2>3. Cardinality(Behind("rx")') \in Nat
    <3>1. IsTest(Scripts[v][name])  BY HarnessAssumption
    <3>2. Behind("rx")' \in SUBSET StepsIn(Scripts[v][name], "rx")
      BY <2>1 DEF Behind, StepsOf
    <3>3. IsFiniteSet(Behind("rx")')  BY <3>1, <3>2, FinitelyMany, FS_Subset
    <3> QED  BY <3>3, FS_CardinalityType
  <2> HIDE DEF One
  <2> QED  BY <1>0, <2>2, <2>3 DEF Counted
<1>12. CASE UNCHANGED vars
  <2>1. UNCHANGED <<pkts, arg, phase, test, at>>  BY <1>12 DEF vars
  <2> QED  BY <1>3, <1>4, <2>1
<1> QED  BY <1>5, <1>6, <1>7, <1>8, <1>9, <1>10, <1>11, <1>12, NextCases

\* What becomes of the expectations, of the times handed out, and of what was
\* reported.
LEMMA MockSteps ==
  ASSUME IInv, [Next]_vars
  PROVE  \/ UNCHANGED <<gm, reads>> /\ failed \subseteq failed'
         \/ \E fn, x : /\ fn # "getmicrotime" /\ gm' = Called(gm, fn, x)
                       /\ reads' = reads /\ failed \subseteq failed'
         \/ \E tv : getmicrotime(tv)
         \/ SetExpectation
         \/ \E v \in DOMAIN Scripts : \E name \in DOMAIN Scripts[v] : SetUp(name, v)
<1> USE DEF Returns, PassOn
<1>1. ASSUME NEW p, NEW S, IfInput(gm, p, S), reads' = reads
      PROVE  \E fn, x : /\ fn # "getmicrotime" /\ gm' = Called(gm, fn, x)
                        /\ reads' = reads /\ failed \subseteq failed'
  BY <1>1 DEF IfInput
<1>2. CASE Working
  <2>1. \/ UNCHANGED mocks
        \/ \E p, S : IfInput(gm, p, S) /\ reads' = reads
        \/ \E tv : getmicrotime(tv)
    BY <1>2 DEF Working, Errs, Rx, RxRefuse, RxFlush, RxQueue, RxAbsorb, RxAppend, RxFill, RxErr,
                EntryErr, FreeErr, FlushErr, ReadClock, FlushOne
  <2> QED  BY <1>1, <2>1
<1>3. CASE CallMockSequence  BY <1>3 DEF CallMockSequence
<1>4. CASE \/ FlushDone \/ Generate \/ Assert \/ Return \/ TearDown
           \/ EnableForwardingStep \/ SetIfMtuStep \/ UNCHANGED vars
  BY <1>4 DEF FlushDone, Generate, Assert, Return, TearDown, EnableForwardingStep, SetIfMtuStep, vars
<1>5. CASE TestCaseTearDown \/ FreeStep
  BY <1>5 DEF TestCaseTearDown, FreeStep, tcp_lro_free
<1> QED  BY <1>2, <1>3, <1>4, <1>5, NextCases

\* A test that has no expectation.
LEMMA EmptyStated == Stated(<<>>)
<1>1. <<>> \in Seq({}) /\ Len(<<>>) = 0  OBVIOUS
<1> QED  BY <1>1 DEF Stated, IsSeq

\* The time that a step states is a time.
LEMMA StepStatesTime ==
  ASSUME Shape, Placed, At("expect")
  PROVE  Step.fn = "getmicrotime" => at \in ClockSteps(Scripts[test.version][test.name])
                                      /\ Step.arg \in Timeval
<1>1. phase = "body"  BY DEF At, InBody
<1>2. at \in StepsOf("expect") /\ IsTest(Scripts[test.version][test.name])  BY <1>1, StepsAre
<1>3. Step = Scripts[test.version][test.name][at.fn][at.pc]  BY DEF Step, Function
<1> QED  BY <1>2, <1>3 DEF ClockSteps, IsTest, StepsOf

\* The expectations stay a sequence, and their times stay times.
LEMMA StatedStep ==
  ASSUME IInv, Stated(gm), [Next]_vars
  PROVE  Stated(gm')
<1>1. CASE SetExpectation
  <2>1. /\ gm' = Append(gm, Expectation(gm, Step.fn, Step.arg, Step.seqs))
        /\ Step.fn = "getmicrotime" => Step.arg \in Timeval
    BY <1>1, StepStatesTime DEF SetExpectation, IInv
  <2> QED  BY <2>1, ExpectedStated
<1>2. ASSUME NEW tv, getmicrotime(tv) PROVE Stated(gm')
  BY <1>2, CalledStated DEF getmicrotime
<1>3. ASSUME NEW v \in DOMAIN Scripts, NEW name \in DOMAIN Scripts[v], SetUp(name, v)
      PROVE  Stated(gm')
  BY <1>3, EmptyStated DEF SetUp
<1> QED  BY <1>1, <1>2, <1>3, MockSteps, CalledStated

\* What may be reported.
LEMMA NamedStep ==
  ASSUME IInv, TInv, Stored', [Next]_vars
  PROVE  Named'
<1> USE DEF IInv, TInv, Returns, PassOn
<1>0. /\ \A fn, x : CallFailures(gm, fn, x) \subseteq {"unexpected", "excess"}
      /\ \A fns : Verify(gm, fns) \subseteq {"unmet"}
      /\ zone'.fails \subseteq Failures
      /\ Pkt \in {Pkt} /\ ErrorOf(Pkt, forwarding) \in {TCP_LRO_CANNOT, TCP_LRO_NOT_SUPPORTED}
  BY DEF CallFailures, Verify, Stored, Zone, ErrorOf
<1>1. CASE Working
  <2>1. UNCHANGED <<phase, pkts, arg>>  BY <1>1, WorkingFrame
  <2>2. failed' \subseteq failed \cup {"unexpected", "excess"}
    BY <1>0, <1>1 DEF Working, Errs, Rx, RxRefuse, RxFlush, RxQueue, RxAbsorb, RxAppend, RxFill,
                RxErr, EntryErr, FreeErr, FlushErr, ReadClock, FlushOne, IfInput, getmicrotime
  <2>3. /\ ret' \in {ret, Taken, TCP_LRO_CANNOT, TCP_LRO_NOT_SUPPORTED}
        /\ took' = took \/ (took' = took \cup {arg} /\ Calling)
    BY <1>0, <1>1 DEF Working, Errs, Rx, RxRefuse, RxFlush, RxQueue, RxAbsorb, RxAppend, RxFill,
                RxErr, EntryErr, FreeErr, FlushErr, ReadClock, FlushOne
  <2>4. Calling => arg \in 1..Len(pkts)  BY DEF Calling, Shape
  <2> QED  BY <2>1, <2>2, <2>3, <2>4 DEF Named
<1>2. CASE CallMockSequence
  <2>1. failed' \subseteq failed \cup {"unexpected", "excess"}
    BY <1>0, <1>2 DEF CallMockSequence
  <2> QED  BY <1>2, <2>1 DEF CallMockSequence, Named
<1>3. CASE Generate
  <2>1. Len(pkts) \in Nat /\ Len(pkts') = Len(pkts) + 1 /\ UNCHANGED <<phase, failed, ret, took>>
    BY <1>3, Longer DEF Generate, Shape
  <2> QED  BY <2>1 DEF Named
<1>4. CASE Assert  BY <1>4 DEF Assert, Named
<1>5. CASE TearDown
  <2>1. /\ failed' \subseteq failed \cup {"unmet"} \cup Failures /\ phase' = "over"
        /\ UNCHANGED <<ret, took, pkts>>
    BY <1>0, <1>5 DEF TearDown
  <2> QED  BY <2>1 DEF Named
<1>6. CASE \/ FlushDone \/ SetExpectation \/ EnableForwardingStep \/ SetIfMtuStep \/ UNCHANGED vars
  BY <1>6 DEF FlushDone, SetExpectation, EnableForwardingStep, SetIfMtuStep, vars, Named
<1>7. CASE Return \/ TestCaseTearDown \/ FreeStep
  <2>1. /\ UNCHANGED <<failed, ret, took, pkts>>
        /\ phase' \in {phase, "caseTearDown", "mockTearDown"}
    BY <1>7 DEF Return, TestCaseTearDown, FreeStep, tcp_lro_free
  <2> QED  BY <2>1 DEF Named
<1>8. ASSUME NEW v \in DOMAIN Scripts, NEW name \in DOMAIN Scripts[v], SetUp(name, v)
      PROVE  Named'
  BY <1>8 DEF SetUp, Named
<1> QED  BY <1>1, <1>2, <1>3, <1>4, <1>5, <1>6, <1>7, <1>8, NextCases

\* The type invariant holds at the start ...
LEMMA TInit == Init => TInv
<1> SUFFICES ASSUME Init PROVE TInv  OBVIOUS
<1>1. Stated(gm) /\ Len(pkts) = 0 /\ pkts = <<>>  BY EmptyStated DEF Init
<1>2. Queued /\ Chained(queue) = {} /\ Lent = {}  BY DEF Init, Queued, Apart, Chained, Lent
<1>3. Stored  BY NewZoneType DEF Init, Stored
<1>4. MaxMbufs \in Nat /\ Items = 1..MaxMbufs  BY HarnessAssumption
<1>5. ASSUME NEW m \in Items
      PROVE  frees[m] + Owners(m) <= 3 /\ (m > Len(pkts) => frees[m] = 0)
  <2>1. One(kept = m) = 0 /\ One(m \in Chained(queue)) = 0 /\ One(m \in Lent) = 0
        /\ One(~wrong) \in 0..1 /\ frees[m] = 0
    BY <1>2, <1>4 DEF One, Init
  <2>2. Owners(m) = One(kept = m) + One(m \in Chained(queue)) + One(m \in Lent) + One(~wrong)
    BY DEF Owners
  <2> HIDE DEF One, Owners, Lent
  <2> QED  BY <2>1, <2>2
<1>6. Counted /\ Named  BY <1>1, <1>4 DEF Counted, Named, Init
<1> QED  BY <1>1, <1>2, <1>3, <1>5, <1>6 DEF TInv, Loaded

\* ... and is preserved ...
LEMMA TStep ==
  ASSUME IInv, IInv', TInv, [Next]_vars
  PROVE  TInv'
<1>1. Counted' /\ Stated(gm')  BY CountedStep, StatedStep DEF TInv
<1>2. Queued' /\ Stored' /\ Loaded'  BY <1>1, MemoryStep
<1>3. Named'  BY <1>2, NamedStep
<1> QED  BY <1>1, <1>2, <1>3 DEF TInv

\* ... and implies TypeOK.
LEMMA TypesHold == IInv /\ TInv => TypeOK
<1> SUFFICES ASSUME IInv, TInv PROVE TypeOK  OBVIOUS
<1>1. zone \in Zone  BY DEF TInv, Stored
<1>2. frees \in [Items -> 0..3]
  <2>1. ASSUME NEW m \in Items PROVE frees[m] \in 0..3
    <3>1. frees[m] \in Nat /\ frees[m] + Owners(m) <= 3 /\ Owners(m) \in Nat
      BY DEF TInv, Stored, Loaded, Owners, One
    <3> HIDE DEF Owners
    <3> QED  BY <3>1
  <2>2. frees \in [Items -> Nat]  BY DEF TInv, Stored
  <2> QED  BY <2>1, <2>2
<1>3. \A e \in queue : e.mbufs \subseteq 1..Len(pkts) /\ e.mtime \in Timeval
  BY DEF TInv, Queued, IsEntry
<1> QED  BY <1>1, <1>2, <1>3 DEF TypeOK, IInv, TInv, Shape, Counted, Named

\* An mbuf is freed at most three times, whatever the test and wherever the one
\* mistake is, a test does not run out of mbufs, and entries carry times: the state
\* of the harness keeps its type (tcp_lro.gtest.cpp:84, MbufUniquePtr.h:36,
\* MockUpperIfnet.cpp:46).
THEOREM TypeCorrect == Spec => []TypeOK
<1>1. IInv /\ TInv /\ [Next]_vars => IInv' /\ TInv'
  <2>1. IInv /\ [Next]_vars => IInv'  BY ShapeStep, PlacedStep, InCallStep, OwnedStep DEF IInv
  <2> QED  BY <2>1, TStep
<1> QED  BY InitInv, TInit, <1>1, TypesHold, PTL DEF Spec

-----------------------------------------------------------------------------
(* The account of the zone: what has left it was freed once, and at the    *)
(* end of a test nothing is left.                                          *)

Behaves == ~wrong /\ "assert" \notin failed

Account ==
  Sound(zone) /\ \A m \in 1..Len(pkts) : frees[m] = One(m \notin zone.held)

Accounted == Behaves /\ (ret = "none" \/ ret = Step.ret) => Account

\* A sample is at the end of its last function.
Ending ==
  /\ test.name \in Samples
  /\ \/ phase = "caseTearDown"
     \/ /\ phase = "body" /\ at.fn = Len(Scripts[test.version][test.name])
        /\ at.pc > Len(Function)

Swept ==
  /\ phase \in {"caseTearDown", "mockTearDown", "over"} => kept = 0
  /\ "assert" \notin failed /\ (phase \in {"mockTearDown", "over"} \/ Ending) => queue = {}

AInv == Accounted /\ Swept

\* Mbufs that are in the zone are freed.
LEMMA FreedOnce ==
  ASSUME Account, Stored, NEW S, S \subseteq zone.held, m_freem(S), pkts' = pkts,
         1..Len(pkts) \subseteq Items
  PROVE  Account'
<1> DEFINE H == zone.held
<1>1. /\ zone \in Zone /\ H \in SUBSET Items /\ zone.alloced = Cardinality(H)
      /\ zone.smashed = {} /\ zone.fails = {} /\ ~zone.dead
  BY DEF Account, Sound, Zone
<1>2. /\ Cardinality(H) \in Nat /\ Cardinality(S) \in Nat /\ Cardinality(H) < CountMod
      /\ CountMod \in Nat
  BY <1>1, HeldSize, ZoneAssumption
<1>3. Cardinality(H \ S) = Cardinality(H) - Cardinality(S) /\ Cardinality(H \ S) \in Nat
  <2>1. H \cap S = S /\ IsFiniteSet(H) /\ H \ S \in SUBSET Items  BY <1>1, HeldSize
  <2>2. Cardinality(H \ S) = Cardinality(H) - Cardinality(H \cap S)  BY <2>1, FS_Difference
  <2> QED  BY <2>1, <2>2, HeldSize
<1>4. (zone.alloced - Cardinality(S)) % CountMod = Cardinality(H \ S)
  <2>1. \A c \in Nat : c < CountMod => c % CountMod = c  BY <1>2
  <2>2. /\ zone.alloced - Cardinality(S) = Cardinality(H \ S)
        /\ Cardinality(H \ S) < CountMod
    BY <1>1, <1>2, <1>3
  <2> HIDE DEF H
  <2> QED  BY <1>3, <2>1, <2>2
<1>5. Stored' /\ \A m \in Items : frees'[m] = frees[m] + One(m \in S)
  <2>1. S \in SUBSET Items  BY <1>1
  <2> QED  BY <2>1, FreedType
<1>6. zone.alloced >= Cardinality(S)  BY <1>1, <1>2, <1>3
<1>7. /\ zone'.alloced = Cardinality(H \ S) /\ zone'.held = H \ S /\ zone'.fails = {}
      /\ zone'.smashed = {} /\ ~zone'.dead
  BY <1>1, <1>4, <1>6 DEF m_freem, Zone
<1>8. Sound(zone)'  BY <1>5, <1>7 DEF Sound, Stored
<1>9. ASSUME NEW m \in 1..Len(pkts) PROVE frees'[m] = One(m \notin zone'.held)
  <2>1. frees[m] = One(m \notin H) /\ frees'[m] = frees[m] + One(m \in S)  BY <1>5 DEF Account
  <2>2. m \in zone'.held <=> m \in H /\ m \notin S  BY <1>7
  <2> QED  BY <2>1, <2>2 DEF One
<1> QED  BY <1>8, <1>9 DEF Account

\* The code under test frees what it owns.
LEMMA WorkingAccount ==
  ASSUME IInv, TInv, AInv, Behaves, ~wrong', Working
  PROVE  Account'
<1> USE DEF IInv, TInv, AInv
<1>1. PICK S : Moves(S)  BY WorkingMoves
<1>2. ret = "none"
  <2>1. ~Errs  BY DEF Errs, RxErr, EntryErr, FreeErr, FlushErr, Err
  <2>2. CASE Rx
    BY <2>2 DEF Rx, RxRefuse, RxFlush, RxQueue, RxAbsorb, RxAppend, RxFill, Calling
  <2>3. CASE ReadClock \/ FlushOne
    BY <2>3 DEF ReadClock, FlushOne, Flushing, At, InCall
  <2> QED  BY <2>1, <2>2, <2>3 DEF Working
<1>3. Owns(zone.held, KeptSet, Pending, queue) /\ Account
  BY <1>2 DEF Behaves, Owned, Accounted
<1>4. Lent = Pending  BY <1>2, Codes DEF Lent, Pending
<1>5. S \subseteq zone.held
  <2>1. S \subseteq Chained(queue) \cup Lent
    <3> HIDE DEF Lent
    <3> QED  BY <1>1 DEF Moves, Behaves
  <2> QED  BY <1>3, <1>4, <2>1 DEF Owns
<1>6. pkts' = pkts /\ 1..Len(pkts) \subseteq Items  BY WorkingFrame, Numbered
<1>7. CASE m_freem(S)  BY <1>3, <1>5, <1>6, <1>7, FreedOnce
<1>8. CASE UNCHANGED memory  BY <1>3, <1>6, <1>8 DEF Account
<1> QED  BY <1>1, <1>7, <1>8 DEF Moves

\* Every step keeps the account, as long as the code under test behaves.
LEMMA AccountedStep ==
  ASSUME IInv, TInv, TInv', AInv, [Next]_vars
  PROVE  Accounted'
<1> USE DEF IInv, TInv, AInv
<1> SUFFICES ASSUME ~wrong', "assert" \notin failed', ret' = "none" \/ ret' = Step.ret'
             PROVE  Account'
  BY DEF Accounted, Behaves
<1>0. /\ 1..Len(pkts) \subseteq Items /\ Len(pkts) \in Nat /\ Items \subseteq Nat /\ 0 \notin Items
  BY Numbered
<1>1. CASE Working
  <2>1. "assert" \notin failed  BY <1>1, WorkingFrame
  <2>2. ~wrong
    BY <1>1 DEF Working, Errs, Rx, RxRefuse, RxFlush, RxQueue, RxAbsorb, RxAppend, RxFill, RxErr,
                EntryErr, FreeErr, FlushErr, ReadClock, FlushOne, Err
  <2> QED  BY <1>1, <2>1, <2>2, WorkingAccount DEF Behaves
\* Outside a call.
<1>2. ASSUME arg = 0, Behaves
      PROVE  Owns(zone.held, KeptSet, {}, queue) /\ Account /\ ret = "none"
  <2>1. ret = "none"  BY <1>2 DEF InCall
  <2> QED  BY <1>2, <2>1, OutsideCall DEF Behaves, Accounted
<1>3. CASE FlushDone \/ SetExpectation \/ CallMockSequence \/ EnableForwardingStep
            \/ SetIfMtuStep
  <2>1. arg = 0
    BY <1>3 DEF FlushDone, Flushing, SetExpectation, CallMockSequence, EnableForwardingStep,
                SetIfMtuStep, At, InCall
  <2>2. Behaves /\ UNCHANGED <<zone, frees, pkts>>
    BY <1>3 DEF FlushDone, SetExpectation, CallMockSequence, EnableForwardingStep, SetIfMtuStep,
                Behaves
  <2> QED  BY <1>2, <2>1, <2>2 DEF Account
<1>4. CASE Generate
  <2> DEFINE m == Len(pkts) + 1
             z == uma_zalloc_arg(zone, m)
  <2>1. /\ arg = 0 /\ Behaves /\ Len(pkts') = m
        /\ Step.raw => zone' = z /\ kept' = kept /\ frees' = frees
        /\ ~Step.raw => /\ kept' = m
                        /\ zone' = IF kept = 0 THEN z ELSE uma_zfree_arg(z, kept)
                        /\ frees' = [i \in Items |-> frees[i] + (IF i = kept THEN 1 ELSE 0)]
    BY <1>4, Longer DEF Generate, Behaves, Shape
  <2>2. Owns(zone.held, KeptSet, {}, queue) /\ Account  BY <1>2, <2>1
  <2>3. m \in Items  BY <2>1, HarnessAssumption DEF Counted
  <2>4. zone.held \subseteq 1..Len(pkts)
    <3>1. KeptSet \subseteq 1..Len(pkts)  BY Numbered
    <3>2. Chained(queue) \subseteq 1..Len(pkts)  BY DEF Queued, Chained
    <3> QED  BY <2>2, <3>1, <3>2 DEF Owns
  <2>5. m \notin zone.held /\ frees[m] = 0
    <3>1. m > Len(pkts)  BY <1>0
    <3> QED  BY <1>0, <2>3, <2>4, <3>1 DEF Loaded
  <2>6. Sound(z) /\ z.held = zone.held \cup {m}
    <3>1. Sound(zone) /\ m \in Items \ zone.held  BY <2>2, <2>3, <2>5 DEF Account
    <3> QED  BY <3>1, ZallocSound
  <2>7. \A i \in 1..m : i = m \/ i \in 1..Len(pkts)  BY <1>0
  <2>8. CASE zone' = z /\ frees' = frees
    <3>1. ASSUME NEW i \in 1..m PROVE frees[i] = One(i \notin z.held)
      <4>1. CASE i = m  BY <2>5, <2>6, <4>1 DEF One
      <4>2. CASE i \in 1..Len(pkts)
        <5>1. i # m  BY <1>0, <4>2
        <5>2. frees[i] = One(i \notin zone.held)  BY <2>2, <4>2 DEF Account
        <5> QED  BY <2>6, <5>1, <5>2 DEF One
      <4> QED  BY <2>7, <4>1, <4>2
    <3> HIDE DEF z
    <3> QED  BY <2>1, <2>6, <2>8, <3>1 DEF Account
  <2>9. CASE /\ kept # 0 /\ zone' = uma_zfree_arg(z, kept)
             /\ frees' = [i \in Items |-> frees[i] + (IF i = kept THEN 1 ELSE 0)]
    <3>1. kept \in zone.held /\ kept # m  BY <2>2, <2>5, <2>9 DEF Owns, KeptSet
    <3>2. Sound(zone)' /\ zone'.held = z.held \ {kept}
      <4> HIDE DEF z
      <4>1. kept \in z.held  BY <2>6, <3>1
      <4> QED  BY <2>6, <2>9, <4>1, ZfreeSound
    <3>3. ASSUME NEW i \in 1..m PROVE frees'[i] = One(i \notin zone'.held)
      <4>0. i \in Items
        <5>1. CASE i = m  BY <2>3, <5>1
        <5>2. CASE i \in 1..Len(pkts)  BY <1>0, <5>2
        <5> QED  BY <2>7, <5>1, <5>2
      <4>1. frees[i] = One(i \notin z.held)
        <5>1. CASE i = m  BY <2>5, <2>6, <5>1 DEF One
        <5>2. CASE i \in 1..Len(pkts)
          <6>1. i # m  BY <1>0, <5>2
          <6>2. frees[i] = One(i \notin zone.held)  BY <2>2, <5>2 DEF Account
          <6> QED  BY <2>6, <6>1, <6>2 DEF One
        <5> QED  BY <2>7, <5>1, <5>2
      <4>2. frees'[i] = frees[i] + One(i = kept)  BY <2>9, <4>0 DEF One
      <4>3. kept \in z.held  BY <2>6, <3>1
      <4> HIDE DEF z
      <4> QED  BY <3>2, <4>1, <4>2, <4>3 DEF One
    <3> QED  BY <2>1, <3>2, <3>3 DEF Account
  <2>10. CASE kept = 0 /\ ~Step.raw
    <3>1. frees' = frees
      <4>1. \A i \in Items : i # 0  BY <1>0
      <4>2. frees' = [i \in Items |-> frees[i] + 0]  BY <2>1, <2>10, <4>1
      <4> QED  BY <4>2 DEF Stored
    <3> QED  BY <2>1, <2>8, <2>10, <3>1
  <2> QED  BY <2>1, <2>8, <2>9, <2>10
<1>5. CASE Assert
  <2>1. UNCHANGED <<zone, frees, pkts>> /\ ret = Step.ret /\ Behaves
    BY <1>5 DEF Assert, Behaves
  <2> QED  BY <2>1 DEF Accounted, Account
<1>6. CASE Return
  <2>1. /\ arg = 0 /\ Behaves /\ m_freem(KeptSet) /\ pkts' = pkts
    BY <1>6 DEF Return, At, InCall, Behaves
  <2>2. KeptSet \subseteq zone.held  BY <1>2, <2>1 DEF Owns
  <2> QED  BY <1>0, <1>2, <2>1, <2>2, FreedOnce
<1>7. CASE TestCaseTearDown \/ FreeStep
  <2>1. /\ arg = 0 /\ Behaves /\ pkts' = pkts
        /\ m_freem(Chained(queue)) \/ UNCHANGED memory
    BY <1>7 DEF TestCaseTearDown, FreeStep, tcp_lro_free, At, InBody, InCall, Behaves, Chained
  <2>2. Chained(queue) \subseteq zone.held  BY <1>2, <2>1 DEF Owns
  <2>3. CASE m_freem(Chained(queue))  BY <1>0, <1>2, <2>1, <2>2, <2>3, FreedOnce
  <2>4. CASE UNCHANGED memory  BY <1>2, <2>1, <2>4 DEF Account
  <2> QED  BY <2>1, <2>3, <2>4
<1>8. CASE TearDown
  <2>1. /\ arg = 0 /\ Behaves /\ UNCHANGED <<pkts, frees>> /\ zone' = uma_zdestroy(zone)
        /\ phase = "mockTearDown"
    BY <1>8 DEF TearDown, At, InBody, InCall, Behaves
  <2>2. zone.held = {}
    <3>1. kept = 0 /\ queue = {}  BY <2>1 DEF Swept, Behaves
    <3> QED  BY <1>2, <2>1, <3>1 DEF Owns, KeptSet, Chained
  <2>3. zone.alloced = 0  BY <1>2, <2>1, <2>2, FS_EmptySet DEF Account, Sound
  <2>4. zone' = zone  BY <2>1, <2>3 DEF uma_zdestroy
  <2> QED  BY <1>2, <2>1, <2>4 DEF Account
<1>9. ASSUME NEW v \in DOMAIN Scripts, NEW name \in DOMAIN Scripts[v], SetUp(name, v)
      PROVE  Account'
  <2>1. zone' = NewZone /\ pkts' = <<>>  BY <1>9 DEF SetUp
  <2>2. Len(pkts') = 0  BY <2>1
  <2> QED  BY <2>1, <2>2, NewZoneSound DEF Account
<1>10. CASE UNCHANGED vars
  <2>1. UNCHANGED <<zone, frees, pkts, wrong, failed, ret, test, at>>  BY <1>10 DEF vars
  <2>2. Step' = Step  BY <2>1 DEF Step, Function
  <2> QED  BY <2>1, <2>2 DEF Accounted, Behaves, Account
<1> QED  BY <1>1, <1>3, <1>4, <1>5, <1>6, <1>7, <1>8, <1>9, <1>10, NextCases

\* The last step of a sample frees its lro_ctrl.
LEMMA LastStep ==
  ASSUME Shape, Placed, phase = "body", test.name \in Samples,
         at.fn = Len(Scripts[test.version][test.name])
  PROVE  Len(Function) > 0 /\ Len(Function) \in Nat /\ Function[Len(Function)].op = "free"
<1>1. test.version \in DOMAIN Scripts /\ test.name \in DOMAIN Scripts[test.version]
  BY DEF Placed
<1>2. FreesLast(Scripts[test.version][test.name])  BY <1>1, HarnessAssumption
<1>3. Len(Function) \in Nat  BY StepsAre DEF IsFunction
<1> QED  BY <1>2, <1>3 DEF FreesLast, Function

\* No other step takes a sample to its end.
LEMMA NotEnding ==
  ASSUME Shape, Shape', Placed, phase = "body", UNCHANGED <<test, phase>>,
         \/ at' = at /\ at.pc <= Len(Function)
         \/ Advance /\ at.pc <= Len(Function) /\ Step.op # "free"
         \/ at' = [fn |-> at.fn + 1, pc |-> 1] /\ Placed'
  PROVE  ~Ending'
<1> SUFFICES ASSUME Ending' PROVE FALSE  OBVIOUS
<1>1. /\ test.name \in Samples /\ at'.fn = Len(Scripts[test.version][test.name])
      /\ at'.pc > Len(Function')
  BY DEF Ending
<1>2. /\ at.pc \in Nat /\ at'.pc \in Nat  BY DEF Shape
<1>3. CASE at' = at /\ at.pc <= Len(Function)
  <2>1. Function' = Function  BY <1>3 DEF Function
  <2>2. Len(Function) \in Nat  BY StepsAre DEF IsFunction
  <2> QED  BY <1>1, <1>2, <1>3, <2>1, <2>2
<1>4. CASE Advance /\ at.pc <= Len(Function) /\ Step.op # "free"
  <2>1. at'.fn = at.fn /\ at'.pc = at.pc + 1  BY <1>4 DEF Advance, Shape
  <2>2. Function' = Function  BY <2>1 DEF Function
  <2>3. Len(Function) \in Nat /\ Function[Len(Function)].op = "free"  BY <1>1, <2>1, LastStep
  <2>4. at.pc # Len(Function)  BY <1>4, <2>3 DEF Step
  <2> QED  BY <1>1, <1>2, <1>4, <2>1, <2>2, <2>3, <2>4
<1>5. CASE at' = [fn |-> at.fn + 1, pc |-> 1] /\ Placed'
  <2> DEFINE F == Scripts[test.version][test.name][at'.fn]
  <2>1. test.version \in DOMAIN Scripts /\ test.name \in DOMAIN Scripts[test.version]
    BY DEF Placed
  <2>2. /\ FreesLast(Scripts[test.version][test.name]) /\ IsTest(Scripts[test.version][test.name])
    BY <1>1, <2>1, HarnessAssumption
  <2>3. at'.fn \in DOMAIN Scripts[test.version][test.name]  BY <1>5 DEF Placed
  <2>4. Len(F) \in Nat /\ Len(F) > 0  BY <1>1, <2>2, <2>3 DEF FreesLast, IsTest, IsFunction
  <2>5. Function' = F  BY DEF Function
  <2> QED  BY <1>1, <1>5, <2>4, <2>5
<1> QED  BY <1>3, <1>4, <1>5

\* The owners are empty-handed when they should be.
LEMMA SweptStep ==
  ASSUME IInv, IInv', AInv, [Next]_vars
  PROVE  Swept'
<1> USE DEF IInv, AInv
<1>0. phase = "body" => Len(Function) \in Nat  BY StepsAre DEF IsFunction
\* The test goes on, but not to the end of a sample.
<1>1. ASSUME phase = "body", UNCHANGED phase, ~Ending' PROVE Swept'
  BY <1>1 DEF Swept
<1>2. CASE Working
  <2>1. UNCHANGED <<test, phase>> /\ ("assert" \notin failed' => "assert" \notin failed)
    BY <1>2, WorkingFrame
  <2>2. InBody
    <3>1. Calling \/ Flushing \/ arg # 0 \/ At("flush_inactive")
      BY <1>2 DEF Working, Errs, Rx, RxRefuse, RxFlush, RxQueue, RxAbsorb, RxAppend, RxFill, RxErr,
                  EntryErr, FreeErr, FlushErr, ReadClock, FlushOne, InLro
    <3> QED  BY <3>1 DEF Calling, Flushing, At, InCall
  <2>3. phase = "body" /\ phase' = "body" /\ at.pc <= Len(Function)  BY <2>1, <2>2 DEF InBody
  <2>4. CASE at' = at
    <3>1. ~Ending'  BY <2>1, <2>3, <2>4, NotEnding
    <3> QED  BY <1>1, <2>1, <2>3, <3>1
  <2>5. CASE FlushErr
    <3>1. Advance /\ Step.op # "free"  BY <2>5 DEF FlushErr, Flushing, At
    <3>2. ~Ending'  BY <2>1, <2>3, <3>1, NotEnding
    <3> QED  BY <1>1, <2>1, <2>3, <3>2
  <2> QED  BY <1>2, <2>4, <2>5, WorkingFrame
<1>3. CASE FlushDone \/ SetExpectation \/ CallMockSequence \/ EnableForwardingStep
            \/ SetIfMtuStep
  <2>1. /\ InBody /\ UNCHANGED <<test, phase>> /\ Advance /\ Step.op # "free"
    BY <1>3 DEF FlushDone, Flushing, SetExpectation, CallMockSequence, EnableForwardingStep,
                SetIfMtuStep, At
  <2>2. ~Ending'  BY <2>1, NotEnding DEF InBody
  <2> QED  BY <1>1, <2>1, <2>2 DEF InBody
<1>4. CASE Generate
  <2>1. /\ InBody /\ UNCHANGED <<test, phase, at>>  BY <1>4 DEF Generate, At
  <2>2. ~Ending'  BY <2>1, NotEnding DEF InBody
  <2> QED  BY <1>1, <2>1, <2>2 DEF InBody
<1>5. CASE Assert
  <2>1. /\ At("rx") /\ UNCHANGED <<test, phase>>  BY <1>5 DEF Assert, InCall
  <2>2. phase = "body" /\ phase' = "body"  BY <2>1 DEF At, InBody
  <2>3. CASE Advance
    <3>1. ~Ending'  BY <2>1, <2>3, NotEnding DEF At, InBody
    <3> QED  BY <1>1, <2>2, <3>1
  <2>4. CASE "assert" \in failed'  BY <2>2, <2>4 DEF Swept
  <2> QED  BY <1>5, <2>3, <2>4 DEF Assert
<1>6. CASE FreeStep
  <2>1. queue' = {} /\ phase' = "body"  BY <1>6 DEF FreeStep, tcp_lro_free, At, InBody
  <2> QED  BY <2>1 DEF Swept
<1>7. CASE Return
  <2>1. /\ kept' = 0 /\ UNCHANGED <<queue, failed, test>> /\ phase = "body"
        /\ at.pc > Len(Function)
    <3>1. phase = "body" /\ ~InBody  BY <1>7 DEF Return
    <3>2. at.pc > Len(Function)  BY <1>0, <3>1 DEF InBody, Shape
    <3> QED  BY <1>7, <3>1, <3>2 DEF Return
  <2>2. CASE at' = [fn |-> at.fn + 1, pc |-> 1] /\ phase' = phase
    <3>1. ~Ending'  BY <2>1, <2>2, NotEnding
    <3> QED  BY <1>1, <2>1, <2>2, <3>1
  <2>3. CASE /\ at.fn = Len(Scripts[test.version][test.name])
             /\ phase' = "caseTearDown"
    <3>1. Ending' => Ending  BY <2>1, <2>3 DEF Ending
    <3> QED  BY <2>1, <2>3, <3>1 DEF Swept
  <2> QED  BY <1>7, <2>2, <2>3 DEF Return
<1>8. CASE TestCaseTearDown
  <2>1. /\ phase = "caseTearDown" /\ phase' = "mockTearDown"
        /\ UNCHANGED <<kept, wrong, failed, test>>
        /\ queue' = {} \/ (test.name \in Samples /\ queue' = queue)
    BY <1>8 DEF TestCaseTearDown, tcp_lro_free
  <2> QED  BY <2>1 DEF Swept, Ending
<1>9. CASE TearDown
  <2>1. /\ phase = "mockTearDown" /\ phase' = "over" /\ UNCHANGED <<kept, wrong, queue>>
        /\ failed \subseteq failed'
    BY <1>9 DEF TearDown
  <2> QED  BY <2>1 DEF Swept
<1>10. ASSUME NEW v \in DOMAIN Scripts, NEW name \in DOMAIN Scripts[v], SetUp(name, v)
       PROVE  Swept'
  BY <1>10 DEF SetUp, Swept
<1>11. CASE UNCHANGED vars
  <2>1. UNCHANGED <<kept, wrong, queue, failed, phase, test, at>>  BY <1>11 DEF vars
  <2> QED  BY <2>1 DEF Swept, Ending, Function
<1> QED  BY <1>2, <1>3, <1>4, <1>5, <1>6, <1>7, <1>8, <1>9, <1>10, <1>11, NextCases

\* Before the first test there is nothing to account for.
LEMMA AInit == Init => AInv
<1> SUFFICES ASSUME Init PROVE AInv  OBVIOUS
<1>1. Account
  <2>1. zone = NewZone /\ pkts = <<>>  BY DEF Init
  <2>2. Len(pkts) = 0  BY <2>1
  <2> QED  BY <2>1, <2>2, NewZoneSound DEF Account
<1>2. Swept  BY DEF Init, Swept
<1> QED  BY <1>1, <1>2 DEF AInv, Accounted

\* The invariants imply the property.
LEMMA OwnedIsOneOwner == IInv /\ TInv /\ AInv => OneOwner
<1> SUFFICES ASSUME IInv, TInv, AInv, ~wrong, "assert" \notin failed, ret = "none"
             PROVE  /\ zone.held = KeptSet \cup ({arg} \ {0}) \cup UNION {e.mbufs : e \in queue}
                    /\ \A e \in queue : e.mbufs \cap {kept, arg} = {}
                    /\ \A e, f \in queue : e # f => e.mbufs \cap f.mbufs = {}
                    /\ \A m \in 1..Len(pkts) : frees[m] = IF m \in zone.held THEN 0 ELSE 1
                    /\ Over => zone.held = {}
                    /\ zone.fails = {} /\ ~zone.dead
  BY DEF OneOwner
<1>1. Pending = {arg} \ {0}  BY Codes DEF Pending
<1>2. /\ Owns(zone.held, KeptSet, Pending, queue)
      /\ \A e \in queue : e.mbufs \subseteq 1..Len(pkts)
  BY DEF IInv, Owned
<1>3. \A e \in queue : 0 \notin e.mbufs  BY <1>2
<1>4. Account  BY DEF AInv, Accounted, Behaves
<1>5. \A m \in 1..Len(pkts) : frees[m] = IF m \in zone.held THEN 0 ELSE 1
  BY <1>4 DEF Account, One
<1>6. ASSUME Over PROVE zone.held = {}
  <2>1. kept = 0 /\ queue = {}  BY <1>6 DEF AInv, Swept, Over, Behaves
  <2>2. arg = 0  BY <1>6 DEF IInv, InCall, At, InBody, Over
  <2> QED  BY <1>1, <1>2, <2>1, <2>2 DEF Owns, KeptSet, Chained
<1>7. zone.fails = {} /\ ~zone.dead  BY <1>4 DEF Account, Sound
<1>8. /\ zone.held = KeptSet \cup ({arg} \ {0}) \cup UNION {e.mbufs : e \in queue}
      /\ \A e \in queue : e.mbufs \cap {kept, arg} = {}
      /\ \A e, f \in queue : e # f => e.mbufs \cap f.mbufs = {}
  BY <1>1, <1>2, <1>3 DEF Owns, Chained, KeptSet
<1> QED  BY <1>5, <1>6, <1>7, <1>8

\* Whatever the tests, as long as each gives away exactly the mbufs it expects
\* tcp_lro_rx to take: until an ASSERT_ fails, and while the code under test
\* behaves, every mbuf has one owner, who frees it once, no test leaves one behind,
\* and the zone reports nothing (MbufUniquePtr.h:36, MockUpperIfnet.cpp:46,
\* tcp_lro.gtest.cpp:84, 568-577).
THEOREM SingleOwner == Spec => []OneOwner
<1>1. IInv /\ TInv /\ AInv /\ [Next]_vars => IInv' /\ TInv' /\ AInv'
  <2> SUFFICES ASSUME IInv, TInv, AInv, [Next]_vars PROVE IInv' /\ TInv' /\ AInv'
    OBVIOUS
  <2>1. IInv'  BY ShapeStep, PlacedStep, InCallStep, OwnedStep DEF IInv
  <2>2. TInv'  BY <2>1, TStep
  <2>3. AInv'  BY <2>1, <2>2, AccountedStep, SweptStep DEF AInv
  <2> QED  BY <2>1, <2>2, <2>3
<1> QED  BY InitInv, TInit, AInit, <1>1, OwnedIsOneOwner, PTL DEF Spec

-----------------------------------------------------------------------------
(* The clock.                                                              *)

\* The expectations of getmicrotime.
Clock(es) == {i \in DOMAIN es : es[i].fn = "getmicrotime"}

\* They are in one sequence, their times in order.
InOrder(es) ==
  /\ \A i \in Clock(es) : es[i].retires
  /\ \A i, j \in Clock(es) : i < j => i \in es[j].pre /\ NotBefore(es[j].arg, es[i].arg)

\* They were called in their order, each once, and rs is what they stored.
Answered(es, rs) ==
  /\ IsSeq(rs)
  /\ \A i, j \in Clock(es) : i < j /\ es[j].called => es[i].called
  /\ rs # <<>> => \E i \in Clock(es) :
       /\ es[i].called /\ es[i].arg = rs[Len(rs)]
       /\ \A j \in Clock(es) : es[j].called => j <= i
  /\ \A k \in 2..Len(rs) : NotBefore(rs[k], rs[k - 1])

\* Each was stated by a step that is behind.
FromSteps ==
  \A i \in Clock(gm) : \E x \in ClockSteps(Scripts[test.version][test.name]) :
    LET s == Scripts[test.version][test.name][x.fn][x.pc]
    IN  Precedes(x, at) /\ s.arg = gm[i].arg /\ s.seqs = gm[i].seqs

Timed == StepsOf("flush_inactive") # {}

Ages ==
  /\ phase = "start" => reads = <<>>
  /\ phase # "start" /\ Timed =>
       /\ phase = "body" => FromSteps
       /\ InOrder(gm)
       /\ failed = {} => Answered(gm, reads)

\* A call of another function is of no account.
LEMMA CalledElsewhere ==
  ASSUME NEW es, Stated(es), NEW rs, NEW fn, NEW x, fn # "getmicrotime"
  PROVE  Answered(es, rs) => Answered(Called(es, fn, x), rs)
<1> DEFINE c == Called(es, fn, x)
<1>1. ASSUME NEW i \in Clock(es)
      PROVE  (c[i].called <=> es[i].called) /\ c[i].arg = es[i].arg
  <2>1. i \in DOMAIN es /\ es[i].fn = "getmicrotime"  BY DEF Clock
  <2>2. CASE Handling(es, fn, x) = {}
    <3>1. c = es  BY <2>2 DEF Called
    <3> QED  BY <3>1
  <2>3. CASE Handling(es, fn, x) # {}
    <3>1. i # Handler(es, fn, x)  BY <2>1, <2>3, HandlerExists DEF Handling, Handles
    <3>2. c[i].arg = es[i].arg /\ (c[i].called <=> (es[i].called \/ i = Handler(es, fn, x)))
      BY <2>1, <2>3, CalledFields
    <3> HIDE DEF c
    <3> QED  BY <3>1, <3>2
  <2> QED  BY <2>2, <2>3
<1>2. Clock(c) = Clock(es)
  <2>1. DOMAIN c = DOMAIN es /\ \A i \in DOMAIN es : c[i].fn = es[i].fn  BY CalledFields
  <2> QED  BY <2>1 DEF Clock
<1> HIDE DEF c
<1>3. Answered(es, rs) => Answered(c, rs)  BY <1>1, <1>2 DEF Answered
<1> QED  BY <1>3 DEF c

\* A call does not change what the expectations are.
LEMMA CalledInOrder ==
  ASSUME NEW es, Stated(es), NEW fn, NEW x, InOrder(es)
  PROVE  InOrder(Called(es, fn, x)) /\ Clock(Called(es, fn, x)) = Clock(es)
<1> DEFINE c == Called(es, fn, x)
<1>1. DOMAIN c = DOMAIN es  BY CalledFields
<1>2. \A i \in DOMAIN es : /\ c[i].fn = es[i].fn /\ c[i].arg = es[i].arg /\ c[i].pre = es[i].pre
                           /\ c[i].retires = es[i].retires
  BY CalledFields
<1> HIDE DEF c
<1>3. Clock(c) = Clock(es)  BY <1>1, <1>2 DEF Clock
<1>4. \A i \in Clock(es) : i \in DOMAIN es  BY DEF Clock
<1>5. InOrder(c)  BY <1>2, <1>3, <1>4 DEF InOrder
<1> QED  BY <1>3, <1>5 DEF c

\* A call of getmicrotime that is not reported is answered by the next time.
LEMMA CalledInTime ==
  ASSUME NEW es, Stated(es), InOrder(es), NEW rs, Answered(es, rs),
         CallFailures(es, "getmicrotime", 0) = {}
  PROVE  /\ Handling(es, "getmicrotime", 0) # {}
         /\ Answered(Called(es, "getmicrotime", 0),
                     Append(rs, es[Handler(es, "getmicrotime", 0)].arg))
<1> DEFINE c  == Called(es, "getmicrotime", 0)
           h  == Handler(es, "getmicrotime", 0)
           tv == es[h].arg
           t  == Append(rs, tv)
<1>1. Handling(es, "getmicrotime", 0) # {}  BY DEF CallFailures
<1>2. h \in Handling(es, "getmicrotime", 0)  BY <1>1, HandlerExists
<1>3. h \in Clock(es) /\ (\A j \in es[h].pre : es[j].called) /\ ~es[h].called
  <2>1. h \in Clock(es) /\ (\A j \in es[h].pre : es[j].called)
    BY <1>2 DEF Handling, Handles, IsSatisfied, Clock
  <2>2. ~es[h].called  BY <1>1 DEF CallFailures
  <2> QED  BY <2>1, <2>2
<1>4. Clock(c) = Clock(es)  BY CalledInOrder
<1>5. \A i \in Clock(es) : /\ i \in DOMAIN es /\ c[i].arg = es[i].arg
                           /\ c[i].called <=> (es[i].called \/ i = h)
  <2>1. \A i \in Clock(es) : i \in DOMAIN es  BY DEF Clock
  <2> QED  BY <1>1, <2>1, CalledFields
<1>6. \A i \in Clock(es) : i \in Nat  BY <1>5 DEF Stated
<1> HIDE DEF c, h
<1>7. \A i \in Clock(es) : es[i].called => i < h  BY <1>3, <1>6 DEF Answered
<1>8. \A i, j \in Clock(es) : i < j /\ c[j].called => c[i].called
  BY <1>3, <1>5 DEF Answered, InOrder
<1>9. c[h].called /\ c[h].arg = tv /\ \A j \in Clock(es) : c[j].called => j <= h
  BY <1>3, <1>5, <1>6, <1>7
<1>10. PICK S : rs \in Seq(S \cup {tv})
  <2>1. PICK S : rs \in Seq(S)  BY DEF Answered, IsSeq
  <2>2. rs \in Seq(S \cup {tv})  BY <2>1
  <2> QED  BY <2>2
<1>11. /\ t \in Seq(S \cup {tv}) /\ Len(t) = Len(rs) + 1 /\ t[Len(rs) + 1] = tv
       /\ Len(rs) \in Nat /\ \A k \in 1..Len(rs) : t[k] = rs[k]
       /\ t # <<>> /\ (Len(rs) # 0 => rs # <<>>)
  <2> HIDE DEF tv
  <2> QED  BY <1>10
<1>12. rs # <<>> => NotBefore(tv, rs[Len(rs)])
  <2> SUFFICES ASSUME rs # <<>> PROVE NotBefore(tv, rs[Len(rs)])  OBVIOUS
  <2>1. PICK i \in Clock(es) : es[i].called /\ es[i].arg = rs[Len(rs)]  BY DEF Answered
  <2> QED  BY <1>3, <1>7, <2>1 DEF InOrder
<1> HIDE DEF t, tv
<1>13. ASSUME NEW k \in 2..Len(t) PROVE NotBefore(t[k], t[k - 1])
  <2>1. CASE k = Len(rs) + 1
    <3>1. t[k] = tv /\ t[k - 1] = rs[Len(rs)] /\ rs # <<>>  BY <1>11, <2>1
    <3> QED  BY <1>12, <3>1
  <2>2. CASE k # Len(rs) + 1
    <3>1. k \in 2..Len(rs) /\ k \in 1..Len(rs) /\ k - 1 \in 1..Len(rs)  BY <1>11, <2>2
    <3>2. t[k] = rs[k] /\ t[k - 1] = rs[k - 1]  BY <1>11, <3>1
    <3> QED  BY <3>1, <3>2 DEF Answered
  <2> QED  BY <2>1, <2>2
<1>14. IsSeq(t) /\ t[Len(t)] = tv  BY <1>11 DEF IsSeq
<1>15. Answered(c, t)  BY <1>3, <1>4, <1>8, <1>9, <1>13, <1>14 DEF Answered
<1> QED  BY <1>1, <1>15 DEF c, t, tv, h

\* A new expectation of a time comes after those that there are.
LEMMA ExpectedInOrder ==
  ASSUME NEW es, Stated(es), InOrder(es), NEW fn, NEW x, NEW seqs, NEW rs,
         fn = "getmicrotime" =>
           /\ x \in Timeval
           /\ \A i \in Clock(es) : es[i].seqs \cap seqs # {} /\ NotBefore(x, es[i].arg)
  PROVE  LET s == Append(es, Expectation(es, fn, x, seqs)) IN
         /\ InOrder(s) /\ (Answered(es, rs) => Answered(s, rs))
         /\ Clock(s) \subseteq Clock(es) \cup {Len(es) + 1}
         /\ fn # "getmicrotime" => Clock(s) = Clock(es)
<1> DEFINE n == Len(es) + 1
           e == Expectation(es, fn, x, seqs)
           s == Append(es, e)
<1>1. /\ Stated(s) /\ Len(s) = n /\ s[n] = e /\ \A i \in 1..Len(es) : s[i] = es[i]
  BY ExpectedStated
<1>2. /\ e.fn = fn /\ e.arg = x /\ e.pre = Prerequisites(es, seqs) /\ ~e.called
      /\ fn = "getmicrotime" => e.retires
  BY DEF Expectation
<1>3. /\ DOMAIN es = 1..Len(es) /\ DOMAIN s = 1..n /\ Len(es) \in Nat /\ n \in Nat
  BY <1>1 DEF Stated
<1> HIDE DEF s, e
<1>4. /\ \A i \in Clock(es) : i \in 1..Len(es) /\ i \in Nat /\ i < n /\ s[i] = es[i]
      /\ Clock(s) \subseteq Clock(es) \cup {n} /\ Clock(es) \subseteq Clock(s)
      /\ n \in Clock(s) => fn = "getmicrotime"
  <2>1. \A i \in Clock(es) : i \in 1..Len(es) /\ i \in Nat /\ i < n  BY <1>3 DEF Clock
  <2>2. \A i \in 1..n : i = n \/ i \in 1..Len(es)  BY <1>3
  <2> HIDE DEF n
  <2> QED  BY <1>1, <1>2, <1>3, <2>1, <2>2 DEF Clock
<1>5. \A i \in Clock(s) : s[i].retires  BY <1>1, <1>2, <1>4 DEF InOrder
<1>6. ASSUME NEW i \in Clock(s), NEW j \in Clock(s), i < j
      PROVE  i \in s[j].pre /\ NotBefore(s[j].arg, s[i].arg)
  <2>1. CASE j = n
    <3>1. i \in Clock(es) /\ fn = "getmicrotime"  BY <1>3, <1>4, <1>6, <2>1
    <3>2. i \in Prerequisites(es, seqs)  BY <3>1 DEF Prerequisites, Clock
    <3> QED  BY <1>1, <1>2, <1>4, <2>1, <3>1, <3>2
  <2>2. CASE j \in Clock(es)
    <3>1. i \in Clock(es)  BY <1>3, <1>4, <1>6, <2>2
    <3> QED  BY <1>4, <1>6, <2>2, <3>1 DEF InOrder
  <2> QED  BY <1>4, <2>1, <2>2
<1>7. ASSUME Answered(es, rs) PROVE Answered(s, rs)
  <2>1. \A i \in Clock(s) : s[i].called => i \in Clock(es)  BY <1>1, <1>2, <1>4
  <2>2. ASSUME NEW i \in Clock(s), NEW j \in Clock(s), i < j, s[j].called PROVE s[i].called
    <3>1. j \in Clock(es)  BY <2>1, <2>2
    <3>2. i \in Clock(es)  BY <1>3, <1>4, <2>2, <3>1
    <3> QED  BY <1>4, <1>7, <2>2, <3>1, <3>2 DEF Answered
  <2> QED  BY <1>4, <1>7, <2>1, <2>2 DEF Answered
<1>8. InOrder(s)  BY <1>5, <1>6 DEF InOrder
<1>9. fn # "getmicrotime" => Clock(s) = Clock(es)  BY <1>4
<1> QED  BY <1>4, <1>7, <1>8, <1>9 DEF s, e

\* Where the test is after a step.
LEMMA PlaceMoves ==
  ASSUME IInv, [Next]_vars
  PROVE  \/ /\ test' = test /\ (phase' = "start" <=> phase = "start")
            /\ phase' = "body" => phase = "body" /\ (at' = at \/ Precedes(at, at'))
         \/ gm' = <<>> /\ reads' = <<>> /\ phase' = "body"
<1> USE DEF IInv
<1>1. CASE Working
  <2>1. UNCHANGED <<phase, test>> /\ (at' = at \/ Advance)  BY <1>1, WorkingFrame DEF FlushErr
  <2> QED  BY <2>1, Onward
<1>2. CASE FlushDone \/ SetExpectation \/ CallMockSequence \/ EnableForwardingStep
            \/ SetIfMtuStep \/ FreeStep
  <2>1. UNCHANGED <<phase, test>> /\ Advance
    BY <1>2 DEF FlushDone, SetExpectation, CallMockSequence, EnableForwardingStep, SetIfMtuStep,
                FreeStep
  <2> QED  BY <2>1, Onward
<1>3. CASE Assert
  <2>1. /\ At("rx") /\ UNCHANGED <<phase, test>>
        /\ Advance \/ at' = [at EXCEPT !.pc = Len(Function) + 1]
    BY <1>3 DEF Assert, InCall
  <2> QED  BY <2>1, Onward
<1>4. CASE Return
  <2>1. phase = "body" /\ test' = test /\ phase' # "start"
        /\ (phase' = "body" => at' = [fn |-> at.fn + 1, pc |-> 1])
    BY <1>4 DEF Return
  <2> QED  BY <2>1, Onward
<1>5. CASE Generate \/ TestCaseTearDown \/ TearDown \/ UNCHANGED vars
  BY <1>5 DEF Generate, TestCaseTearDown, TearDown, vars
<1>6. ASSUME NEW v \in DOMAIN Scripts, NEW name \in DOMAIN Scripts[v], SetUp(name, v)
      PROVE  gm' = <<>> /\ reads' = <<>> /\ phase' = "body"
  BY <1>6 DEF SetUp
<1> QED  BY <1>1, <1>2, <1>3, <1>4, <1>5, <1>6, NextCases

\* Before the first expectation.
LEMMA NothingExpected == Clock(<<>>) = {} /\ InOrder(<<>>) /\ Answered(<<>>, <<>>)
<1>1. <<>> \in Seq({}) /\ Len(<<>>) = 0 /\ DOMAIN <<>> = {}  OBVIOUS
<1> QED  BY <1>1 DEF Clock, InOrder, Answered, IsSeq

\* Every step keeps the times in order.
LEMMA AgesStep ==
  ASSUME IInv, IInv', Stated(gm), Ages, [Next]_vars
  PROVE  Ages'
<1> DEFINE fs == Scripts[test.version][test.name]
<1>1. CASE gm' = <<>> /\ reads' = <<>>
  BY <1>1, NothingExpected DEF Ages, FromSteps
<1>2. ASSUME ~(gm' = <<>> /\ reads' = <<>>)
      PROVE  /\ test' = test /\ (phase' = "start" <=> phase = "start") /\ Timed' = Timed
             /\ phase' = "body" => phase = "body" /\ (at' = at \/ Precedes(at, at'))
  BY <1>2, PlaceMoves DEF Timed, StepsOf
<1>3. ASSUME ~(gm' = <<>> /\ reads' = <<>>), phase' = "start" PROVE Ages'
  <2>1. phase = "start" /\ reads = <<>>  BY <1>2, <1>3 DEF Ages
  <2>2. UNCHANGED vars
    BY <1>3, <2>1, NextCases DEF Working, Errs, Rx, RxRefuse, RxFlush, RxQueue, RxAbsorb, RxAppend, RxFill,
       RxErr, EntryErr, FreeErr, FlushErr, ReadClock, FlushOne, InLro, Calling, Flushing, At, InBody,
       FlushDone, Generate, Assert, Return, TearDown, TestCaseTearDown, SetExpectation,
       CallMockSequence, EnableForwardingStep, SetIfMtuStep, FreeStep, SetUp, IInv, InCall
  <2> QED  BY <1>3, <2>1, <2>2 DEF Ages, vars
<1>4. ASSUME ~(gm' = <<>> /\ reads' = <<>>), phase' # "start", Timed'
      PROVE  /\ phase' = "body" => FromSteps'
             /\ InOrder(gm')
             /\ failed' = {} => Answered(gm', reads')
  <2>0. /\ phase # "start" /\ Timed /\ InOrder(gm) /\ (failed = {} => Answered(gm, reads))
        /\ phase = "body" => FromSteps
    BY <1>2, <1>4 DEF Ages
  <2>1. ASSUME phase' = "body", NEW x \in ClockSteps(fs), Precedes(x, at)
        PROVE  Precedes(x, at')
    <3>1. phase = "body" /\ (at' = at \/ Precedes(at, at')) /\ test' = test  BY <1>2, <1>4, <2>1
    <3>2. x \in StepsOf("expect")  BY DEF ClockSteps, StepsOf
    <3>3. x \in Behind("expect")  BY <2>1, <3>2 DEF Behind
    <3>4. x \in Behind("expect")'  BY <3>1, <3>3, BehindGrows DEF IInv
    <3> QED  BY <3>4 DEF Behind
  <2>2. ASSUME phase' = "body", Clock(gm') = Clock(gm),
               \A i \in Clock(gm) : gm'[i].arg = gm[i].arg /\ gm'[i].seqs = gm[i].seqs
        PROVE  FromSteps'
    <3>1. FromSteps /\ test' = test  BY <1>2, <1>4, <2>0, <2>2
    <3> SUFFICES ASSUME NEW i \in Clock(gm)
                 PROVE  \E x \in ClockSteps(fs) : /\ Precedes(x, at')
                                                  /\ fs[x.fn][x.pc].arg = gm'[i].arg
                                                  /\ fs[x.fn][x.pc].seqs = gm'[i].seqs
      BY <2>2, <3>1 DEF FromSteps
    <3>2. PICK x \in ClockSteps(fs) :
            Precedes(x, at) /\ fs[x.fn][x.pc].arg = gm[i].arg /\ fs[x.fn][x.pc].seqs = gm[i].seqs
      BY <3>1 DEF FromSteps
    <3>3. Precedes(x, at')  BY <2>1, <2>2, <3>2
    <3> QED  BY <2>2, <3>2, <3>3
  <2>3. ASSUME NEW fn, NEW x, gm' = Called(gm, fn, x)
        PROVE  (phase' = "body" => FromSteps') /\ InOrder(gm')
    <3>1. InOrder(gm') /\ Clock(gm') = Clock(gm)  BY <2>0, <2>3, CalledInOrder
    <3>2. \A i \in Clock(gm) : i \in DOMAIN gm  BY DEF Clock
    <3>3. \A i \in Clock(gm) : gm'[i].arg = gm[i].arg /\ gm'[i].seqs = gm[i].seqs
      BY <2>3, <3>2, CalledFields
    <3> QED  BY <2>2, <3>1, <3>3
  <2>4. CASE UNCHANGED <<gm, reads>> /\ failed \subseteq failed'
    BY <2>0, <2>2, <2>4
  <2>5. ASSUME NEW fn, NEW x, fn # "getmicrotime", gm' = Called(gm, fn, x), reads' = reads,
               failed \subseteq failed'
        PROVE  failed' = {} => Answered(gm', reads')
    BY <2>0, <2>5, CalledElsewhere
  <2>6. ASSUME NEW tv, getmicrotime(tv)
        PROVE  failed' = {} => Answered(gm', reads')
    <3> SUFFICES ASSUME failed' = {} PROVE Answered(gm', reads')  OBVIOUS
    <3>1. failed = {} /\ CallFailures(gm, "getmicrotime", 0) = {}  BY <2>6 DEF getmicrotime
    <3>2. Handling(gm, "getmicrotime", 0) # {}  BY <2>0, <3>1, CalledInTime
    <3>3. tv = gm[Handler(gm, "getmicrotime", 0)].arg  BY <2>6, <3>2 DEF getmicrotime, Times
    <3> QED  BY <2>0, <2>6, <3>1, <3>3, CalledInTime DEF getmicrotime
  <2>7. CASE SetExpectation
    <3> DEFINE n == Len(gm) + 1
    <3>1. /\ gm' = Append(gm, Expectation(gm, Step.fn, Step.arg, Step.seqs))
          /\ UNCHANGED <<reads, failed, phase, test>> /\ At("expect") /\ Advance /\ phase = "body"
      BY <2>7 DEF SetExpectation, At, InBody
    <3>2. FromSteps /\ Precedes(at, at') /\ Step = fs[at.fn][at.pc]
      BY <2>0, <3>1, Onward DEF IInv, Step, Function
    <3>3. Step.fn = "getmicrotime" => at \in ClockSteps(fs) /\ Step.arg \in Timeval
      BY <3>1, StepStatesTime DEF IInv
    <3>4. TimesInSequence(fs)
      <4>1. IsTest(fs)  BY <3>1, StepsAre DEF IInv
      <4> QED  BY <2>0, <4>1 DEF IsTest, Timed, StepsOf
    <3>5. ASSUME Step.fn = "getmicrotime", NEW i \in Clock(gm)
          PROVE  gm[i].seqs \cap Step.seqs # {} /\ NotBefore(Step.arg, gm[i].arg)
      <4>1. PICK x \in ClockSteps(fs) :
              Precedes(x, at) /\ fs[x.fn][x.pc].arg = gm[i].arg /\ fs[x.fn][x.pc].seqs = gm[i].seqs
        BY <3>2 DEF FromSteps
      <4> QED  BY <3>2, <3>3, <3>4, <3>5, <4>1 DEF TimesInSequence
    <3>6. /\ InOrder(gm') /\ (Answered(gm, reads) => Answered(gm', reads))
          /\ Clock(gm') \subseteq Clock(gm) \cup {n}
          /\ Step.fn # "getmicrotime" => Clock(gm') = Clock(gm)
      BY <2>0, <3>1, <3>3, <3>5, ExpectedInOrder
    <3>7. /\ gm'[n] = Expectation(gm, Step.fn, Step.arg, Step.seqs)
          /\ \A i \in 1..Len(gm) : gm'[i] = gm[i]
      BY <3>1, <3>3, ExpectedStated
    <3>8. FromSteps'
      <4> SUFFICES ASSUME NEW i \in Clock(gm')
                   PROVE  \E x \in ClockSteps(fs) : /\ Precedes(x, at')
                                                    /\ fs[x.fn][x.pc].arg = gm'[i].arg
                                                    /\ fs[x.fn][x.pc].seqs = gm'[i].seqs
        BY <3>1 DEF FromSteps
      <4>1. CASE i = n /\ Step.fn = "getmicrotime"
        <5>1. gm'[i].arg = Step.arg /\ gm'[i].seqs = Step.seqs  BY <3>7, <4>1 DEF Expectation
        <5> QED  BY <3>2, <3>3, <4>1, <5>1
      <4>2. CASE i \in Clock(gm)
        <5>1. gm'[i] = gm[i]
          <6>1. i \in 1..Len(gm)  BY <4>2 DEF Clock, Stated
          <6> QED  BY <3>7, <6>1
        <5>2. PICK x \in ClockSteps(fs) :
                Precedes(x, at) /\ fs[x.fn][x.pc].arg = gm[i].arg /\ fs[x.fn][x.pc].seqs = gm[i].seqs
          BY <3>2, <4>2 DEF FromSteps
        <5>3. Precedes(x, at')  BY <2>1, <3>1, <5>2
        <5> QED  BY <5>1, <5>2, <5>3
      <4> QED  BY <3>6, <4>1, <4>2
    <3> QED  BY <2>0, <3>1, <3>6, <3>8
  <2>8. ASSUME NEW tv, getmicrotime(tv) PROVE gm' = Called(gm, "getmicrotime", 0)
    BY <2>8 DEF getmicrotime
  <2>9. \A v \in DOMAIN Scripts : \A name \in DOMAIN Scripts[v] : ~SetUp(name, v)
    BY <1>4 DEF SetUp
  <2> QED  BY <1>4, <2>3, <2>4, <2>5, <2>6, <2>7, <2>8, <2>9, MockSteps
<1> QED  BY <1>1, <1>3, <1>4 DEF Ages

\* The invariants imply the property.
LEMMA AgesEnough == Placed /\ Ages => AgesAreReal
<1> SUFFICES ASSUME Ages, failed = {}, StepsOf("flush_inactive") # {}
             PROVE  \A i \in 2..Len(reads) : NotBefore(reads[i], reads[i - 1])
  BY DEF AgesAreReal
<1>1. CASE phase = "start"
  <2>1. Len(reads) = 0  BY <1>1 DEF Ages
  <2> QED  BY <2>1
<1>2. CASE phase # "start"  BY <1>2 DEF Ages, Timed, Answered
<1> QED  BY <1>1, <1>2

\* gmock takes the newest expectation that is ready, which alone would hand out the
\* times of a test backwards. Whatever the tests, as long as those that call
\* tcp_lro_flush_inactive state their times in order and in one sequence: no test
\* that has reported nothing has seen the clock run backwards, also when the code
\* under test asks for the time once too often, too early or too late
\* (tcp_lro.gtest.cpp:232-310, microtime.cpp:19).
THEOREM ClockRuns == Spec => []AgesAreReal
<1>1. Init => Ages
  <2>1. Init => reads = <<>> /\ phase = "start"  BY DEF Init
  <2> QED  BY <2>1 DEF Ages
<1>2. IInv /\ TInv /\ Ages /\ [Next]_vars => IInv' /\ TInv' /\ Ages'
  <2> SUFFICES ASSUME IInv, TInv, Ages, [Next]_vars PROVE IInv' /\ TInv' /\ Ages'
    OBVIOUS
  <2>1. IInv'  BY ShapeStep, PlacedStep, InCallStep, OwnedStep DEF IInv
  <2>2. TInv'  BY <2>1, TStep
  <2>3. Ages'  BY <2>1, AgesStep DEF TInv
  <2> QED  BY <2>1, <2>2, <2>3
<1>3. IInv /\ Ages => AgesAreReal  BY AgesEnough DEF IInv
<1> QED  BY InitInv, TInit, <1>1, <1>2, <1>3, PTL DEF Spec
-----------------------------------------------------------------------------
(* Where the expectations come from.                                       *)

\* The test that runs, and a step of it.
Script    == Scripts[test.version][test.name]
StepAt(x) == Script[x.fn][x.pc]

\* A step of the fixture within the body of a test.
LEMMA BodyMoves ==
  ASSUME IInv, [Next]_vars, phase = "body", phase' = "body"
  PROVE  /\ test' = test
         /\ \/ at' = at
            \/ InBody /\ Advance
            \/ At("rx") /\ "assert" \in failed' /\ at' = [at EXCEPT !.pc = Len(Function) + 1]
            \/ ~InBody /\ at' = [fn |-> at.fn + 1, pc |-> 1]
<1> USE DEF IInv
<1>1. CASE Working
  <2>1. UNCHANGED test /\ (at' = at \/ (InBody /\ Advance))
    BY <1>1, WorkingFrame DEF FlushErr, Flushing, At
  <2> QED  BY <2>1
<1>2. CASE FlushDone \/ SetExpectation \/ CallMockSequence \/ EnableForwardingStep
            \/ SetIfMtuStep \/ FreeStep
  BY <1>2 DEF FlushDone, Flushing, SetExpectation, CallMockSequence, EnableForwardingStep,
              SetIfMtuStep, FreeStep, At
<1>3. CASE Assert
  <2>1. At("rx") /\ InBody /\ test' = test  BY <1>3 DEF Assert, InCall, At
  <2> QED  BY <1>3, <2>1 DEF Assert
<1>4. CASE Return  BY <1>4 DEF Return
<1>5. CASE Generate \/ UNCHANGED vars  BY <1>5 DEF Generate, vars
<1>6. CASE TestCaseTearDown \/ TearDown  BY <1>6 DEF TestCaseTearDown, TearDown
<1>7. ASSUME NEW v \in DOMAIN Scripts, NEW name \in DOMAIN Scripts[v], SetUp(name, v)
      PROVE  FALSE
  BY <1>7 DEF SetUp
<1> QED  BY <1>1, <1>2, <1>3, <1>4, <1>5, <1>6, <1>7, NextCases

\* The steps behind the test are those that it took.
LEMMA BehindNext ==
  ASSUME IInv, IInv', [Next]_vars, phase = "body", phase' = "body", NEW op
  PROVE  /\ StepsOf(op)' = StepsOf(op) /\ Behind(op) \subseteq Behind(op)'
         /\ "assert" \notin failed' =>
              \/ at' = at /\ Behind(op)' = Behind(op)
              \/ InBody /\ Advance /\ Behind(op)' = IF At(op) THEN Behind(op) \cup {at} ELSE Behind(op)
              \/ ~InBody /\ Behind(op)' = Behind(op)
<1> USE DEF IInv
<1>1. test' = test /\ StepsOf(op)' = StepsOf(op)  BY BodyMoves DEF StepsOf
<1>2. at' = at \/ Precedes(at, at')  BY BodyMoves, Onward
<1>3. Behind(op) \subseteq Behind(op)'  BY <1>1, <1>2, BehindGrows
<1>4. /\ at.fn \in Nat /\ at.pc \in Nat /\ at'.fn \in Nat /\ at'.pc \in Nat
      /\ at = [fn |-> at.fn, pc |-> at.pc]
      /\ Len(Function) \in Nat
  BY StepsAre DEF Shape, IsFunction
<1>5. ASSUME NEW x \in StepsOf(op)
      PROVE  /\ x.fn \in Nat /\ x.pc \in Nat /\ x = [fn |-> x.fn, pc |-> x.pc]
             /\ (x.fn = at.fn => x.pc <= Len(Function))
             /\ StepAt(x).op = op
  <2>1. x.fn \in Nat /\ x.pc \in Nat /\ x = [fn |-> x.fn, pc |-> x.pc]
        /\ x.pc \in 1..Len(Script[x.fn]) /\ StepAt(x).op = op
    BY StepsAre DEF Script, StepAt
  <2>2. x.fn = at.fn => Script[x.fn] = Function  BY DEF Script, Function
  <2> QED  BY <1>4, <2>1, <2>2
<1>6. CASE at' = at
  <2>1. Behind(op)' = Behind(op)  BY <1>1, <1>6 DEF Behind
  <2> QED  BY <1>1, <1>3, <1>6, <2>1
<1>7. CASE InBody /\ Advance
  <2>1. at'.fn = at.fn /\ at'.pc = at.pc + 1  BY <1>7 DEF Advance, Shape
  <2>2. ASSUME NEW x \in StepsOf(op), Precedes(x, at') PROVE Precedes(x, at) \/ x = at
    BY <1>4, <1>5, <2>1, <2>2 DEF Precedes
  <2>3. At(op) => at \in StepsOf(op)  BY StepsAre
  <2>4. at \in StepsOf(op) => At(op)
    <3>1. at \in StepsOf(op) => StepAt(at).op = op  BY <1>5
    <3> QED  BY <1>7, <3>1 DEF At, StepAt, Script, Step, Function
  <2>5. Precedes(at, at')  BY <1>4, <2>1 DEF Precedes
  <2>6. Behind(op)' = IF At(op) THEN Behind(op) \cup {at} ELSE Behind(op)
    <3>1. Behind(op)' = {x \in StepsOf(op) : Precedes(x, at')}  BY <1>1 DEF Behind
    <3>2. Behind(op) = {x \in StepsOf(op) : Precedes(x, at)}  BY DEF Behind
    <3>3. ASSUME NEW x \in StepsOf(op) PROVE Precedes(x, at) => Precedes(x, at')
      BY <1>3, <3>1, <3>2
    <3> QED  BY <2>2, <2>3, <2>4, <2>5, <3>1, <3>2, <3>3
  <2> QED  BY <1>1, <1>3, <1>7, <2>6
<1>8. CASE ~InBody /\ at' = [fn |-> at.fn + 1, pc |-> 1]
  <2>1. at.pc > Len(Function)  BY <1>4, <1>8 DEF InBody
  <2>2. at'.fn = at.fn + 1 /\ at'.pc = 1  BY <1>8
  <2>3. ASSUME NEW x \in StepsOf(op), Precedes(x, at') PROVE Precedes(x, at)
    <3>0. x.pc >= 1  BY StepsAre
    <3>1. x.fn <= at.fn  BY <1>4, <1>5, <2>2, <2>3, <3>0 DEF Precedes
    <3> QED  BY <1>4, <1>5, <2>1, <3>1 DEF Precedes
  <2>4. Behind(op)' \subseteq Behind(op)  BY <1>1, <2>3 DEF Behind
  <2> QED  BY <1>1, <1>3, <1>8, <2>4
<1> QED  BY <1>1, <1>3, <1>6, <1>7, <1>8, BodyMoves

\* A new test has no step behind it.
LEMMA BehindNothing ==
  ASSUME NEW v \in DOMAIN Scripts, NEW name \in DOMAIN Scripts[v], SetUp(name, v), NEW op
  PROVE  Behind(op)' = {}
<1>1. phase' = "body" /\ at' = [fn |-> 1, pc |-> 1]  BY DEF SetUp
<1>2. ASSUME NEW x \in StepsOf(op)' PROVE x.fn \in Nat /\ x.pc \in Nat /\ x.fn >= 1 /\ x.pc >= 1
  <2> DEFINE fs == Scripts[v][name]
  <2>1. x \in UNION {{[fn |-> i, pc |-> j] : j \in 1..Len(fs[i])} : i \in 1..Len(fs)}
    BY DEF SetUp, StepsOf, StepsIn
  <2>2. PICK i \in 1..Len(fs) : x \in {[fn |-> i, pc |-> j] : j \in 1..Len(fs[i])}  BY <2>1
  <2>3. PICK j \in 1..Len(fs[i]) : x = [fn |-> i, pc |-> j]  BY <2>2
  <2>4. Len(fs) \in Nat /\ Len(fs[i]) \in Nat
    BY <2>2, HarnessAssumption DEF IsTest, IsFunction
  <2> HIDE DEF fs
  <2> QED  BY <2>3, <2>4
<1>3. ASSUME NEW x \in StepsOf(op)' PROVE ~Precedes(x, at')
  BY <1>1, <1>2 DEF Precedes
<1> QED  BY <1>3 DEF Behind

\* At a step that states an expectation the test does that and nothing else.
LEMMA OnlyExpects ==
  ASSUME IInv, [Next]_vars, At("expect")
  PROVE  SetExpectation \/ UNCHANGED vars
<1>1. phase = "body" /\ InBody /\ arg = 0  BY DEF At, InBody, IInv, InCall
<1>2. ~Working /\ ~Generate /\ ~Assert
  BY <1>1 DEF Working, Rx, RxRefuse, RxFlush, RxQueue, RxAbsorb, RxAppend, RxFill, Errs, RxErr,
              EntryErr, FreeErr, FlushErr, ReadClock, FlushOne, InLro, Calling, Flushing, At,
              Generate, Assert, IInv, InCall
<1>3. ~FlushDone /\ ~CallMockSequence /\ ~EnableForwardingStep /\ ~SetIfMtuStep /\ ~FreeStep
  BY DEF FlushDone, Flushing, CallMockSequence, EnableForwardingStep, SetIfMtuStep, FreeStep, At
<1>4. ~Return /\ ~TestCaseTearDown /\ ~TearDown /\ \A v, name : ~SetUp(name, v)
  BY <1>1 DEF Return, TestCaseTearDown, TearDown, SetUp
<1> QED  BY <1>2, <1>3, <1>4, NextCases

\* The expectations are those of the steps behind, in their order; there is one for
\* each of these steps, unless a failed ASSERT_ has left some of them out.
Asked ==
  phase = "body" =>
    \E by \in [DOMAIN gm -> Behind("expect")] :
      /\ \A i \in DOMAIN gm : LET s == StepAt(by[i]) IN
           s.fn = gm[i].fn /\ s.arg = gm[i].arg /\ s.seqs = gm[i].seqs
      /\ \A i, j \in DOMAIN gm : i < j => Precedes(by[i], by[j])
      /\ "assert" \notin failed => \A x \in Behind("expect") : \E i \in DOMAIN gm : by[i] = x

\* An expectation waits for those before it that share a sequence with it.
Linked(es) ==
  \A i \in DOMAIN es : es[i].pre = {j \in 1..(i - 1) : es[j].seqs \cap es[i].seqs # {}}

\* Every step keeps the expectations those of the steps behind.
LEMMA AskedStep ==
  ASSUME IInv, IInv', Stated(gm), Asked, [Next]_vars
  PROVE  Asked'
<1> DEFINE B == Behind("expect")
\* The steps that state nothing.
<1>1. ASSUME phase = "body", phase' = "body", ~SetExpectation, failed \subseteq failed',
             DOMAIN gm' = DOMAIN gm,
             \A i \in DOMAIN gm : /\ gm'[i].fn = gm[i].fn /\ gm'[i].arg = gm[i].arg
                                  /\ gm'[i].seqs = gm[i].seqs
      PROVE  Asked'
  <2>1. PICK by \in [DOMAIN gm -> B] :
          /\ \A i \in DOMAIN gm : LET s == StepAt(by[i]) IN
               s.fn = gm[i].fn /\ s.arg = gm[i].arg /\ s.seqs = gm[i].seqs
          /\ \A i, j \in DOMAIN gm : i < j => Precedes(by[i], by[j])
          /\ "assert" \notin failed => \A x \in B : \E i \in DOMAIN gm : by[i] = x
    BY <1>1 DEF Asked
  <2>2. /\ test' = test /\ B \subseteq B'
        /\ "assert" \notin failed' => B' = B
    <3>1. test' = test  BY <1>1, BodyMoves
    <3>2. B \subseteq B'  BY <1>1, BehindNext
    <3>3. ASSUME "assert" \notin failed' PROVE B' = B
      <4>1. \/ at' = at /\ B' = B
            \/ InBody /\ Advance /\ B' = IF At("expect") THEN B \cup {at} ELSE B
            \/ ~InBody /\ B' = B
        BY <1>1, <3>3, BehindNext
      <4>2. At("expect") /\ InBody /\ Advance => FALSE
        <5>1. At("expect") => UNCHANGED at  BY <1>1, OnlyExpects DEF vars
        <5>2. Advance => at' # at  BY DEF Advance, IInv, Shape
        <5> QED  BY <5>1, <5>2
      <4> QED  BY <4>1, <4>2
    <3> QED  BY <3>1, <3>2, <3>3
  <2>3. \A x : StepAt(x)' = StepAt(x)  BY <2>2 DEF StepAt, Script
  <2> HIDE DEF B
  <2>4. by \in [DOMAIN gm' -> B']  BY <1>1, <2>2
  <2>5. /\ \A i \in DOMAIN gm' : LET s == StepAt(by[i])' IN
             s.fn = gm'[i].fn /\ s.arg = gm'[i].arg /\ s.seqs = gm'[i].seqs
        /\ \A i, j \in DOMAIN gm' : i < j => Precedes(by[i], by[j])
        /\ "assert" \notin failed' => \A x \in B' : \E i \in DOMAIN gm' : by[i] = x
    BY <1>1, <2>1, <2>2, <2>3
  <2> QED  BY <2>4, <2>5 DEF Asked, B
<1>2. ASSUME SetExpectation PROVE Asked'
  <2> DEFINE n == Len(gm) + 1
  <2>1. /\ At("expect") /\ InBody /\ Advance /\ phase = "body" /\ phase' = "body"
        /\ UNCHANGED <<failed, test>>
        /\ gm' = Append(gm, Expectation(gm, Step.fn, Step.arg, Step.seqs))
    BY <1>2 DEF SetExpectation, At, InBody
  <2>2. Step = StepAt(at)  BY DEF Step, Function, StepAt, Script
  <2>3. Step.fn = "getmicrotime" => Step.arg \in Timeval  BY <2>1, StepStatesTime DEF IInv
  <2>4. /\ Stated(gm') /\ Len(gm') = n
        /\ gm'[n] = Expectation(gm, Step.fn, Step.arg, Step.seqs)
        /\ \A i \in 1..Len(gm) : gm'[i] = gm[i]
    BY <2>1, <2>3, ExpectedStated
  <2>5. /\ Len(gm) \in Nat /\ n \in Nat /\ DOMAIN gm = 1..Len(gm) /\ DOMAIN gm' = 1..n
    BY <2>4 DEF Stated
  <2>6. PICK by \in [DOMAIN gm -> B] :
          /\ \A i \in DOMAIN gm : LET s == StepAt(by[i]) IN
               s.fn = gm[i].fn /\ s.arg = gm[i].arg /\ s.seqs = gm[i].seqs
          /\ \A i, j \in DOMAIN gm : i < j => Precedes(by[i], by[j])
          /\ "assert" \notin failed => \A x \in B : \E i \in DOMAIN gm : by[i] = x
    BY <2>1 DEF Asked
  <2>7. B' = B \cup {at} \/ "assert" \in failed'
    <3>1. Advance => at' # at  BY DEF Advance, IInv, Shape
    <3> QED  BY <2>1, <3>1, BehindNext
  <2>8. B \subseteq B' /\ at \in B'
    <3>1. Precedes(at, at')  BY <2>1, Onward DEF IInv
    <3> QED  BY <2>1, <3>1, BehindGrows DEF IInv
  <2>a. PICK to : to = [i \in 1..n |-> IF i = n THEN at ELSE by[i]]  OBVIOUS
  <2>9. \A i \in 1..n : i = n \/ (i \in DOMAIN gm /\ i # n)  BY <2>5
  <2>10. \A x : StepAt(x)' = StepAt(x)  BY <2>1 DEF StepAt, Script
  <2>11. /\ to \in [DOMAIN gm' -> B'] /\ to[n] = at
         /\ \A i \in DOMAIN gm : to[i] = by[i] /\ by[i] \in B /\ i \in DOMAIN gm' /\ i < n
    <3> HIDE DEF B
    <3> QED  BY <2>5, <2>6, <2>8, <2>9, <2>a
  <2>12. n \in DOMAIN gm'  BY <2>5
  <2>13. /\ gm'[n].fn = Step.fn /\ gm'[n].arg = Step.arg /\ gm'[n].seqs = Step.seqs
         /\ \A i \in DOMAIN gm : gm'[i] = gm[i]
    BY <2>4, <2>5 DEF Expectation
  <2> HIDE DEF n
  <2>14. ASSUME NEW i \in DOMAIN gm'
         PROVE  LET s == StepAt(to[i])' IN
                s.fn = gm'[i].fn /\ s.arg = gm'[i].arg /\ s.seqs = gm'[i].seqs
    <3>1. CASE i = n  BY <2>2, <2>10, <2>11, <2>13, <3>1
    <3>2. CASE i \in DOMAIN gm  BY <2>6, <2>10, <2>11, <2>13, <3>2
    <3> QED  BY <2>5, <2>9, <3>1, <3>2
  <2>15. ASSUME NEW i \in DOMAIN gm', NEW j \in DOMAIN gm', i < j
         PROVE  Precedes(to[i], to[j])
    <3>1. i \in DOMAIN gm  BY <2>5, <2>9, <2>15
    <3>2. CASE j = n
      <4>1. to[i] \in B /\ to[j] = at  BY <2>11, <3>1, <3>2
      <4> QED  BY <4>1 DEF Behind
    <3>3. CASE j \in DOMAIN gm  BY <2>6, <2>11, <2>15, <3>1, <3>3
    <3> QED  BY <2>5, <2>9, <3>2, <3>3
  <2>16. ASSUME "assert" \notin failed', NEW x \in B' PROVE \E i \in DOMAIN gm' : to[i] = x
    <3>1. CASE x = at  BY <2>11, <2>12, <3>1
    <3>2. CASE x \in B
      <4>1. PICK i \in DOMAIN gm : by[i] = x  BY <2>1, <2>6, <2>16, <3>2
      <4> QED  BY <2>11, <4>1
    <3> QED  BY <2>7, <2>16, <3>1, <3>2
  <2> HIDE DEF B
  <2> QED  BY <2>11, <2>14, <2>15, <2>16 DEF Asked, B
<1>3. ASSUME NEW v \in DOMAIN Scripts, NEW name \in DOMAIN Scripts[v], SetUp(name, v)
      PROVE  Asked'
  <2>1. B' = {}
    <3> HIDE DEF B
    <3>1. Behind("expect")' = {}  BY <1>3, BehindNothing
    <3> QED  BY <3>1 DEF B
  <2>0. gm' = <<>> /\ DOMAIN <<>> = {}  BY <1>3 DEF SetUp
  <2> DEFINE by == [i \in {} |-> i]
  <2>2. by \in [DOMAIN gm' -> B']  BY <2>0, <2>1
  <2> HIDE DEF B, by
  <2>3. /\ \A i \in DOMAIN gm' : LET s == StepAt(by[i])' IN
             s.fn = gm'[i].fn /\ s.arg = gm'[i].arg /\ s.seqs = gm'[i].seqs
        /\ \A i, j \in DOMAIN gm' : i < j => Precedes(by[i], by[j])
        /\ "assert" \notin failed' => \A x \in B' : \E i \in DOMAIN gm' : by[i] = x
    BY <2>0, <2>1
  <2> QED  BY <2>2, <2>3 DEF Asked, B
<1>4. CASE phase' = "body" /\ \A v \in DOMAIN Scripts : \A name \in DOMAIN Scripts[v] : ~SetUp(name, v)
  <2>1. phase = "body"
    BY <1>4, NextCases, WorkingFrame DEF IInv, FlushDone, Flushing, Generate, Assert, At, InBody,
       Return, TearDown, TestCaseTearDown, SetExpectation, CallMockSequence, EnableForwardingStep,
       SetIfMtuStep, FreeStep, vars
  <2>2. SUFFICES ASSUME ~SetExpectation
                 PROVE  /\ failed \subseteq failed' /\ DOMAIN gm' = DOMAIN gm
                        /\ \A i \in DOMAIN gm : /\ gm'[i].fn = gm[i].fn /\ gm'[i].arg = gm[i].arg
                                                /\ gm'[i].seqs = gm[i].seqs
    BY <1>1, <1>2, <1>4, <2>1
  <2>3. ASSUME NEW fn, NEW x, gm' = Called(gm, fn, x)
        PROVE  /\ DOMAIN gm' = DOMAIN gm
               /\ \A i \in DOMAIN gm : /\ gm'[i].fn = gm[i].fn /\ gm'[i].arg = gm[i].arg
                                       /\ gm'[i].seqs = gm[i].seqs
    BY <2>3, CalledFields
  <2>4. \/ UNCHANGED gm /\ failed \subseteq failed'
        \/ \E fn, x : gm' = Called(gm, fn, x) /\ failed \subseteq failed'
    BY <1>4, <2>2, MockSteps DEF getmicrotime
  <2> QED  BY <2>3, <2>4
<1> QED  BY <1>3, <1>4 DEF Asked

-----------------------------------------------------------------------------
(* The books after the mistake: what the zone counts and what the others   *)
(* think that they own.                                                    *)

\* All mbufs that somebody is going to free.
Mine == KeptSet \cup Pending \cup Chained(queue)

\* Nothing was freed that was not owned: the zone holds what is owned, and what was
\* forgotten.
Covered(O, z, f, n) ==
  /\ O \subseteq z.held /\ z.held \subseteq 1..n /\ z.alloced = Cardinality(z.held)
  /\ \A m \in 1..n : f[m] = One(m \notin z.held)

\* One mbuf was freed by mistake. Once its owner has freed it again, if it had one,
\* the zone counts one mbuf too few.
Short(O, z, n) ==
  \E d \in (1..n) \ z.held :
    /\ z.held = O \ {d}
    /\ "extraFree" \in z.fails \/ z.alloced + One(d \notin O) = Cardinality(z.held)

Ledger(O, z, f, n) == Covered(O, z, f, n) \/ Short(O, z, n)

\* Owners free some of what they own.
LEMMA LedgerFrees ==
  ASSUME NEW z \in Zone, NEW f, NEW n \in Nat, 1..n \subseteq Items, NEW O \in SUBSET (1..n),
         Ledger(O, z, f, n), NEW S \in SUBSET O, NEW r, NEW g,
         r.held = z.held \ S, r.alloced = (z.alloced - Cardinality(S)) % CountMod,
         z.fails \subseteq r.fails, z.alloced >= Cardinality(S) \/ "extraFree" \in r.fails,
         \A m \in 1..n : g[m] = f[m] + One(m \in S)
  PROVE  Ledger(O \ S, r, g, n)
<1> DEFINE H == z.held
           h == Cardinality(H)
           s == Cardinality(S)
           a == z.alloced
<1>1. H \in SUBSET Items /\ S \in SUBSET Items /\ a \in Nat /\ a < CountMod /\ CountMod \in Nat
  BY ZoneAssumption DEF Zone
<1>2. h \in Nat /\ h < CountMod /\ s \in Nat /\ IsFiniteSet(H) /\ IsFiniteSet(S)
  BY <1>1, HeldSize
<1>3. \A c \in Nat : c < CountMod => c % CountMod = c  BY <1>1
<1>4. ASSUME Covered(O, z, f, n) PROVE Covered(O \ S, r, g, n)
  <2>1. S \subseteq H /\ a = h  BY <1>4 DEF Covered
  <2>2. Cardinality(H \ S) = h - s /\ h - s \in Nat
    <3>1. H \cap S = S /\ H \ S \in SUBSET Items  BY <1>1, <2>1
    <3>2. Cardinality(H \ S) = h - Cardinality(H \cap S)  BY <1>2, FS_Difference
    <3>3. Cardinality(H \ S) \in Nat  BY <3>1, HeldSize
    <3> QED  BY <3>1, <3>2, <3>3
  <2>3. (a - s) % CountMod = h - s
    <3> HIDE DEF a, h, s
    <3> QED  BY <1>1, <1>2, <1>3, <2>1, <2>2
  <2>4. r.alloced = Cardinality(r.held)  BY <2>2, <2>3
  <2>5. ASSUME NEW m \in 1..n PROVE g[m] = One(m \notin r.held)
    <3>1. f[m] = One(m \notin H) /\ g[m] = f[m] + One(m \in S)  BY <1>4 DEF Covered
    <3> QED  BY <2>1, <3>1 DEF One
  <2> QED  BY <1>4, <2>4, <2>5 DEF Covered
<1>5. ASSUME Short(O, z, n) PROVE Short(O \ S, r, n)
  <2>1. PICK d \in (1..n) \ H :
          /\ H = O \ {d}
          /\ "extraFree" \in z.fails \/ a + One(d \notin O) = h
    BY <1>5 DEF Short
  <2>2. d \in (1..n) \ r.held /\ r.held = (O \ S) \ {d}  BY <2>1
  <2>3. SUFFICES ASSUME "extraFree" \notin r.fails
                 PROVE  r.alloced + One(d \notin O \ S) = Cardinality(r.held)
    BY <2>2 DEF Short
  <2>4. a >= s /\ a + One(d \notin O) = h  BY <2>1, <2>3
  <2>5. r.alloced = a - s
    <3>1. a - s \in Nat /\ a - s < CountMod  BY <1>1, <1>2, <2>4
    <3> HIDE DEF a, s
    <3> QED  BY <1>3, <3>1 DEF a, s
  <2>6. CASE d \in S
    <3>1. H \ S = H \ (S \ {d}) /\ H \cap (S \ {d}) = S \ {d} /\ S \ {d} \in SUBSET Items
      BY <1>1, <2>1
    <3>2. Cardinality(S \ {d}) = s - 1  BY <1>1, <2>6, HeldSize
    <3>3. Cardinality(H \ S) = h - (s - 1)
      <4>1. Cardinality(H \ (S \ {d})) = h - Cardinality(H \cap (S \ {d}))
        BY <1>2, FS_Difference
      <4> QED  BY <3>1, <3>2, <4>1
    <3>4. One(d \notin O) = 0 /\ One(d \notin O \ S) = 1  BY <2>6 DEF One
    <3> HIDE DEF h, s, a
    <3> QED  BY <1>1, <1>2, <2>4, <2>5, <3>3, <3>4 DEF H
  <2>7. CASE d \notin S
    <3>1. H \cap S = S  BY <2>1, <2>7
    <3>2. Cardinality(H \ S) = h - s
      <4>1. Cardinality(H \ S) = h - Cardinality(H \cap S)  BY <1>2, FS_Difference
      <4> QED  BY <3>1, <4>1
    <3>3. One(d \notin O \ S) = One(d \notin O) /\ One(d \notin O) \in Nat  BY <2>7 DEF One
    <3> HIDE DEF h, s, a, One
    <3> QED  BY <1>1, <1>2, <2>4, <2>5, <3>2, <3>3 DEF H
  <2> QED  BY <2>6, <2>7
<1> QED  BY <1>4, <1>5 DEF Ledger

\* The zone lends the next mbuf out.
LEMMA LedgerLends ==
  ASSUME NEW z \in Zone, NEW f, NEW n \in Nat, 1..(n + 1) \subseteq Items,
         NEW O \in SUBSET (1..n), Ledger(O, z, f, n), f[n + 1] = 0
  PROVE  Ledger(O \cup {n + 1}, uma_zalloc_arg(z, n + 1), f, n + 1)
<1> DEFINE m == n + 1
           r == uma_zalloc_arg(z, m)
           H == z.held
           h == Cardinality(H)
           a == z.alloced
<1>1. m \in Items /\ m \notin 1..n /\ 1..n \subseteq 1..m /\ m \in 1..m
      /\ \A i \in 1..m : i = m \/ i \in 1..n
  OBVIOUS
<1>2. r.alloced = (a + 1) % CountMod /\ r.held = H \cup {m} /\ r.fails = z.fails
  BY <1>1, ZallocFields
<1> HIDE DEF r
<1>3. H \in SUBSET Items /\ a \in Nat /\ CountMod \in Nat /\ a < CountMod
  BY ZoneAssumption DEF Zone
<1>4. \A c \in Nat : c < CountMod => c % CountMod = c  BY <1>3
<1>5. H \subseteq 1..n  BY DEF Ledger, Covered, Short
<1>6. /\ h \in Nat /\ Cardinality(H \cup {m}) = h + 1 /\ h + 1 < CountMod
  <2>1. m \in Items \ H  BY <1>1, <1>5
  <2>2. H \in SUBSET Items  BY <1>3
  <2> HIDE DEF m, H
  <2> QED  BY <2>1, <2>2, HeldSize
<1>7. ASSUME Covered(O, z, f, n) PROVE Covered(O \cup {m}, r, f, m)
  <2>1. a = h  BY <1>7 DEF Covered
  <2>2. r.alloced = Cardinality(r.held)
    <3> HIDE DEF h, a
    <3> QED  BY <1>2, <1>4, <1>6, <2>1
  <2>3. ASSUME NEW i \in 1..m PROVE f[i] = One(i \notin r.held)
    <3>1. CASE i = m  BY <1>2, <3>1 DEF One
    <3>2. CASE i \in 1..n  BY <1>1, <1>2, <1>7, <3>2 DEF Covered, One
    <3> QED  BY <1>1, <3>1, <3>2
  <2>4. O \cup {m} \subseteq r.held /\ r.held \subseteq 1..m
    BY <1>1, <1>2, <1>5, <1>7 DEF Covered
  <2> QED  BY <2>2, <2>3, <2>4 DEF Covered
<1>8. ASSUME Short(O, z, n) PROVE Short(O \cup {m}, r, m)
  <2>1. PICK d \in (1..n) \ H :
          /\ H = O \ {d}
          /\ "extraFree" \in z.fails \/ a + One(d \notin O) = h
    BY <1>8 DEF Short
  <2>2. d # m /\ d \in (1..m) \ r.held /\ r.held = (O \cup {m}) \ {d}  BY <1>1, <1>2, <2>1
  <2>3. One(d \notin O \cup {m}) = One(d \notin O) /\ One(d \notin O) \in Nat
    BY <2>2 DEF One
  <2>4. ASSUME a + One(d \notin O) = h PROVE r.alloced + One(d \notin O \cup {m}) = Cardinality(r.held)
    <3> DEFINE o == One(d \notin O)
    <3>1. Cardinality(r.held) = h + 1  BY <1>2, <1>6
    <3>2. o \in Nat /\ a + o = h /\ One(d \notin O \cup {m}) = o  BY <2>3, <2>4
    <3> HIDE DEF h, a, o
    <3>3. a + 1 \in Nat /\ a + 1 < CountMod  BY <1>3, <1>6, <3>2
    <3>4. r.alloced = a + 1  BY <1>2, <1>4, <3>3
    <3> QED  BY <1>3, <1>6, <3>1, <3>2, <3>4
  <2> QED  BY <1>2, <2>1, <2>2, <2>4 DEF Short
<1> QED  BY <1>7, <1>8 DEF Ledger, m, r

\* The mbuf of a call carries the packet of its step; the calls of the steps behind
\* had packets of their own.
Sent ==
  phase = "body" =>
    /\ arg # 0 => arg = Len(pkts) /\ pkts[arg] = Step.pkt
    /\ "assert" \notin failed =>
         \A x \in Behind("rx") : \E k \in 1..Len(pkts) : k # arg /\ pkts[k] = StepAt(x).pkt

\* What the zone found is reported when the test is over, and what is left in it.
Told == Over => zone.fails \subseteq failed /\ (zone.alloced # 0 => "leak" \in failed)

\* A step that calls tcp_lro_rx is left when the result was checked.
LEMMA AdvanceElsewhere ==
  ASSUME IInv, [Next]_vars, At("rx"), Advance
  PROVE  Assert
<1>1. at' # at /\ phase = "body"  BY DEF Advance, IInv, Shape, At, InBody
<1>2. ~Working  BY <1>1, WorkingFrame DEF IInv, FlushErr, Flushing, At
<1>3. ~FlushDone /\ ~SetExpectation /\ ~CallMockSequence /\ ~EnableForwardingStep
      /\ ~SetIfMtuStep /\ ~FreeStep /\ ~Return
  BY DEF FlushDone, Flushing, SetExpectation, CallMockSequence, EnableForwardingStep,
         SetIfMtuStep, FreeStep, At, Return
<1>4. ~Generate /\ ~TestCaseTearDown /\ ~TearDown /\ (\A v, name : ~SetUp(name, v))
      /\ ~UNCHANGED vars
  BY <1>1 DEF Generate, TestCaseTearDown, TearDown, SetUp, vars
<1> QED  BY <1>2, <1>3, <1>4, NextCases

\* A test sends what its steps say, in their order.
LEMMA SentStep ==
  ASSUME IInv, IInv', TInv, Sent, [Next]_vars
  PROVE  Sent'
<1> USE DEF IInv
<1> DEFINE B == Behind("rx")
<1>0. Len(pkts) \in Nat  BY Longer DEF Shape
<1>1. CASE phase' # "body"  BY <1>1 DEF Sent
<1>2. ASSUME NEW v \in DOMAIN Scripts, NEW name \in DOMAIN Scripts[v], SetUp(name, v)
      PROVE  Sent'
  <2>1. arg' = 0  BY <1>2 DEF SetUp
  <2>2. Behind("rx")' = {}  BY <1>2, BehindNothing
  <2> QED  BY <2>1, <2>2 DEF Sent
\* The body goes on.
<1>3. ASSUME phase = "body", phase' = "body"
      PROVE  /\ test' = test /\ \A x : StepAt(x)' = StepAt(x)
             /\ failed \subseteq failed'
             /\ "assert" \notin failed' =>
                  \/ B' = B
                  \/ B' = B \cup {at} /\ Assert /\ at = [fn |-> at.fn, pc |-> at.pc]
  <2>1. test' = test  BY <1>3, BodyMoves
  <2>2. failed \subseteq failed'
    <3>1. ~\E v \in DOMAIN Scripts : \E name \in DOMAIN Scripts[v] : SetUp(name, v)
      BY <1>3 DEF SetUp
    <3> QED  BY <3>1, MockSteps DEF getmicrotime, SetExpectation
  <2>3. ASSUME "assert" \notin failed'
        PROVE  B' = B \/ (B' = B \cup {at} /\ Assert)
    <3>1. \/ at' = at /\ B' = B
          \/ InBody /\ Advance /\ B' = IF At("rx") THEN B \cup {at} ELSE B
          \/ ~InBody /\ B' = B
      BY <1>3, <2>3, BehindNext
    <3> HIDE DEF B
    <3> QED  BY <3>1, AdvanceElsewhere
  <2>4. at = [fn |-> at.fn, pc |-> at.pc]  BY DEF Shape
  <2> HIDE DEF B
  <2> QED  BY <2>1, <2>2, <2>3, <2>4 DEF StepAt, Script
<1>4. ASSUME phase = "body", phase' = "body", Generate
      PROVE  Sent'
  <2>1. /\ arg = 0 /\ arg' = Len(pkts) + 1 /\ pkts' = Append(pkts, Step.pkt)
        /\ UNCHANGED <<at, test, failed>>
    BY <1>4 DEF Generate
  <2>2. Len(pkts') = Len(pkts) + 1 /\ pkts'[Len(pkts) + 1] = Step.pkt
        /\ \A k \in 1..Len(pkts) : pkts'[k] = pkts[k]
    <3>1. PICK S : pkts \in Seq(S)  BY DEF Shape, IsSeq
    <3>2. pkts \in Seq(S \cup {Step.pkt}) /\ Step.pkt \in S \cup {Step.pkt}  BY <3>1
    <3> QED  BY <2>1, <3>2
  <2>3. Step' = Step /\ B' = B  BY <2>1 DEF Step, Function, Behind, StepsOf
  <2>4. ASSUME "assert" \notin failed', NEW x \in B'
        PROVE  \E k \in 1..Len(pkts') : k # arg' /\ pkts'[k] = StepAt(x)'.pkt
    <3>0. x \in B  BY <2>3
    <3> HIDE DEF B
    <3>1. PICK k \in 1..Len(pkts) : pkts[k] = StepAt(x).pkt
      BY <1>4, <2>1, <2>4, <3>0 DEF Sent, B
    <3>2. k \in 1..Len(pkts') /\ k # arg'  BY <1>0, <2>1, <2>2
    <3> QED  BY <1>3, <1>4, <2>2, <3>1, <3>2
  <2> QED  BY <2>1, <2>2, <2>3, <2>4 DEF Sent
<1>5. ASSUME phase = "body", phase' = "body", Assert
      PROVE  Sent'
  <2>1. arg' = 0 /\ pkts' = pkts /\ arg # 0  BY <1>5 DEF Assert, InCall
  <2>2. arg \in 1..Len(pkts) /\ pkts[arg] = StepAt(at).pkt
    <3>1. arg \in 0..Len(pkts)  BY DEF Shape
    <3>2. pkts[arg] = Step.pkt  BY <1>5, <2>1 DEF Sent
    <3>3. Step = StepAt(at)  BY DEF Step, Function, StepAt, Script
    <3> QED  BY <1>0, <2>1, <3>1, <3>2, <3>3
  <2>3. ASSUME "assert" \notin failed', NEW x \in B'
        PROVE  \E k \in 1..Len(pkts') : k # arg' /\ pkts'[k] = StepAt(x)'.pkt
    <3>1. x \in B \/ x = at  BY <1>3, <1>5, <2>3
    <3>2. \A k \in 1..Len(pkts) : k # 0  OBVIOUS
    <3> HIDE DEF B
    <3> QED  BY <1>3, <1>5, <2>1, <2>2, <2>3, <3>1, <3>2 DEF Sent, B
  <2> QED  BY <2>1, <2>3 DEF Sent
\* Every other step leaves the packets alone, and the place during a call.
<1>6. ASSUME phase = "body", phase' = "body", UNCHANGED <<pkts, arg>>, ~Assert
      PROVE  Sent'
  <2>1. ASSUME arg # 0 PROVE Step' = Step
    <3>1. At("rx")  BY <2>1 DEF InCall
    <3>2. At("rx")'  BY <1>6, <2>1 DEF InCall
    <3>3. \/ at' = at
          \/ Advance
          \/ at' = [at EXCEPT !.pc = Len(Function) + 1] /\ Function' = Function
      BY <1>6, <3>1, BodyMoves DEF At, Function, Shape
    <3>4. ~Advance  BY <1>6, <3>1, AdvanceElsewhere
    <3>5. CASE at' = at  BY <1>3, <1>6, <3>5 DEF Step, Function
    <3>6. CASE at' = [at EXCEPT !.pc = Len(Function) + 1] /\ Function' = Function
      <4>1. Len(Function) \in Nat  BY <1>6, StepsAre DEF IsFunction
      <4>2. at'.pc <= Len(Function)  BY <3>2, <3>6 DEF At, InBody
      <4> QED  BY <3>6, <4>1, <4>2 DEF Shape
    <3> QED  BY <3>3, <3>4, <3>5, <3>6
  <2>2. ASSUME "assert" \notin failed', NEW x \in B'
        PROVE  \E k \in 1..Len(pkts') : k # arg' /\ pkts'[k] = StepAt(x)'.pkt
    <3>1. x \in B  BY <1>3, <1>6, <2>2
    <3> HIDE DEF B
    <3> QED  BY <1>3, <1>6, <2>2, <3>1 DEF Sent, B
  <2> QED  BY <1>6, <2>1, <2>2 DEF Sent
<1>7. ASSUME ~(phase = "body"), phase' = "body"
      PROVE  \E v \in DOMAIN Scripts : \E name \in DOMAIN Scripts[v] : SetUp(name, v)
  BY <1>7, NextCases, WorkingFrame DEF FlushDone, Flushing, Generate, Assert, At, InBody, InCall,
     Return, TearDown, TestCaseTearDown, SetExpectation, CallMockSequence, EnableForwardingStep,
     SetIfMtuStep, FreeStep, vars
<1>8. ASSUME phase = "body", phase' = "body", ~Generate, ~Assert
      PROVE  UNCHANGED <<pkts, arg>>
  BY <1>8, NextCases, WorkingFrame DEF FlushDone, Return, TearDown, TestCaseTearDown,
     SetExpectation, CallMockSequence, EnableForwardingStep, SetIfMtuStep, FreeStep, vars, SetUp
<1> QED  BY <1>1, <1>2, <1>4, <1>5, <1>6, <1>7, <1>8

\* Only tear-down looks into the zone.
LEMMA ToldStep ==
  ASSUME IInv, TInv, Told, [Next]_vars
  PROVE  Told'
<1> USE DEF Over
<1>1. CASE TearDown
  <2>1. zone' = uma_zdestroy(zone) /\ zone'.fails \subseteq failed'  BY <1>1 DEF TearDown
  <2>2. zone \in Zone  BY DEF TInv, Stored
  <2> QED  BY <2>1, <2>2, ZdestroyFields DEF Told
<1>2. CASE UNCHANGED vars  BY <1>2 DEF vars, Told
<1>3. CASE ~TearDown /\ ~UNCHANGED vars
  <2>1. phase' # "over"
    BY <1>3, NextCases, WorkingFrame DEF IInv, FlushDone, Flushing, Generate, Assert, At, InBody,
       InCall, Return, TestCaseTearDown, SetExpectation, CallMockSequence, EnableForwardingStep,
       SetIfMtuStep, FreeStep, SetUp, Working, Errs, Rx, RxRefuse, RxFlush, RxQueue, RxAbsorb,
       RxAppend, RxFill, RxErr, EntryErr, FreeErr, FlushErr, ReadClock, FlushOne, Calling, InLro,
       Returns
  <2> QED  BY <2>1 DEF Told
<1> QED  BY <1>1, <1>2, <1>3

\* The test has reported neither a failed ASSERT_ nor a call it did not expect, and
\* its packets differ.
Clear ==
  /\ failed \cap {"assert", "unexpected"} = {} /\ Distinct
  /\ ret = "none" \/ ret = Step.ret

Balanced == Owns(Mine, KeptSet, Pending, queue) /\ Ledger(Mine, zone, frees, Len(pkts))

Books == wrong /\ Clear => Balanced

\* The owners are known by their mbufs.
LEMMA OwnsMine ==
  ASSUME NEW H, Owns(H, KeptSet, Pending, queue)
  PROVE  H = Mine
BY DEF Owns, Mine

\* Nobody owns what was not generated.
LEMMA MineBelow ==
  ASSUME IInv, TInv
  PROVE  /\ Mine \subseteq 1..Len(pkts) /\ Len(pkts) \in Nat /\ 1..Len(pkts) \subseteq Items
         /\ zone \in Zone
<1>1. KeptSet \subseteq 1..Len(pkts) /\ Len(pkts) \in Nat /\ 1..Len(pkts) \subseteq Items
  BY Numbered DEF IInv, TInv
<1>2. Chained(queue) \subseteq 1..Len(pkts)  BY DEF TInv, Queued, Chained
<1>3. Pending \subseteq 1..Len(pkts)  BY <1>1 DEF Pending, IInv, Shape
<1> QED  BY <1>1, <1>2, <1>3 DEF Mine, TInv, Stored

\* While the code under test behaves, the zone holds exactly what is owned.
LEMMA BalancedBefore ==
  ASSUME IInv, TInv, AInv, Behaves, ret = "none" \/ ret = Step.ret
  PROVE  /\ Owns(Mine, KeptSet, Pending, queue) /\ zone.held = Mine /\ Account
         /\ Covered(Mine, zone, frees, Len(pkts))
<1>1. Owns(zone.held, KeptSet, Pending, queue)  BY DEF IInv, Owned, Behaves
<1>2. zone.held = Mine  BY <1>1, OwnsMine
<1>3. Account  BY DEF AInv, Accounted
<1>4. Mine \subseteq 1..Len(pkts)  BY MineBelow
<1> QED  BY <1>1, <1>2, <1>3, <1>4 DEF Account, Sound, Covered

\* The owners free some of their mbufs, or none.
LEMMA BalancedFrees ==
  ASSUME IInv, TInv, Ledger(Mine, zone, frees, Len(pkts)), pkts' = pkts,
         NEW O, O = Mine, NEW S \in SUBSET O, Frees(S), Owns(O \ S, KeptSet', Pending', queue')
  PROVE  Balanced'
<1>1. O \ S = Mine'  BY DEF Owns, Mine
<1>2. CASE S = {} /\ UNCHANGED memory  BY <1>1, <1>2 DEF Balanced
<1>3. CASE m_freem(S)
  <2>1. /\ O \subseteq 1..Len(pkts) /\ Len(pkts) \in Nat /\ 1..Len(pkts) \subseteq Items
        /\ zone \in Zone
    BY MineBelow
  <2>2. \A m \in 1..Len(pkts) : frees'[m] = frees[m] + One(m \in S)
    <3>1. S \in SUBSET Items /\ Stored  BY <2>1 DEF TInv
    <3> QED  BY <1>3, <2>1, <3>1, FreedType
  <2>3. /\ zone'.held = zone.held \ S
        /\ zone'.alloced = (zone.alloced - Cardinality(S)) % CountMod
        /\ zone.fails \subseteq zone'.fails
        /\ zone.alloced >= Cardinality(S) \/ "extraFree" \in zone'.fails
    BY <1>3, <2>1 DEF m_freem, Zone
  <2>4. Ledger(O \ S, zone', frees', Len(pkts))
    <3>1. Ledger(O, zone, frees, Len(pkts)) /\ O \in SUBSET (1..Len(pkts))  BY <2>1
    <3> QED  BY <2>1, <2>2, <2>3, <3>1, LedgerFrees
  <2> QED  BY <1>1, <2>4 DEF Balanced
<1> QED  BY <1>2, <1>3 DEF Frees

\* Nothing is freed, and an mbuf is forgotten, or none.
LEMMA BalancedForgets ==
  ASSUME Covered(Mine, zone, frees, Len(pkts)), UNCHANGED <<pkts, memory>>,
         NEW O \in SUBSET Mine, Owns(O, KeptSet', Pending', queue')
  PROVE  Balanced'
<1>1. O = Mine'  BY DEF Owns, Mine
<1>2. Covered(O, zone, frees, Len(pkts))  BY DEF Covered
<1> QED  BY <1>1, <1>2 DEF Balanced, Ledger

\* An entry loses some of its mbufs.
LEMMA Forget ==
  ASSUME NEW H, NEW K, NEW P, NEW Q, Owns(H, K, P, Q),
         NEW e \in Q, NEW f, f.mbufs \subseteq e.mbufs
  PROVE  Owns(H \ (e.mbufs \ f.mbufs), K, P, (Q \ {e}) \cup {f})
<1> DEFINE R == Q \ {e}
           D == e.mbufs \ f.mbufs
<1>1. Chained(Q) = e.mbufs \cup Chained(R)  BY DEF Chained
<1>2. Chained(R \cup {f}) = Chained(R) \cup f.mbufs  BY DEF Chained
<1>3. e.mbufs \cap Chained(R) = {} /\ e.mbufs \cap (K \cup P) = {}  BY DEF Chained, Owns
<1>4. H \ D = K \cup P \cup Chained(R \cup {f})  BY <1>1, <1>2, <1>3 DEF Owns
<1>5. \A x \in R : x.mbufs \cap f.mbufs = {}  BY DEF Owns
<1>6. f.mbufs \cap (K \cup P) = {}  BY <1>3
<1> QED  BY <1>4, <1>5, <1>6 DEF Owns

\* A test that reports nothing in a step was clear before it.
LEMMA ClearBefore ==
  ASSUME IInv, [Next]_vars, wrong', Clear'
  PROVE  /\ Clear /\ failed \subseteq failed' /\ "assert" \notin failed
         /\ wrong \/ (Errs /\ ~wrong)
<1>0. ~\E v \in DOMAIN Scripts : \E name \in DOMAIN Scripts[v] : SetUp(name, v)  BY DEF SetUp
<1>1. failed \subseteq failed'  BY <1>0, MockSteps DEF getmicrotime, SetExpectation
<1>2. Distinct
  <2>1. pkts' = pkts \/ Generate
    BY <1>0, NextCases, WorkingFrame DEF IInv, FlushDone, Assert, Return, TearDown,
       TestCaseTearDown, SetExpectation, CallMockSequence, EnableForwardingStep, SetIfMtuStep,
       FreeStep, vars
  <2>2. CASE pkts' = pkts  BY <2>2 DEF Clear, Distinct
  <2>3. CASE Generate
    <3>1. PICK S : pkts \in Seq(S)  BY DEF IInv, Shape, IsSeq
    <3>2. pkts \in Seq(S \cup {Step.pkt}) /\ Step.pkt \in S \cup {Step.pkt}  BY <3>1
    <3>3. pkts' = Append(pkts, Step.pkt)  BY <2>3 DEF Generate
    <3>4. /\ Len(pkts) \in Nat /\ Len(pkts') = Len(pkts) + 1
          /\ \A k \in 1..Len(pkts) : pkts'[k] = pkts[k]
      BY <3>2, <3>3
    <3>5. \A k \in 1..Len(pkts) : k \in 1..Len(pkts')  BY <3>4
    <3> QED  BY <3>4, <3>5 DEF Clear, Distinct
  <2> QED  BY <2>1, <2>2, <2>3
<1>3. ret = "none" \/ ret = Step.ret
  <2>1. CASE arg = 0  BY <2>1 DEF IInv, InCall
  <2>2. CASE Assert  BY <2>2 DEF Assert, Clear
  <2>3. CASE Working /\ arg # 0
    <3>1. ~FlushErr  BY <2>3 DEF FlushErr, Flushing, At, IInv, InCall
    <3>2. UNCHANGED <<at, test>>  BY <2>3, <3>1, WorkingFrame DEF IInv
    <3>3. Step' = Step  BY <3>2 DEF Step, Function
    <3>4. ret = "none" \/ ret' = ret
      BY <2>3 DEF Working, Errs, Rx, RxRefuse, RxFlush, RxQueue, RxAbsorb, RxAppend, RxFill, RxErr,
                  EntryErr, FreeErr, FlushErr, ReadClock, FlushOne, Calling
    <3> QED  BY <3>3, <3>4 DEF Clear
  <2>4. CASE UNCHANGED vars
    <3>1. UNCHANGED <<ret, at, test>>  BY <2>4 DEF vars
    <3> QED  BY <3>1 DEF Clear, Step, Function
  <2>5. arg = 0 \/ Assert \/ Working \/ UNCHANGED vars
    BY <1>0, NextCases DEF FlushDone, Flushing, Generate, At, InBody, IInv, InCall, Return, TearDown,
       TestCaseTearDown, SetExpectation, CallMockSequence, EnableForwardingStep, SetIfMtuStep,
       FreeStep
  <2> QED  BY <2>1, <2>2, <2>3, <2>4, <2>5
<1>4. wrong \/ (Errs /\ ~wrong)
  <2>1. wrong' = wrong \/ Errs
    BY <1>0, NextCases DEF Working, Rx, RxRefuse, RxFlush, RxQueue, RxAbsorb, RxAppend, RxFill,
       ReadClock, FlushOne, FlushDone, Generate, Assert, Return, TearDown, TestCaseTearDown,
       SetExpectation, CallMockSequence, EnableForwardingStep, SetIfMtuStep, FreeStep, vars
  <2> QED  BY <2>1
<1> QED  BY <1>1, <1>2, <1>3, <1>4 DEF Clear

\* Once the code under test has made its mistake, everyone frees what he owns.
LEMMA BooksKept ==
  ASSUME IInv, TInv, AInv, Books, [Next]_vars, wrong, wrong', Clear'
  PROVE  Balanced'
<1> USE DEF IInv, TInv
<1>0. /\ Clear /\ failed \subseteq failed' /\ "assert" \notin failed
      /\ Balanced /\ ~Errs
  BY ClearBefore DEF Books, Errs, RxErr, EntryErr, FreeErr, FlushErr, Err
<1>1. PICK O : O = Mine  OBVIOUS
<1>2. /\ Owns(O, KeptSet, Pending, queue) /\ Ledger(Mine, zone, frees, Len(pkts))
  BY <1>0, <1>1 DEF Balanced
<1>3. arg = 0 => ret = "none" /\ Pending = {}  BY DEF InCall, Pending
\* Nothing is freed and nothing changes hands.
<1>4. ASSUME UNCHANGED <<pkts, memory, queue>>, KeptSet' = KeptSet, Pending' = Pending
      PROVE  Balanced'
  <2>1. {} \in SUBSET O /\ Frees({}) /\ O \ {} = O  BY <1>4 DEF Frees
  <2> QED  BY <1>1, <1>2, <1>4, <2>1, BalancedFrees
<1>5. CASE Rx
  <2>1. UNCHANGED <<pkts, arg, program, at, kept>> /\ Calling
    <3>1. Calling
      BY <1>5 DEF Rx, RxRefuse, RxFlush, RxQueue, RxAbsorb, RxAppend, RxFill
    <3>2. ~FlushErr  BY <3>1 DEF Calling, FlushErr, Flushing, At
    <3> QED  BY <1>5, <3>1, <3>2, WorkingFrame DEF Working
  <2>2. Step' = Step /\ KeptSet' = KeptSet  BY <2>1 DEF Step, Function, KeptSet
  <2>3. ret' # "none"
    BY <1>5 DEF Rx, RxRefuse, RxFlush, RxQueue, RxAbsorb, RxAppend, RxFill, Returns, ErrorOf,
                Taken, TCP_LRO_CANNOT, TCP_LRO_NOT_SUPPORTED
  <2>4. ret' = Step.ret  BY <2>2, <2>3 DEF Clear
  <2>5. /\ Pending = {arg} /\ Pending' = IF ret' = Taken THEN {} ELSE {arg}
        /\ Step.ret = Taken => {arg} \cap KeptSet = {}
    BY <2>1, Codes, StepTaken DEF Pending, Calling, InCall, KeptSet
  <2>6. Owns(O, KeptSet, {arg}, queue)  BY <1>2, <2>5
  <2>7. PICK S \in SUBSET O :
          /\ Frees(S)
          /\ Owns(O \ S, KeptSet, IF ret' = Taken THEN {} ELSE {arg}, queue')
    BY <1>5, <2>4, <2>5, <2>6, CallOwned
  <2>8. Owns(O \ S, KeptSet', Pending', queue')  BY <2>2, <2>5, <2>7
  <2> QED  BY <1>1, <1>2, <2>1, <2>7, <2>8, BalancedFrees
<1>6. CASE ReadClock \/ FlushDone \/ SetExpectation \/ CallMockSequence \/ EnableForwardingStep
            \/ SetIfMtuStep \/ UNCHANGED vars
  <2>1. UNCHANGED <<pkts, memory, queue, kept, arg, ret>>
    BY <1>6 DEF ReadClock, FlushDone, SetExpectation, CallMockSequence, EnableForwardingStep,
                SetIfMtuStep, vars
  <2> QED  BY <1>4, <2>1 DEF KeptSet, Pending
<1>7. CASE FlushOne
  <2>1. PICK e \in queue : m_freem(e.mbufs) /\ queue' = queue \ {e}
    BY <1>7 DEF FlushOne, Due, Expired, PassOn, IfInput
  <2>2. UNCHANGED <<pkts, kept, arg, ret>>  BY <1>7 DEF FlushOne
  <2>3. KeptSet' = KeptSet /\ Pending' = Pending  BY <2>2 DEF KeptSet, Pending
  <2>4. Owns(O \ e.mbufs, KeptSet, Pending, queue \ {e})  BY <1>2, Leave
  <2>5. e.mbufs \in SUBSET O /\ Frees(e.mbufs)  BY <1>2, <2>1 DEF Owns, Chained, Frees
  <2>6. Owns(O \ e.mbufs, KeptSet', Pending', queue')  BY <2>1, <2>3, <2>4
  <2> QED  BY <1>1, <1>2, <2>2, <2>5, <2>6, BalancedFrees
<1>8. CASE Assert
  <2>1. /\ ret = Step.ret /\ UNCHANGED <<pkts, memory, queue, kept>> /\ arg' = 0 /\ ret' = "none"
        /\ arg # 0 /\ At("rx")
    BY <1>8 DEF Assert, Clear, InCall
  <2>2. Pending \subseteq KeptSet
    <3>1. ret # Taken => kept = arg  BY <2>1, StepTaken DEF InCall
    <3> QED  BY <3>1 DEF Pending, KeptSet
  <2>3. KeptSet' = KeptSet /\ Pending' = {}  BY <2>1 DEF KeptSet, Pending
  <2>4. Owns(O, KeptSet, {}, queue)  BY <1>2, <2>2 DEF Owns
  <2>5. {} \in SUBSET O /\ Frees({}) /\ Owns(O \ {}, KeptSet', Pending', queue')
    <3>1. O \ {} = O  OBVIOUS
    <3> QED  BY <2>1, <2>3, <2>4, <3>1 DEF Frees
  <2> QED  BY <1>1, <1>2, <2>1, <2>5, BalancedFrees
<1>9. CASE Return
  <2>1. arg = 0 /\ m_freem(KeptSet) /\ kept' = 0 /\ UNCHANGED <<pkts, queue, arg, ret>>
    BY <1>9 DEF Return, At, InCall
  <2>2. KeptSet' = {} /\ Pending = {} /\ Pending' = {}
    BY <1>3, <2>1 DEF KeptSet, Pending
  <2>3. PICK K : K = KeptSet  OBVIOUS
  <2>4. Owns(O, K, {}, queue)  BY <1>2, <2>2, <2>3
  <2>5. Owns(O \ K, {}, {}, queue)  BY <2>4, Reset
  <2>6. K \in SUBSET O /\ Frees(K) /\ Owns(O \ K, KeptSet', Pending', queue')
    BY <2>1, <2>2, <2>3, <2>4, <2>5 DEF Owns, Frees
  <2> QED  BY <1>1, <1>2, <2>1, <2>6, BalancedFrees
<1>10. CASE TestCaseTearDown \/ FreeStep
  <2>1. /\ UNCHANGED <<pkts, kept, arg, ret>>
        /\ \/ m_freem(Chained(queue)) /\ queue' = {}
           \/ UNCHANGED <<queue, memory>>
    BY <1>10 DEF TestCaseTearDown, FreeStep, tcp_lro_free, Chained
  <2>2. KeptSet' = KeptSet /\ Pending' = Pending  BY <2>1 DEF KeptSet, Pending
  <2>3. CASE m_freem(Chained(queue)) /\ queue' = {}
    <3>1. PICK C : C = Chained(queue)  OBVIOUS
    <3>2. Owns(O \ C, KeptSet, Pending, {})  BY <1>2, <3>1, Drain
    <3>3. C \in SUBSET O /\ Frees(C) /\ Owns(O \ C, KeptSet', Pending', queue')
      BY <1>2, <2>2, <2>3, <3>1, <3>2 DEF Owns, Frees
    <3> QED  BY <1>1, <1>2, <2>1, <3>3, BalancedFrees
  <2>4. CASE UNCHANGED <<queue, memory>>  BY <1>4, <2>1, <2>2, <2>4
  <2> QED  BY <2>1, <2>3, <2>4
<1>11. CASE TearDown
  <2>1. UNCHANGED <<pkts, queue, frees, kept, arg, ret>> /\ zone' = uma_zdestroy(zone)
    BY <1>11 DEF TearDown
  <2>2. Mine' = Mine /\ KeptSet' = KeptSet /\ Pending' = Pending
    BY <2>1 DEF Mine, KeptSet, Pending
  <2>3. zone'.held = zone.held /\ zone'.alloced = zone.alloced /\ zone.fails \subseteq zone'.fails
    BY <2>1, ZdestroyFields DEF Stored
  <2>4. Ledger(O, zone, frees, Len(pkts))  BY <1>1, <1>2
  <2>5. Ledger(O, zone', frees, Len(pkts))
    <3>1. CASE Covered(O, zone, frees, Len(pkts))  BY <2>3, <3>1 DEF Ledger, Covered
    <3>2. CASE Short(O, zone, Len(pkts))  BY <2>3, <3>2 DEF Ledger, Short
    <3> QED  BY <2>4, <3>1, <3>2 DEF Ledger
  <2> QED  BY <1>1, <1>2, <2>1, <2>2, <2>5 DEF Balanced
<1>12. CASE Generate
  <2> DEFINE n == Len(pkts)
  <2>1. PICK m : m = n + 1  OBVIOUS
  <2>2. PICK z : z = uma_zalloc_arg(zone, m)  OBVIOUS
  <2>3. /\ arg = 0 /\ arg' = m /\ UNCHANGED <<queue, ret>>
        /\ \/ zone' = z /\ UNCHANGED <<kept, frees>>
           \/ /\ kept' = m
              /\ zone' = IF kept = 0 THEN z ELSE uma_zfree_arg(z, kept)
              /\ frees' = [i \in Items |-> frees[i] + (IF i = kept THEN 1 ELSE 0)]
    BY <1>12, <2>1, <2>2 DEF Generate
  <2>4. n \in Nat /\ Len(pkts') = m /\ O \in SUBSET (1..n) /\ zone \in Zone
        /\ 1..n \subseteq Items
    BY <1>1, <1>12, <2>1, Longer, MineBelow DEF Generate, Shape
  <2>5. /\ 1..m \subseteq Items /\ m \in Items /\ m \notin O /\ m # 0 /\ m \notin 1..n /\ m # kept
        /\ m \in 1..m /\ 1..n \subseteq 1..m
    <3>1. m <= MaxMbufs /\ Items = 1..MaxMbufs /\ MaxMbufs \in Nat
      <4>1. Len(pkts') <= MaxMbufs
        BY <1>12, CountedStep, ShapeStep, PlacedStep, InCallStep, OwnedStep DEF Counted, IInv
      <4> QED  BY <2>4, <4>1, HarnessAssumption
    <3>2. m \notin 1..n /\ m # 0 /\ m # kept  BY <2>1, <2>4 DEF Shape
    <3> QED  BY <2>1, <2>4, <3>1, <3>2
  <2>6. Ledger(O, zone, frees, n)  BY <1>1, <1>2
  <2>7. frees[m] = 0
    <3>1. m > Len(pkts)  BY <2>1, <2>4
    <3> QED  BY <2>5, <3>1 DEF Loaded
  <2>8. Ledger(O \cup {m}, z, frees, m)  BY <2>1, <2>2, <2>4, <2>5, <2>6, <2>7, LedgerLends
  <2>9. ret' = "none" /\ Pending = {} /\ Pending' = {m}
    BY <1>3, <2>3, <2>5, Codes DEF Pending
  <2>10. PICK K : K = KeptSet  OBVIOUS
  <2>11. Owns(O, K, {}, queue)  BY <1>2, <2>9, <2>10
  <2>12. /\ Owns(O \cup {m}, K, {m}, queue) /\ Owns((O \cup {m}) \ K, {m}, {m}, queue)
    BY ONLY <2>5, <2>11, Allocate
  <2>13. CASE zone' = z /\ UNCHANGED <<kept, frees>>
    <3>1. KeptSet' = K  BY <2>10, <2>13 DEF KeptSet
    <3>2. Owns(O \cup {m}, KeptSet', Pending', queue')  BY <2>3, <2>9, <2>12, <3>1
    <3>3. Mine' = O \cup {m}  BY <3>2 DEF Owns, Mine
    <3> QED  BY <2>4, <2>8, <2>13, <3>2, <3>3 DEF Balanced
  <2>14. CASE /\ kept' = m
              /\ zone' = IF kept = 0 THEN z ELSE uma_zfree_arg(z, kept)
              /\ frees' = [i \in Items |-> frees[i] + (IF i = kept THEN 1 ELSE 0)]
    <3>1. KeptSet' = {m}  BY <2>5, <2>14 DEF KeptSet
    <3>2. Owns((O \cup {m}) \ K, KeptSet', Pending', queue')  BY <2>3, <2>9, <2>12, <3>1
    <3>3. Mine' = (O \cup {m}) \ K  BY <3>2 DEF Owns, Mine
    <3>4. z \in Zone  BY <2>2, <2>4, <2>5, ZallocFields
    <3>5. ASSUME NEW i \in 1..m PROVE frees'[i] = frees[i] + One(i \in K)
      <4>1. i \in Items /\ i # 0  BY <2>4, <2>5
      <4>2. i \in K <=> i = kept  BY <2>10, <4>1 DEF KeptSet
      <4> QED  BY <2>14, <4>1, <4>2 DEF One
    <3>6. /\ zone'.held = z.held \ K
          /\ zone'.alloced = (z.alloced - Cardinality(K)) % CountMod
          /\ z.fails \subseteq zone'.fails
          /\ z.alloced >= Cardinality(K) \/ "extraFree" \in zone'.fails
      <4>1. CASE kept = 0
        <5>1. K = {} /\ Cardinality(K) = 0 /\ zone' = z
          BY <2>10, <2>14, <4>1, FS_EmptySet DEF KeptSet
        <5>2. z.alloced \in Nat /\ z.alloced < CountMod /\ CountMod \in Nat
          BY <3>4, ZoneAssumption DEF Zone
        <5>3. \A c \in Nat : c < CountMod => (c - 0) % CountMod = c  BY <5>2
        <5> QED  BY <5>1, <5>2, <5>3
      <4>2. CASE kept # 0
        <5>1. K = {kept} /\ Cardinality(K) = 1  BY <2>10, <4>2, FS_Singleton DEF KeptSet
        <5>2. kept \in Items  BY <2>4, <4>2 DEF Shape
        <5>3. zone' = uma_zfree_arg(z, kept)  BY <2>14, <4>2
        <5>4. z.alloced \in Nat  BY <3>4 DEF Zone
        <5> QED  BY <3>4, <5>1, <5>2, <5>3, <5>4, ZfreeFields
      <4> QED  BY <4>1, <4>2
    <3>7. Ledger((O \cup {m}) \ K, zone', frees', m)
      <4>1. m \in Nat /\ O \cup {m} \in SUBSET (1..m) /\ K \in SUBSET (O \cup {m})
        <5>1. K \subseteq O  BY <2>11 DEF Owns
        <5>2. m \in Nat  BY <2>1, <2>4
        <5>3. O \subseteq 1..m /\ m \in 1..m  BY <2>4, <2>5
        <5> QED  BY <5>1, <5>2, <5>3
      <4> QED  BY <2>5, <2>8, <3>4, <3>5, <3>6, <4>1, LedgerFrees
    <3> QED  BY <2>4, <3>2, <3>3, <3>7 DEF Balanced
  <2> QED  BY <2>3, <2>13, <2>14
<1>13. ~\E v \in DOMAIN Scripts : \E name \in DOMAIN Scripts[v] : SetUp(name, v)
  BY DEF SetUp
<1> QED
  BY <1>0, <1>5, <1>6, <1>7, <1>8, <1>9, <1>10, <1>11, <1>12, <1>13, NextCases DEF Working

\* That LRO passes on the packet it refuses in place of what it has queued is
\* reported, because nobody waits for that packet.
LEMMA NotRefused ==
  ASSUME IInv, TInv, AInv, Asked, Sent, Calling, Behaves, Distinct, Step.ret # Taken,
         Handling(gm, "if_input", Read(Pkt, {arg})) # {}
  PROVE  FALSE
<1> USE DEF IInv, TInv
<1>1. At("rx") /\ arg # 0 /\ ret = "none" /\ phase = "body"
  BY DEF Calling, At, InBody
<1>2. zone.held = Mine  BY <1>1, BalancedBefore
<1>3. Read(Pkt, {arg}) = Pkt
  <2>1. arg \in Mine  BY <1>1, Codes DEF Mine, Pending
  <2> QED  BY <1>2, <2>1 DEF Read
<1>4. PICK i \in Handling(gm, "if_input", Pkt) : TRUE  BY <1>3
<1>5. i \in DOMAIN gm /\ gm[i].fn = "if_input" /\ gm[i].arg = Pkt
  BY <1>4 DEF Handling, Handles
<1>6. PICK y \in Behind("expect") : StepAt(y).fn = "if_input" /\ StepAt(y).arg = Pkt
  <2>1. PICK by \in [DOMAIN gm -> Behind("expect")] :
          \A j \in DOMAIN gm : LET s == StepAt(by[j]) IN s.fn = gm[j].fn /\ s.arg = gm[j].arg
    BY <1>1 DEF Asked
  <2> QED  BY <1>5, <2>1
<1>7. arg = Len(pkts) /\ Pkt = Step.pkt  BY <1>1 DEF Sent, Pkt
<1>8. Step = StepAt(at)  BY DEF Step, Function, StepAt, Script
<1>9. /\ IsTest(Script) /\ at \in StepsIn(Script, "rx") /\ y \in StepsIn(Script, "expect")
  BY <1>1, <1>6, StepsAre DEF Behind, StepsOf, Script
<1>10. PICK x \in StepsIn(Script, "rx") : Precedes(x, at) /\ StepAt(x).pkt = Step.pkt
  <2>1. RefusedStay(Script)  BY <1>9 DEF IsTest
  <2>2. /\ Script[at.fn][at.pc].ret # Taken
        /\ Script[y.fn][y.pc].fn = "if_input"
        /\ Script[y.fn][y.pc].arg = Script[at.fn][at.pc].pkt
    BY <1>6, <1>7, <1>8 DEF StepAt
  <2>3. \E x \in StepsIn(Script, "rx") :
          Precedes(x, at) /\ Script[x.fn][x.pc].pkt = Script[at.fn][at.pc].pkt
    BY <1>9, <2>1, <2>2 DEF RefusedStay
  <2> QED  BY <1>8, <2>3 DEF StepAt
<1>11. x \in Behind("rx")  BY <1>10 DEF Behind, StepsOf, Script
<1>12. PICK k \in 1..Len(pkts) : k # arg /\ pkts[k] = Step.pkt
  BY <1>1, <1>10, <1>11 DEF Sent, Behaves
<1>13. arg \in 1..Len(pkts) /\ pkts[arg] = Step.pkt  BY <1>1, <1>7 DEF Shape, Pkt
<1> QED  BY <1>12, <1>13 DEF Distinct

\* The mistake: what it leaves behind is on the books.
LEMMA BooksMistake ==
  ASSUME IInv, TInv, AInv, Asked, Sent, [Next]_vars, Errs, ~wrong, wrong', Clear'
  PROVE  Balanced'
<1> USE DEF IInv, TInv
<1>0. Clear /\ failed \subseteq failed' /\ Behaves  BY ClearBefore DEF Behaves
<1>1. /\ Owns(Mine, KeptSet, Pending, queue) /\ zone.held = Mine /\ Account
      /\ Covered(Mine, zone, frees, Len(pkts))
  BY <1>0, BalancedBefore DEF Clear
<1>2. PICK O : O = Mine  OBVIOUS
<1>3. Owns(O, KeptSet, Pending, queue) /\ Ledger(Mine, zone, frees, Len(pkts))
  BY <1>1, <1>2 DEF Ledger
<1>4. UNCHANGED <<pkts, arg, kept>> /\ KeptSet' = KeptSet
  BY WorkingFrame DEF Working, KeptSet
<1>5. ASSUME UNCHANGED <<memory, queue>>, Pending' = Pending
      PROVE  Balanced'
  <2>1. O \in SUBSET Mine /\ Owns(O, KeptSet', Pending', queue')  BY <1>2, <1>3, <1>4, <1>5
  <2> QED  BY <1>1, <1>4, <1>5, <2>1, BalancedForgets
<1>6. ASSUME NEW e \in queue, m_freem(e.mbufs), queue' = queue \ {e}, Pending' = Pending
      PROVE  Balanced'
  <2>1. Owns(O \ e.mbufs, KeptSet, Pending, queue \ {e})  BY <1>3, Leave
  <2>2. e.mbufs \in SUBSET O /\ Frees(e.mbufs)  BY <1>3, <1>6 DEF Owns, Chained, Frees
  <2>3. Owns(O \ e.mbufs, KeptSet', Pending', queue')  BY <1>4, <1>6, <2>1
  <2> QED  BY <1>2, <1>3, <1>4, <2>2, <2>3, BalancedFrees
<1>7. CASE RxErr
  <2>1. Calling /\ ret' # "none" /\ UNCHANGED <<at, test>>
    BY <1>7 DEF RxErr, Returns, Taken, TCP_LRO_CANNOT
  <2>2. Step' = Step  BY <2>1 DEF Step, Function
  <2>3. ret' = Step.ret /\ Pending = {arg}  BY <2>1, <2>2, Codes DEF Clear, Pending, Calling
  <2>4. CASE ret' = TCP_LRO_CANNOT /\ UNCHANGED <<memory, queue>>
    <3>1. Pending' = Pending  BY <1>4, <2>1, <2>3, <2>4, Codes DEF Pending, Calling
    <3> QED  BY <1>5, <2>4, <3>1
  <2>5. CASE ret' = TCP_LRO_CANNOT /\ IfInput(gm, Read(Pkt, {arg}), {arg})
    <3>1. Handling(gm, "if_input", Read(Pkt, {arg})) # {}
      BY <2>5 DEF IfInput, CallFailures, Clear
    <3>2. Step.ret # Taken  BY <2>3, <2>5, Codes
    <3> QED  BY <1>0, <2>1, <3>1, <3>2, NotRefused DEF Clear
  <2>6. CASE /\ ret' = Taken /\ UNCHANGED memory
             /\ queue' = queue \cup {[pkt |-> Pkt, mbufs |-> {arg}, mtime |-> Garbage]}
    <3> DEFINE f == [pkt |-> Pkt, mbufs |-> {arg}, mtime |-> Garbage]
    <3>1. f.mbufs = Pending /\ queue' = queue \cup {f} /\ Pending' = {}
      BY <2>3, <2>6 DEF Pending
    <3>2. Pending \cap KeptSet = {}
      BY <2>1, <2>3, <2>6, StepTaken DEF Calling, InCall, KeptSet
    <3> HIDE DEF f
    <3>3. PICK P : P = Pending  OBVIOUS
    <3>4. Owns(O, KeptSet, {}, queue \cup {f})
      <4>1. Owns(O, KeptSet, P, queue) /\ f.mbufs = P /\ P \cap KeptSet = {}
        BY <1>3, <3>1, <3>2, <3>3
      <4> QED  BY <4>1, Join
    <3>5. O \in SUBSET Mine /\ Owns(O, KeptSet', Pending', queue')
      BY <1>2, <1>4, <3>1, <3>4
    <3> QED  BY <1>1, <1>4, <2>6, <3>5, BalancedForgets
  <2> QED  BY <1>7, <2>4, <2>5, <2>6 DEF RxErr, Returns
<1>8. CASE EntryErr
  <2>1. UNCHANGED <<arg, ret>>  BY <1>8 DEF EntryErr
  <2>2. Pending' = Pending  BY <2>1 DEF Pending
  <2>3. PICK e \in queue :
          \/ m_freem(e.mbufs) /\ queue' = queue \ {e}
          \/ queue' = queue \ {e} /\ UNCHANGED memory
          \/ /\ UNCHANGED memory
             /\ \E m \in e.mbufs : queue' = (queue \ {e}) \cup {[e EXCEPT !.mbufs = @ \ {m}]}
          \/ /\ UNCHANGED memory
             /\ queue' = (queue \ {e}) \cup {[e EXCEPT !.pkt.pay = Tail(@) \o <<-2>>]}
    BY <1>8 DEF EntryErr, PassOn, IfInput
  <2>4. CASE m_freem(e.mbufs) /\ queue' = queue \ {e}  BY <1>6, <2>2, <2>4
  <2>5. CASE queue' = queue \ {e} /\ UNCHANGED memory
    <3>1. Owns(O \ e.mbufs, KeptSet, Pending, queue \ {e})  BY <1>3, Leave
    <3>2. O \ e.mbufs \in SUBSET Mine /\ Owns(O \ e.mbufs, KeptSet', Pending', queue')
      BY <1>2, <1>4, <2>2, <2>5, <3>1
    <3> QED  BY <1>1, <1>4, <2>5, <3>2, BalancedForgets
  <2>6. ASSUME UNCHANGED memory, NEW f, f.mbufs \subseteq e.mbufs,
               queue' = (queue \ {e}) \cup {f}
        PROVE  Balanced'
    <3> DEFINE G == O \ (e.mbufs \ f.mbufs)
    <3>1. Owns(G, KeptSet, Pending, (queue \ {e}) \cup {f})
      <4> QED  BY <1>3, <2>6, Forget
    <3>2. G \in SUBSET Mine /\ Owns(G, KeptSet', Pending', queue')
      BY <1>2, <1>4, <2>2, <2>6, <3>1
    <3> HIDE DEF G
    <3> QED  BY <1>1, <1>4, <2>6, <3>2, BalancedForgets
  <2>7. CASE /\ UNCHANGED memory
             /\ \E m \in e.mbufs : queue' = (queue \ {e}) \cup {[e EXCEPT !.mbufs = @ \ {m}]}
    <3>1. PICK m \in e.mbufs : queue' = (queue \ {e}) \cup {[e EXCEPT !.mbufs = @ \ {m}]}
      BY <2>7
    <3> DEFINE f == [e EXCEPT !.mbufs = @ \ {m}]
    <3>2. f.mbufs \subseteq e.mbufs /\ queue' = (queue \ {e}) \cup {f}
      BY <3>1 DEF Queued, IsEntry
    <3> HIDE DEF f
    <3> QED  BY <2>6, <2>7, <3>2
  <2>8. CASE /\ UNCHANGED memory
             /\ queue' = (queue \ {e}) \cup {[e EXCEPT !.pkt.pay = Tail(@) \o <<-2>>]}
    <3> DEFINE f == [e EXCEPT !.pkt.pay = Tail(@) \o <<-2>>]
    <3>1. f.mbufs \subseteq e.mbufs /\ queue' = (queue \ {e}) \cup {f}
      BY <2>8 DEF Queued, IsEntry
    <3> HIDE DEF f
    <3> QED  BY <2>6, <2>8, <3>1
  <2> QED  BY <2>3, <2>4, <2>5, <2>7, <2>8
<1>9. CASE FreeErr
  <2>1. PICK d \in 1..Len(pkts) : m_freem({d})  BY <1>9 DEF FreeErr
  <2>2. UNCHANGED <<queue, arg, ret>>  BY <1>9 DEF FreeErr
  <2>3. Mine' = Mine /\ Pending' = Pending  BY <1>4, <2>2 DEF Mine, Pending
  <2> DEFINE H == zone.held
  <2>4. /\ H \in SUBSET Items /\ zone.alloced = Cardinality(H) /\ zone.alloced \in Nat
        /\ H = O /\ zone.fails \in SUBSET Failures /\ d \in Items
    BY <1>1, <1>2, MineBelow DEF Covered, Zone
  <2>5. /\ zone'.held = H \ {d}
        /\ zone'.alloced = (zone.alloced - Cardinality({d})) % CountMod
        /\ zone.alloced >= Cardinality({d}) \/ "extraFree" \in zone'.fails
    BY <2>1, MineBelow DEF m_freem, Zone
  <2>6. ASSUME "extraFree" \notin zone'.fails
        PROVE  zone'.alloced + One(d \notin O) = Cardinality(zone'.held)
    <3>1. Cardinality({d}) = 1  BY FS_Singleton
    <3>2. zone.alloced >= 1  BY <2>5, <2>6, <3>1
    <3>3. zone'.alloced = zone.alloced - 1
      <4>1. zone.alloced < CountMod  BY <2>4, HeldSize
      <4> QED  BY <2>4, <2>5, <3>1, <3>2, <4>1, CountDown
    <3>4. CASE d \in O
      <4>1. Cardinality(H \ {d}) = Cardinality(H) - 1  BY <2>4, <3>4, HeldSize
      <4>2. One(d \notin O) = 0  BY <3>4 DEF One
      <4> HIDE DEF H
      <4> QED  BY <2>4, <2>5, <3>3, <4>1, <4>2
    <3>5. CASE d \notin O
      <4>1. H \ {d} = H /\ One(d \notin O) = 1  BY <2>4, <3>5 DEF One
      <4>2. Cardinality(zone'.held) = zone.alloced  BY <2>4, <2>5, <4>1
      <4> QED  BY <2>4, <3>3, <4>1, <4>2
    <3> QED  BY <3>4, <3>5
  <2>7. Short(O, zone', Len(pkts))
    <3>1. d \in (1..Len(pkts)) \ zone'.held /\ zone'.held = O \ {d}  BY <2>4, <2>5
    <3> QED  BY <2>6, <3>1 DEF Short
  <2> QED  BY <1>2, <1>3, <1>4, <2>2, <2>3, <2>7 DEF Balanced, Ledger
<1>10. CASE FlushErr
  <2>1. UNCHANGED <<memory, queue, arg, ret>>  BY <1>10 DEF FlushErr
  <2> QED  BY <1>5, <2>1 DEF Pending
<1> QED  BY <1>7, <1>8, <1>9, <1>10 DEF Errs

\* The books balance in every step.
LEMMA BooksStep ==
  ASSUME IInv, TInv, AInv, Asked, Sent, Books, [Next]_vars
  PROVE  Books'
<1> SUFFICES ASSUME wrong', Clear' PROVE Balanced'  BY DEF Books
<1> QED  BY ClearBefore, BooksKept, BooksMistake

\* There are no books before the first test.
LEMMA BooksInit == Init => Asked /\ Sent /\ Told /\ Books
BY DEF Init, Asked, Sent, Told, Books, Over

\* When the test is over nobody owns an mbuf, and the books show what is missing.
LEMMA BooksClose == IInv /\ TInv /\ AInv /\ Books /\ Told => GreenIsClean
<1> SUFFICES ASSUME IInv, TInv, AInv, Books, Told, Green, Distinct
             PROVE  \A m \in 1..Len(pkts) : frees[m] = 1
  BY DEF GreenIsClean
<1>1. phase = "over" /\ failed = {}  BY DEF Green, Over
<1>2. ret = "none" /\ arg = 0  BY <1>1 DEF IInv, InCall, At, InBody
<1>3. kept = 0 /\ queue = {}  BY <1>1 DEF AInv, Swept
<1>4. Mine = {}  BY <1>2, <1>3 DEF Mine, KeptSet, Pending, Chained
<1>5. Ledger({}, zone, frees, Len(pkts))
  <2>1. CASE wrong
    <3>1. Clear  BY <1>1, <1>2 DEF Clear
    <3> QED  BY <1>4, <2>1, <3>1 DEF Books, Balanced
  <2>2. CASE ~wrong
    <3>1. Behaves  BY <1>1, <2>2 DEF Behaves
    <3> QED  BY <1>2, <1>4, <3>1, BalancedBefore DEF Ledger
  <2> QED  BY <2>1, <2>2
<1>6. zone \in Zone /\ zone.fails = {} /\ zone.alloced = 0
  BY <1>1, MineBelow DEF Told, Over
<1>7. ~Short({}, zone, Len(pkts))
  <2> SUFFICES ASSUME NEW d \in 1..Len(pkts), zone.held = {} \ {d},
                      zone.alloced + One(d \notin {}) = Cardinality(zone.held)
               PROVE  FALSE
    BY <1>6 DEF Short
  <2>1. Cardinality(zone.held) = 0  BY FS_EmptySet
  <2>2. One(d \notin {}) = 1  BY DEF One
  <2> QED  BY <1>6, <2>1, <2>2
<1>8. Covered({}, zone, frees, Len(pkts))  BY <1>5, <1>7 DEF Ledger
<1>9. zone.held = {}
  <2>1. zone.held \in SUBSET Items /\ Cardinality(zone.held) = 0  BY <1>6, <1>8 DEF Covered, Zone
  <2> QED  BY <2>1, HeldSize
<1> QED  BY <1>8, <1>9 DEF Covered, One

\* Whatever the tests, as long as none of them waits for a packet that it expects
\* to be refused, and whatever the one mistake of the code under test and whenever
\* it is made: a test whose packets all differ and that reports nothing has freed
\* every mbuf exactly once, although the zone only counts (tcp_lro.gtest.cpp:84,
\* uma.cpp, MbufUniquePtr.h:36, MockUpperIfnet.cpp:46).
THEOREM GreenFreesOnce == Spec => []GreenIsClean
<1>1. /\ IInv /\ TInv /\ AInv /\ Asked /\ Sent /\ Told /\ Books /\ [Next]_vars
      => IInv' /\ TInv' /\ AInv' /\ Asked' /\ Sent' /\ Told' /\ Books'
  <2> SUFFICES ASSUME IInv, TInv, AInv, Asked, Sent, Told, Books, [Next]_vars
               PROVE  IInv' /\ TInv' /\ AInv' /\ Asked' /\ Sent' /\ Told' /\ Books'
    OBVIOUS
  <2>1. IInv'  BY ShapeStep, PlacedStep, InCallStep, OwnedStep DEF IInv
  <2>2. TInv'  BY <2>1, TStep
  <2>3. AInv'  BY <2>1, <2>2, AccountedStep, SweptStep DEF AInv
  <2>4. Asked' /\ Sent' /\ Told'  BY <2>1, AskedStep, SentStep, ToldStep DEF TInv
  <2>5. Books'  BY BooksStep
  <2> QED  BY <2>1, <2>2, <2>3, <2>4, <2>5
<1> QED  BY InitInv, TInit, AInit, BooksInit, <1>1, BooksClose, PTL DEF Spec

-----------------------------------------------------------------------------
(* The moment of a flush. What if_input waits for takes as many calls as   *)
(* the test has steps that make one: all of them are behind.               *)

\* The expectations of fn that were met.
Met(es, fn) == {i \in DOMAIN es : es[i].fn = fn /\ es[i].called}

\* Every call that met an expectation was made in a step of its own.
Paid ==
  phase = "body" =>
    /\ Cardinality(Met(gm, "MockSequence")) <= Cardinality(Behind("MockSequence"))
    /\ Cardinality(Met(gm, "getmicrotime"))
         <= Cardinality(Behind("rx")) + Cardinality(Behind("flush_inactive"))
            + One(ret # "none" \/ now # <<>>)
    /\ now # <<>> => At("flush_inactive")

\* A call meets one more expectation of its function at most, and a new expectation
\* is not met.
LEMMA MetGrows ==
  ASSUME NEW es, Stated(es), NEW fn, NEW x, NEW f
  PROVE  LET M == Met(es, f)
             N == Met(Called(es, fn, x), f)
         IN  /\ IsFiniteSet(M) /\ Cardinality(M) \in Nat /\ Cardinality(N) \in Nat
             /\ Cardinality(N) <= Cardinality(M) + 1
             /\ f # fn => N = M
<1> DEFINE M == Met(es, f)
           c == Called(es, fn, x)
           N == Met(c, f)
           h == Handler(es, fn, x)
<1>1. IsFiniteSet(M)
  <2>1. IsFiniteSet(1..Len(es))  BY FS_Interval DEF Stated
  <2>2. M \in SUBSET (1..Len(es))  BY DEF Met, Stated
  <2> QED  BY <2>1, <2>2, FS_Subset
<1>2. /\ DOMAIN c = DOMAIN es
      /\ \A i \in DOMAIN es :
           /\ c[i].fn = es[i].fn
           /\ Handling(es, fn, x) = {} => c[i] = es[i]
           /\ Handling(es, fn, x) # {} => (c[i].called <=> (es[i].called \/ i = h))
  BY CalledFields
<1>3. CASE Handling(es, fn, x) = {}
  <2>1. N = M  BY <1>2, <1>3 DEF Met
  <2> HIDE DEF M, N
  <2>2. Cardinality(M) \in Nat  BY <1>1, FS_CardinalityType
  <2> QED  BY <1>1, <2>1, <2>2 DEF M, N
<1>4. CASE Handling(es, fn, x) # {}
  <2>1. h \in DOMAIN es /\ es[h].fn = fn  BY <1>4, HandlerExists DEF Handling, Handles
  <2> HIDE DEF c, h
  <2>2. N \subseteq M \cup {h}
    <3> SUFFICES ASSUME NEW i \in N, i # h PROVE i \in M  OBVIOUS
    <3>1. i \in DOMAIN es /\ c[i].fn = f /\ c[i].called  BY <1>2 DEF Met
    <3>2. es[i].called  BY <1>2, <1>4, <3>1
    <3> QED  BY <1>2, <3>1, <3>2 DEF Met
  <2>3. f # fn => N = M
    <3> SUFFICES ASSUME f # fn PROVE N = M  OBVIOUS
    <3>1. h \notin N /\ h \notin M  BY <1>2, <2>1 DEF Met
    <3>2. ASSUME NEW i \in M PROVE i \in N
      <4>1. i \in DOMAIN es /\ es[i].fn = f /\ es[i].called  BY DEF Met
      <4>2. c[i].called /\ c[i].fn = f  BY <1>2, <1>4, <4>1
      <4> QED  BY <1>2, <4>1, <4>2 DEF Met
    <3> QED  BY <2>2, <3>1, <3>2
  <2> HIDE DEF M, N
  <2>4. IsFiniteSet(M \cup {h}) /\ Cardinality(M) \in Nat /\ Cardinality(M \cup {h}) \in Nat
        /\ Cardinality(M \cup {h}) <= Cardinality(M) + 1
    <3>1. Cardinality(M) \in Nat /\ IsFiniteSet(M \cup {h})
      BY <1>1, FS_AddElement, FS_CardinalityType
    <3>2. Cardinality(M \cup {h}) = Cardinality(M) \/ Cardinality(M \cup {h}) = Cardinality(M) + 1
      BY <1>1, FS_AddElement
    <3> QED  BY <3>1, <3>2
  <2>5. Cardinality(N) \in Nat /\ Cardinality(N) <= Cardinality(M \cup {h})
    BY <2>2, <2>4, FS_Subset, FS_CardinalityType
  <2>6. Cardinality(N) <= Cardinality(M) + 1  BY <2>4, <2>5
  <2> QED  BY <1>1, <2>3, <2>4, <2>5, <2>6 DEF M, N, c
<1> QED  BY <1>3, <1>4

\* A new expectation is not met yet.
LEMMA MetExpected ==
  ASSUME NEW es, Stated(es), NEW fn, NEW x, NEW seqs, fn = "getmicrotime" => x \in Timeval,
         NEW f
  PROVE  Met(Append(es, Expectation(es, fn, x, seqs)), f) = Met(es, f)
<1> DEFINE n == Len(es) + 1
           s == Append(es, Expectation(es, fn, x, seqs))
<1>1. /\ Stated(s) /\ Len(s) = n /\ s[n] = Expectation(es, fn, x, seqs)
      /\ \A i \in 1..Len(es) : s[i] = es[i]
  BY ExpectedStated
<1>2. Len(es) \in Nat /\ DOMAIN es = 1..Len(es) /\ DOMAIN s = 1..n  BY <1>1 DEF Stated
<1>3. ~s[n].called  BY <1>1 DEF Expectation
<1> HIDE DEF s
<1>4. ASSUME NEW i \in DOMAIN s PROVE i \in DOMAIN es \/ i = n  BY <1>2
<1>5. ASSUME NEW i \in DOMAIN es PROVE i \in DOMAIN s  BY <1>2
<1>6. Met(s, f) = Met(es, f)  BY <1>1, <1>2, <1>3, <1>4, <1>5 DEF Met
<1> QED  BY <1>6 DEF s

\* The expectations stay linked.
LEMMA LinkedStep ==
  ASSUME IInv, Stated(gm), Linked(gm), [Next]_vars
  PROVE  Linked(gm')
<1>1. ASSUME NEW fn, NEW x PROVE Linked(Called(gm, fn, x))
  <2> DEFINE c == Called(gm, fn, x)
  <2>1. /\ DOMAIN c = DOMAIN gm /\ DOMAIN gm = 1..Len(gm) /\ Len(gm) \in Nat
        /\ \A i \in DOMAIN gm : c[i].pre = gm[i].pre /\ c[i].seqs = gm[i].seqs
    BY CalledFields DEF Stated
  <2> HIDE DEF c
  <2>2. ASSUME NEW i \in DOMAIN gm, NEW j \in 1..(i - 1) PROVE j \in DOMAIN gm
    BY <2>1
  <2>3. ASSUME NEW i \in DOMAIN c
        PROVE  c[i].pre = {j \in 1..(i - 1) : c[j].seqs \cap c[i].seqs # {}}
    BY <2>1, <2>2 DEF Linked
  <2> QED  BY <2>3 DEF Linked, c
<1>2. ASSUME SetExpectation PROVE Linked(gm')
  <2> DEFINE n == Len(gm) + 1
  <2>1. /\ gm' = Append(gm, Expectation(gm, Step.fn, Step.arg, Step.seqs))
        /\ Step.fn = "getmicrotime" => Step.arg \in Timeval
    BY <1>2, StepStatesTime DEF SetExpectation, IInv
  <2>2. /\ Stated(gm') /\ Len(gm') = n /\ gm'[n] = Expectation(gm, Step.fn, Step.arg, Step.seqs)
        /\ \A i \in 1..Len(gm) : gm'[i] = gm[i]
    BY <2>1, ExpectedStated
  <2>3. Len(gm) \in Nat /\ DOMAIN gm = 1..Len(gm) /\ DOMAIN gm' = 1..n  BY <2>2 DEF Stated
  <2>4. gm'[n].seqs = Step.seqs
        /\ gm'[n].pre = {j \in 1..Len(gm) : gm[j].seqs \cap Step.seqs # {}}
    BY <2>2, <2>3 DEF Expectation, Prerequisites
  <2>5. ASSUME NEW i \in DOMAIN gm'
        PROVE  gm'[i].pre = {j \in 1..(i - 1) : gm'[j].seqs \cap gm'[i].seqs # {}}
    <3>1. CASE i = n
      <4>1. 1..(i - 1) = 1..Len(gm)  BY <2>3, <3>1
      <4> HIDE DEF n
      <4> QED  BY <2>2, <2>4, <3>1, <4>1
    <3>2. CASE i # n
      <4>1. i \in 1..Len(gm)  BY <2>3, <3>2
      <4>2. \A j \in 1..(i - 1) : j \in 1..Len(gm)  BY <2>3, <4>1
      <4>3. gm[i].pre = {j \in 1..(i - 1) : gm[j].seqs \cap gm[i].seqs # {}}
        BY <2>3, <4>1 DEF Linked
      <4> HIDE DEF n
      <4> QED  BY <2>2, <4>1, <4>2, <4>3
    <3> QED  BY <3>1, <3>2
  <2> QED  BY <2>5 DEF Linked
<1>3. ASSUME NEW v \in DOMAIN Scripts, NEW name \in DOMAIN Scripts[v], SetUp(name, v)
      PROVE  Linked(gm')
  BY <1>3 DEF SetUp, Linked
<1> QED  BY <1>1, <1>2, <1>3, MockSteps DEF getmicrotime

\* The steps behind can be counted, and so can those of the test.
LEMMA BehindCounts ==
  ASSUME Shape, Placed, phase = "body", NEW op
  PROVE  /\ IsFiniteSet(StepsOf(op)) /\ Cardinality(StepsOf(op)) \in Nat
         /\ Behind(op) \subseteq StepsOf(op)
         /\ IsFiniteSet(Behind(op)) /\ Cardinality(Behind(op)) \in Nat
         /\ Cardinality(Behind(op)) <= Cardinality(StepsOf(op))
<1>1. IsTest(Scripts[test.version][test.name])  BY StepsAre
<1>2. IsFiniteSet(StepsOf(op))  BY <1>1, FinitelyMany DEF StepsOf
<1>3. Behind(op) \in SUBSET StepsOf(op)  BY DEF Behind
<1> QED  BY <1>2, <1>3, FS_Subset, FS_CardinalityType

\* While the body goes on they do not become fewer, and a step that the test leaves
\* is one more.
LEMMA BehindMore ==
  ASSUME IInv, IInv', [Next]_vars, phase = "body", phase' = "body", NEW op
  PROVE  /\ Cardinality(Behind(op)) \in Nat /\ Cardinality(Behind(op)') \in Nat
         /\ Cardinality(Behind(op)) <= Cardinality(Behind(op)')
         /\ At(op) /\ at' # at => Cardinality(Behind(op)) + 1 <= Cardinality(Behind(op)')
<1> USE DEF IInv
<1>1. test' = test /\ (at' = at \/ Precedes(at, at'))  BY BodyMoves, Onward
<1>2. /\ Behind(op) \subseteq Behind(op)'
      /\ At(op) /\ at' # at => at \in Behind(op)' \ Behind(op)
  BY <1>1, BehindGrows
<1>3. IsFiniteSet(Behind(op)) /\ Cardinality(Behind(op)) \in Nat  BY BehindCounts
<1>4. IsFiniteSet(Behind(op)') /\ Cardinality(Behind(op)') \in Nat
  <2>1. Behind(op)' \subseteq StepsOf(op)  BY <1>1 DEF Behind, StepsOf
  <2>2. IsFiniteSet(StepsOf(op))  BY BehindCounts
  <2> QED  BY <2>1, <2>2, FS_Subset, FS_CardinalityType
<1> DEFINE B == Behind(op)
           C == Behind(op)'
<1> HIDE DEF B, C
<1>5. B \subseteq C /\ IsFiniteSet(B) /\ IsFiniteSet(C) /\ Cardinality(B) \in Nat
      /\ Cardinality(C) \in Nat
  BY <1>2, <1>3, <1>4 DEF B, C
<1>6. Cardinality(B) <= Cardinality(C)  BY <1>5, FS_Subset
<1>7. ASSUME at \in C \ B PROVE Cardinality(B) + 1 <= Cardinality(C)
  <2>1. IsFiniteSet(B \cup {at}) /\ Cardinality(B \cup {at}) = Cardinality(B) + 1
    BY <1>5, <1>7, FS_AddElement
  <2>2. B \cup {at} \in SUBSET C  BY <1>5, <1>7
  <2> QED  BY <1>5, <2>1, <2>2, FS_Subset
<1> QED  BY <1>2, <1>5, <1>6, <1>7 DEF B, C

\* What the steps do to the number of calls that met an expectation.
LEMMA MetSteps ==
  ASSUME IInv, TInv, now # <<>> => At("flush_inactive"), phase = "body", phase' = "body",
         [Next]_vars
  PROVE  \/ \E tv : /\ getmicrotime(tv)
                    /\ ret = "none" /\ now = <<>> /\ (ret' # "none" \/ now' # <<>>)
                    /\ now' # <<>> => At("flush_inactive") /\ UNCHANGED <<at, program>>
         \/ CallMockSequence
         \/ Assert
         \/ FlushDone \/ FlushErr
         \/ /\ \/ UNCHANGED gm
               \/ \E p : gm' = Called(gm, "if_input", p)
               \/ SetExpectation
            /\ ret # "none" \/ now # <<>> => ret' # "none" \/ now' # <<>>
            /\ now' # <<>> => now # <<>> /\ UNCHANGED <<at, program>>
<1> USE DEF IInv
<1>1. CASE Rx
  <2>1. Calling /\ ret' # "none" /\ now' = now
    BY <1>1 DEF Rx, RxRefuse, RxFlush, RxQueue, RxAbsorb, RxAppend, RxFill, Returns, ErrorOf,
                Taken, TCP_LRO_CANNOT, TCP_LRO_NOT_SUPPORTED
  <2>2. now = <<>> /\ ret = "none"  BY <2>1 DEF Calling, At
  <2>3. UNCHANGED gm \/ (\E p : gm' = Called(gm, "if_input", p)) \/ (\E tv : getmicrotime(tv))
    BY <1>1 DEF Rx, RxRefuse, RxFlush, RxQueue, RxAbsorb, RxAppend, RxFill, IfInput
  <2> QED  BY <2>1, <2>2, <2>3
<1>2. CASE ReadClock
  <2>1. /\ At("flush_inactive") /\ now = <<>> /\ now' # <<>> /\ (\E tv : getmicrotime(tv))
        /\ UNCHANGED <<at, program, arg, ret>>
    BY <1>2 DEF ReadClock
  <2>2. ret = "none"  BY <2>1 DEF At, InCall
  <2> QED  BY <2>1, <2>2
<1>3. CASE FlushOne \/ EntryErr \/ FreeErr
  <2>1. UNCHANGED <<arg, ret, now, at, program>>
        /\ (UNCHANGED gm \/ (\E p : gm' = Called(gm, "if_input", p)))
    BY <1>3 DEF FlushOne, EntryErr, FreeErr, PassOn, IfInput
  <2> QED  BY <2>1
<1>4. CASE RxErr
  <2>1. Calling /\ ret' # "none" /\ now' = now
        /\ (UNCHANGED gm \/ (\E p : gm' = Called(gm, "if_input", p)))
    BY <1>4 DEF RxErr, Returns, IfInput, Taken, TCP_LRO_CANNOT
  <2>2. now = <<>>  BY <2>1 DEF Calling, At
  <2> QED  BY <2>1, <2>2
<1>5. CASE Generate
  <2>1. UNCHANGED <<gm, ret, now, at, program>>  BY <1>5 DEF Generate
  <2> QED  BY <2>1
<1>6. CASE SetExpectation \/ EnableForwardingStep \/ SetIfMtuStep \/ FreeStep
  <2>1. /\ now = <<>> /\ UNCHANGED <<ret, now>>
        /\ UNCHANGED gm \/ SetExpectation
    BY <1>6 DEF SetExpectation, EnableForwardingStep, SetIfMtuStep, FreeStep, tcp_lro_free, At
  <2> QED  BY <2>1
<1>7. CASE Return
  <2>1. now = <<>> /\ UNCHANGED <<gm, ret, now>>  BY <1>7 DEF Return, At
  <2> QED  BY <2>1
<1>8. CASE TestCaseTearDown \/ TearDown  BY <1>8 DEF TestCaseTearDown, TearDown
<1>9. CASE UNCHANGED vars
  <2>1. UNCHANGED <<gm, ret, now, at, program>>  BY <1>9 DEF vars
  <2> QED  BY <2>1
<1>10. ~\E v \in DOMAIN Scripts : \E name \in DOMAIN Scripts[v] : SetUp(name, v)  BY DEF SetUp
<1> QED  BY <1>1, <1>2, <1>3, <1>4, <1>5, <1>6, <1>7, <1>8, <1>9, <1>10, NextCases
         DEF Working, Errs

\* Every call is made in a step of its own.
LEMMA PaidStep ==
  ASSUME IInv, IInv', TInv, Paid, [Next]_vars
  PROVE  Paid'
<1> USE DEF IInv, TInv
<1> DEFINE ms == Cardinality(Met(gm, "MockSequence"))
           gt == Cardinality(Met(gm, "getmicrotime"))
           bm == Cardinality(Behind("MockSequence"))
           br == Cardinality(Behind("rx"))
           bi == Cardinality(Behind("flush_inactive"))
           o  == One(ret # "none" \/ now # <<>>)
<1>1. ASSUME NEW v \in DOMAIN Scripts, NEW name \in DOMAIN Scripts[v], SetUp(name, v)
      PROVE  Paid'
  <2>1. now' = <<>> /\ ret' = "none" /\ gm' = <<>>  BY <1>1 DEF SetUp
  <2>2. Met(gm', "MockSequence") = {} /\ Met(gm', "getmicrotime") = {}  BY <2>1 DEF Met
  <2>3. /\ Behind("MockSequence")' = {} /\ Behind("rx")' = {} /\ Behind("flush_inactive")' = {}
    BY <1>1, BehindNothing
  <2>4. Cardinality({}) = 0  BY FS_EmptySet
  <2>5. One(ret' # "none" \/ now' # <<>>) = 0  BY <2>1 DEF One
  <2> DEFINE rm == Met(gm', "MockSequence")
             rg == Met(gm', "getmicrotime")
             rb == Behind("MockSequence")'
             rr == Behind("rx")'
             ri == Behind("flush_inactive")'
             ro == One(ret' # "none" \/ now' # <<>>)
  <2>6. rm = {} /\ rg = {} /\ rb = {} /\ rr = {} /\ ri = {} /\ ro = 0  BY <2>2, <2>3, <2>5
  <2> HIDE DEF rm, rg, rb, rr, ri, ro
  <2>7. Cardinality(rm) <= Cardinality(rb) /\ Cardinality(rg) <= Cardinality(rr) + Cardinality(ri) + ro
    BY <2>4, <2>6
  <2> QED  BY <2>1, <2>7 DEF Paid, rm, rg, rb, rr, ri, ro
<1>2. CASE phase' # "body"  BY <1>2 DEF Paid
<1>3. ASSUME phase = "body", phase' = "body" PROVE Paid'
  <2>1. /\ bm \in Nat /\ br \in Nat /\ bi \in Nat /\ bm' \in Nat /\ br' \in Nat /\ bi' \in Nat
        /\ bm <= bm' /\ br <= br' /\ bi <= bi'
    BY <1>3, BehindMore
  <2>2. /\ ms \in Nat /\ gt \in Nat /\ ms <= bm /\ gt <= br + bi + o
        /\ now # <<>> => At("flush_inactive")
    BY <1>3, MetGrows DEF Paid
  <2>3. o \in {0, 1} /\ o' \in {0, 1}  BY DEF One
  <2>4. ASSUME At("MockSequence"), at' # at PROVE bm + 1 <= bm'  BY <1>3, <2>4, BehindMore
  <2>5. ASSUME At("rx"), at' # at PROVE br + 1 <= br'  BY <1>3, <2>5, BehindMore
  <2>6. ASSUME At("flush_inactive"), at' # at PROVE bi + 1 <= bi'  BY <1>3, <2>6, BehindMore
  <2>7. Advance => at' # at  BY DEF Advance, Shape
  <2>r. PICK m0, g0, b0, r0, i0, o0, m1, g1, b1, r1, i1, o1 :
          /\ m0 = ms /\ g0 = gt /\ b0 = bm /\ r0 = br /\ i0 = bi /\ o0 = o
          /\ m1 = ms' /\ g1 = gt' /\ b1 = bm' /\ r1 = br' /\ i1 = bi' /\ o1 = o'
    OBVIOUS
  <2>8. ASSUME m1 <= b1, g1 <= r1 + i1 + o1, now' # <<>> => At("flush_inactive")'
        PROVE  Paid'
    BY <2>8, <2>r DEF Paid
  <2>s. /\ b0 \in Nat /\ r0 \in Nat /\ i0 \in Nat /\ b1 \in Nat /\ r1 \in Nat /\ i1 \in Nat
        /\ b0 <= b1 /\ r0 <= r1 /\ i0 <= i1
        /\ m0 \in Nat /\ g0 \in Nat /\ m0 <= b0 /\ g0 <= r0 + i0 + o0
        /\ o0 \in {0, 1} /\ o1 \in {0, 1}
    BY <2>1, <2>2, <2>3, <2>r
  <2>9. At("flush_inactive") /\ UNCHANGED <<at, program>> => At("flush_inactive")'
    BY DEF At, InBody, Step, Function
  <2>10. CASE \E tv : getmicrotime(tv)
                     /\ ret = "none" /\ now = <<>> /\ (ret' # "none" \/ now' # <<>>)
                     /\ (now' # <<>> => At("flush_inactive") /\ UNCHANGED <<at, program>>)
    <3>1. gm' = Called(gm, "getmicrotime", 0)  BY <2>10 DEF getmicrotime
    <3>2. g1 <= g0 + 1 /\ g1 \in Nat /\ m1 = m0  BY <2>r, <3>1, MetGrows
    <3>3. o0 = 0 /\ o1 = 1  BY <2>r, <2>10 DEF One
    <3>4. now' # <<>> => At("flush_inactive")'  BY <2>9, <2>10
    <3> QED  BY <2>s, <2>8, <3>2, <3>3, <3>4
  <2>11. CASE CallMockSequence
    <3>1. /\ gm' = Called(gm, "MockSequence", 1) /\ At("MockSequence") /\ Advance
          /\ UNCHANGED <<ret, now>>
      BY <2>11 DEF CallMockSequence
    <3>2. m1 <= m0 + 1 /\ m1 \in Nat /\ g1 = g0  BY <2>r, <3>1, MetGrows
    <3>3. o1 = o0 /\ now' = <<>>  BY <2>r, <2>2, <3>1 DEF At
    <3>4. b0 + 1 <= b1  BY <2>r, <2>4, <2>7, <3>1
    <3> QED  BY <2>s, <2>8, <3>2, <3>3, <3>4
  <2>12. CASE Assert
    <3>1. /\ UNCHANGED <<gm, now>> /\ ret' = "none" /\ At("rx")
      BY <2>12 DEF Assert, InCall
    <3>2. at' # at
      <4>1. CASE Advance  BY <2>7, <4>1
      <4>2. CASE at' = [at EXCEPT !.pc = Len(Function) + 1]
        <5>1. Len(Function) \in Nat /\ at.pc <= Len(Function)
          BY <1>3, <3>1, StepsAre DEF IsFunction, At, InBody
        <5> QED  BY <4>2, <5>1 DEF Shape
      <4> QED  BY <2>12, <4>1, <4>2 DEF Assert
    <3>3. m1 = m0 /\ g1 = g0 /\ now' = <<>> /\ r0 + 1 <= r1 /\ o1 = 0
      BY <2>r, <2>2, <2>5, <3>1, <3>2 DEF At, One
    <3> QED  BY <2>s, <2>8, <3>3
  <2>13. CASE FlushDone \/ FlushErr
    <3>1. /\ UNCHANGED <<gm, arg, ret>> /\ now' = <<>> /\ Advance
          /\ At("flush_all") \/ At("flush_inactive")
      BY <2>13 DEF FlushDone, FlushErr, Flushing
    <3>2. ret = "none"  BY <3>1 DEF At, InCall
    <3>3. m1 = m0 /\ g1 = g0 /\ o1 = 0  BY <2>r, <3>1, <3>2 DEF One
    <3>4. CASE At("flush_inactive")
      <4>1. i0 + 1 <= i1  BY <2>r, <2>6, <2>7, <3>1, <3>4
      <4> QED  BY <2>s, <2>8, <3>1, <3>3, <4>1
    <3>5. CASE ~At("flush_inactive")
      <4>1. o0 = 0  BY <2>r, <2>2, <3>2, <3>5 DEF One
      <4> QED  BY <2>s, <2>8, <3>1, <3>3, <4>1
    <3> QED  BY <3>4, <3>5
  <2>14. CASE /\ \/ UNCHANGED gm
                 \/ \E p : gm' = Called(gm, "if_input", p)
                 \/ SetExpectation
              /\ ret # "none" \/ now # <<>> => ret' # "none" \/ now' # <<>>
              /\ now' # <<>> => now # <<>> /\ UNCHANGED <<at, program>>
    <3>1. m1 = m0 /\ g1 = g0
      <4>1. CASE UNCHANGED gm  BY <2>r, <4>1
      <4>2. CASE \E p : gm' = Called(gm, "if_input", p)  BY <2>r, <4>2, MetGrows
      <4>3. CASE SetExpectation
        <5>1. /\ gm' = Append(gm, Expectation(gm, Step.fn, Step.arg, Step.seqs))
              /\ Step.fn = "getmicrotime" => Step.arg \in Timeval
          BY <4>3, StepStatesTime DEF SetExpectation
        <5> QED  BY <2>r, <5>1, MetExpected
      <4> QED  BY <2>14, <4>1, <4>2, <4>3
    <3>2. o0 <= o1  BY <2>r, <2>14 DEF One
    <3>3. now' # <<>> => At("flush_inactive")'  BY <2>2, <2>9, <2>14
    <3> QED  BY <2>s, <2>8, <3>1, <3>2, <3>3
  <2> QED  BY <1>3, <2>2, <2>10, <2>11, <2>12, <2>13, <2>14, MetSteps
<1>4. ASSUME ~(phase = "body"), phase' = "body"
      PROVE  \E v \in DOMAIN Scripts : \E name \in DOMAIN Scripts[v] : SetUp(name, v)
  BY <1>4, NextCases, WorkingFrame DEF FlushDone, Flushing, Generate, Assert, At, InBody, InCall,
     Return, TearDown, TestCaseTearDown, SetExpectation, CallMockSequence, EnableForwardingStep,
     SetIfMtuStep, FreeStep, vars
<1> QED  BY <1>1, <1>2, <1>3, <1>4

\* A call of if_input that meets an expectation comes after the calls that the
\* expectation waits for, each of which met one of its own.
LEMMA AwaitedMet ==
  ASSUME IInv, TInv, Asked, Linked(gm), phase = "body", "assert" \notin failed,
         NEW p, CallFailures(gm, "if_input", p) = {}
  PROVE  \E y \in StepsOf("expect") :
           /\ StepAt(y).fn = "if_input"
           /\ \A fn : /\ Cardinality(Awaited(Script, y, fn)) \in Nat
                      /\ Cardinality(Awaited(Script, y, fn)) <= Cardinality(Met(gm, fn))
<1> USE DEF IInv, TInv
<1> DEFINE h == Handler(gm, "if_input", p)
           B == Behind("expect")
<1>1. PICK by \in [DOMAIN gm -> B] :
        /\ \A i \in DOMAIN gm : LET s == StepAt(by[i]) IN
             s.fn = gm[i].fn /\ s.arg = gm[i].arg /\ s.seqs = gm[i].seqs
        /\ \A i, j \in DOMAIN gm : i < j => Precedes(by[i], by[j])
        /\ \A x \in B : \E i \in DOMAIN gm : by[i] = x
  BY DEF Asked
<1>2. /\ h \in DOMAIN gm /\ gm[h].fn = "if_input"
      /\ \A j \in gm[h].pre : gm[j].called
  <2>1. Handling(gm, "if_input", p) # {}  BY DEF CallFailures
  <2> QED  BY <2>1, HandlerExists DEF Handling, Handles, IsSatisfied
<1> HIDE DEF h
<1>3. DOMAIN gm = 1..Len(gm) /\ Len(gm) \in Nat  BY DEF Stated
<1>4. gm[h].pre = {j \in 1..(h - 1) : gm[j].seqs \cap gm[h].seqs # {}}  BY <1>2 DEF Linked
<1>5. PICK y : y = by[h]  OBVIOUS
<1>6. /\ y \in B /\ StepAt(y).fn = "if_input" /\ StepAt(y).seqs = gm[h].seqs
  BY <1>1, <1>2, <1>5
<1>7. \A x \in StepsOf("expect") : x.fn \in Nat /\ x.pc \in Nat  BY StepsAre
<1>8. y \in StepsOf("expect") /\ Precedes(y, at) /\ at.fn \in Nat /\ at.pc \in Nat
  BY <1>6 DEF Behind, Shape
<1>9. ASSUME NEW fn
      PROVE  /\ Cardinality(Awaited(Script, y, fn)) \in Nat
             /\ Cardinality(Awaited(Script, y, fn)) <= Cardinality(Met(gm, fn))
  <2> DEFINE A == Awaited(Script, y, fn)
             M == Met(gm, fn)
             T == {by[i] : i \in M}
             g == [i \in M |-> by[i]]
  <2>1. ASSUME NEW x \in A PROVE x \in T
    <3>1. /\ x \in StepsOf("expect") /\ StepAt(x).fn = fn /\ Precedes(x, y)
          /\ StepAt(x).seqs \cap gm[h].seqs # {}
      BY <1>6 DEF Awaited, StepsOf, Script, StepAt
    <3>2. x \in B
      <4>1. Precedes(x, at)  BY <1>7, <1>8, <3>1 DEF Precedes
      <4> QED  BY <3>1, <4>1 DEF Behind
    <3> HIDE DEF B
    <3>3. PICK i \in DOMAIN gm : by[i] = x  BY <1>1, <3>2
    <3>4. ~Precedes(y, x) /\ y # x  BY <1>7, <1>8, <3>1 DEF Precedes
    <3>5. i < h
      <4>1. ~(h < i) /\ i # h  BY <1>1, <1>2, <1>5, <3>3, <3>4
      <4> QED  BY <1>2, <1>3, <4>1
    <3>6. i \in 1..(h - 1)  BY <1>2, <1>3, <3>5
    <3>7. gm[i].fn = fn /\ gm[i].seqs \cap gm[h].seqs # {}  BY <1>1, <3>1, <3>3
    <3>8. gm[i].called  BY <1>2, <1>4, <3>6, <3>7
    <3>9. i \in M  BY <3>7, <3>8 DEF Met
    <3> QED  BY <3>3, <3>9
  <2>2. IsFiniteSet(M) /\ Cardinality(M) \in Nat  BY MetGrows
  <2>3. g \in Surjection(M, T)
    <3> HIDE DEF M
    <3> QED  BY DEF Surjection
  <2> HIDE DEF A, M, T, g
  <2>4. IsFiniteSet(T) /\ Cardinality(T) <= Cardinality(M)  BY <2>2, <2>3, FS_Surjection
  <2>5. A \in SUBSET T  BY <2>1
  <2>6. Cardinality(T) \in Nat /\ IsFiniteSet(A) /\ Cardinality(A) <= Cardinality(T)
    BY <2>4, <2>5, FS_Subset, FS_CardinalityType
  <2>7. Cardinality(A) \in Nat  BY <2>6, FS_CardinalityType
  <2>8. Cardinality(A) <= Cardinality(M)  BY <2>2, <2>4, <2>6, <2>7
  <2> QED  BY <2>7, <2>8 DEF A, M
<1> QED  BY <1>6, <1>8, <1>9

\* So it comes when the test has made all of these calls.
LEMMA AllBehind ==
  ASSUME IInv, TInv, Asked, Linked(gm), Paid, phase = "body", "assert" \notin failed,
         NEW p, CallFailures(gm, "if_input", p) = {}
  PROVE  /\ StepsOf("MockSequence") \subseteq Behind("MockSequence")
         /\ \A s \in StepsOf("flush_inactive") : s \in Behind("flush_inactive") \/ s = at
<1> USE DEF IInv
<1>1. PICK y \in StepsOf("expect") :
        /\ StepAt(y).fn = "if_input"
        /\ \A fn : /\ Cardinality(Awaited(Script, y, fn)) \in Nat
                   /\ Cardinality(Awaited(Script, y, fn)) <= Cardinality(Met(gm, fn))
  BY AwaitedMet
<1>2. /\ Cardinality(Awaited(Script, y, "MockSequence")) >= Cardinality(StepsOf("MockSequence"))
      /\ StepsOf("flush_inactive") # {} =>
           Cardinality(Awaited(Script, y, "getmicrotime"))
             >= Cardinality(StepsOf("rx")) + Cardinality(StepsOf("flush_inactive"))
  <2>1. IsTest(Script)  BY StepsAre DEF Script
  <2> QED  BY <1>1, <2>1 DEF IsTest, FlushAwaits, StepsOf, Script, StepAt
<1>3. ASSUME NEW op
      PROVE  /\ IsFiniteSet(StepsOf(op)) /\ Cardinality(StepsOf(op)) \in Nat
             /\ Behind(op) \subseteq StepsOf(op)
             /\ IsFiniteSet(Behind(op)) /\ Cardinality(Behind(op)) \in Nat
             /\ Cardinality(Behind(op)) <= Cardinality(StepsOf(op))
  BY BehindCounts
\* At a step, one step of its kind is not behind.
<1>4. ASSUME NEW op, At(op)
      PROVE  /\ Cardinality(Behind(op)) + 1 <= Cardinality(StepsOf(op))
             /\ Cardinality(StepsOf(op)) <= Cardinality(Behind(op)) + 1 =>
                  StepsOf(op) = Behind(op) \cup {at}
  <2> DEFINE S == StepsOf(op)
             C == Behind(op)
  <2>1. at \in S  BY <1>4, StepsAre
  <2>2. at \notin C
    <3>1. ~Precedes(at, at)  BY DEF Shape, Precedes
    <3> QED  BY <3>1 DEF Behind
  <2>3. /\ IsFiniteSet(S) /\ Cardinality(S) \in Nat /\ C \subseteq S
        /\ IsFiniteSet(C) /\ Cardinality(C) \in Nat
    BY <1>3
  <2> HIDE DEF S, C
  <2>4. IsFiniteSet(C \cup {at}) /\ Cardinality(C \cup {at}) = Cardinality(C) + 1
    BY <2>2, <2>3, FS_AddElement
  <2>5. C \cup {at} \in SUBSET S  BY <2>1, <2>3
  <2>6. /\ Cardinality(C \cup {at}) <= Cardinality(S)
        /\ Cardinality(S) = Cardinality(C \cup {at}) => S = C \cup {at}
    BY <2>3, <2>5, FS_Subset
  <2>7. Cardinality(S) <= Cardinality(C) + 1 => Cardinality(S) = Cardinality(C \cup {at})
    BY <2>3, <2>4, <2>6
  <2> QED  BY <2>4, <2>6, <2>7 DEF S, C
<1>5. ASSUME NEW op, Cardinality(StepsOf(op)) <= Cardinality(Behind(op))
      PROVE  StepsOf(op) = Behind(op)
  <2> DEFINE S == StepsOf(op)
             C == Behind(op)
  <2>1. /\ IsFiniteSet(S) /\ Cardinality(S) \in Nat /\ C \in SUBSET S
        /\ Cardinality(C) \in Nat /\ Cardinality(C) <= Cardinality(S)
        /\ Cardinality(S) <= Cardinality(C)
    BY <1>3, <1>5
  <2> HIDE DEF S, C
  <2>2. Cardinality(S) = Cardinality(C)  BY <2>1
  <2>3. S = C  BY <2>1, <2>2, FS_Subset
  <2> QED  BY <2>3 DEF S, C
\* The numbers.
<1> DEFINE am == Cardinality(Awaited(Script, y, "MockSequence"))
           ag == Cardinality(Awaited(Script, y, "getmicrotime"))
           ms == Cardinality(Met(gm, "MockSequence"))
           gt == Cardinality(Met(gm, "getmicrotime"))
           sm == Cardinality(StepsOf("MockSequence"))
           sr == Cardinality(StepsOf("rx"))
           si == Cardinality(StepsOf("flush_inactive"))
           bm == Cardinality(Behind("MockSequence"))
           br == Cardinality(Behind("rx"))
           bi == Cardinality(Behind("flush_inactive"))
           o  == One(ret # "none" \/ now # <<>>)
<1>6. /\ am \in Nat /\ ag \in Nat /\ ms \in Nat /\ gt \in Nat /\ sm \in Nat /\ sr \in Nat
      /\ si \in Nat /\ bm \in Nat /\ br \in Nat /\ bi \in Nat /\ o \in {0, 1}
      /\ br <= sr /\ bi <= si
  <2>1. o \in {0, 1}  BY DEF One
  <2>2. ms \in Nat /\ gt \in Nat  BY MetGrows DEF TInv
  <2> QED  BY <1>1, <1>3, <2>1, <2>2
<1>7. /\ am <= ms /\ ag <= gt /\ ms <= bm /\ gt <= br + bi + o
      /\ am >= sm /\ (StepsOf("flush_inactive") # {} => ag >= sr + si)
  BY <1>1, <1>2 DEF Paid
<1>8. o = 1 => At("rx") \/ At("flush_inactive")
  <2>1. ret # "none" => At("rx")  BY DEF InCall
  <2>2. now # <<>> => At("flush_inactive")  BY DEF Paid
  <2> QED  BY <2>1, <2>2 DEF One
<1>9. /\ At("rx") => br + 1 <= sr
      /\ At("flush_inactive") => bi + 1 <= si
      /\ At("flush_inactive") /\ si <= bi + 1 => StepsOf("flush_inactive") = Behind("flush_inactive") \cup {at}
      /\ si <= bi => StepsOf("flush_inactive") = Behind("flush_inactive")
      /\ sm <= bm => StepsOf("MockSequence") = Behind("MockSequence")
  BY <1>4, <1>5
<1> HIDE DEF am, ag, ms, gt, sm, sr, si, bm, br, bi, o
<1>10. sm <= bm  BY <1>6, <1>7
<1>11. CASE StepsOf("flush_inactive") = {}  BY <1>9, <1>10, <1>11
<1>12. CASE StepsOf("flush_inactive") # {}
  <2>1. sr + si <= br + bi + o  BY <1>6, <1>7, <1>12
  <2>2. CASE At("flush_inactive")
    <3>1. si <= bi + 1  BY <1>6, <2>1
    <3> QED  BY <1>9, <1>10, <2>2, <3>1
  <2>3. CASE ~At("flush_inactive")
    <3>1. si <= bi
      <4>1. CASE At("rx")  BY <1>6, <1>9, <2>1, <4>1
      <4>2. CASE o = 0  BY <1>6, <2>1, <4>2
      <4> QED  BY <1>6, <1>8, <2>3, <4>1, <4>2
    <3> QED  BY <1>9, <1>10, <3>1
  <2> QED  BY <2>2, <2>3
<1> QED  BY <1>11, <1>12

\* A packet goes up the stack within a call of tcp_lro_rx or a flush; or none does,
\* and no failure is forgotten.
LEMMA Deliveries ==
  ASSUME IInv, [Next]_vars
  PROVE  \/ \E v \in DOMAIN Scripts : \E name \in DOMAIN Scripts[v] : SetUp(name, v)
         \/ UNCHANGED <<test, delivered>> /\ failed \subseteq failed'
         \/ /\ UNCHANGED test /\ phase = "body"
            /\ At("rx") \/ At("flush_all") \/ At("flush_inactive")
            /\ \E p, S : IfInput(gm, p, S)
<1> USE DEF IInv, PassOn
<1>1. arg # 0 => phase = "body" /\ At("rx")  BY DEF InCall, At, InBody
<1>2. CASE Rx \/ RxErr
  <2>1. /\ UNCHANGED test /\ phase = "body" /\ At("rx")
    BY <1>2 DEF Rx, RxRefuse, RxFlush, RxQueue, RxAbsorb, RxAppend, RxFill, RxErr, Calling,
                Returns, At, InBody
  <2>2. \/ UNCHANGED delivered /\ failed \subseteq failed'
        \/ \E p, S : IfInput(gm, p, S)
    BY <1>2 DEF Rx, RxRefuse, RxFlush, RxQueue, RxAbsorb, RxAppend, RxFill, RxErr, getmicrotime
  <2> QED  BY <2>1, <2>2
<1>3. CASE FlushOne \/ EntryErr
  <2>1. /\ UNCHANGED test /\ phase = "body"
        /\ At("rx") \/ At("flush_all") \/ At("flush_inactive")
    BY <1>1, <1>3 DEF FlushOne, EntryErr, Flushing, InLro, At, InBody
  <2>2. \/ UNCHANGED delivered /\ failed \subseteq failed'
        \/ \E p, S : IfInput(gm, p, S)
    BY <1>3 DEF FlushOne, EntryErr
  <2> QED  BY <2>1, <2>2
<1>4. CASE ReadClock \/ FreeErr \/ FlushErr \/ FlushDone \/ SetExpectation \/ CallMockSequence
           \/ EnableForwardingStep \/ SetIfMtuStep \/ Generate \/ Assert
  BY <1>4 DEF ReadClock, getmicrotime, FreeErr, FlushErr, FlushDone, SetExpectation,
              CallMockSequence, EnableForwardingStep, SetIfMtuStep, Generate, Assert
<1>5. CASE FreeStep \/ Return \/ TestCaseTearDown \/ TearDown \/ UNCHANGED vars
  BY <1>5 DEF FreeStep, tcp_lro_free, Return, TestCaseTearDown, TearDown, vars
<1> QED  BY <1>2, <1>3, <1>4, <1>5, NextCases DEF Working, Errs

\* As long as nothing is reported, no packet went up the stack before the last
\* moment that the test marks, nor after its calls of LRO.
Prompt ==
  /\ IsSeq(delivered)
  /\ failed = {} => \A i \in 1..Len(delivered) :
       LET x == delivered[i].at IN
         /\ \A s \in StepsOf("MockSequence") \cup StepsOf("flush_inactive") :
              x.fn = s.fn => x.pc >= s.pc
         /\ x \in StepsOf("rx") \cup StepsOf("flush_all") \cup StepsOf("flush_inactive")

\* Every step keeps to that.
LEMMA PromptStep ==
  ASSUME IInv, TInv, Asked, Linked(gm), Paid, Prompt, [Next]_vars
  PROVE  Prompt'
<1> USE DEF IInv
<1>1. CASE UNCHANGED <<test, delivered>> /\ failed \subseteq failed'
  BY <1>1 DEF Prompt, StepsOf
<1>2. ASSUME NEW v \in DOMAIN Scripts, NEW name \in DOMAIN Scripts[v], SetUp(name, v)
      PROVE  Prompt'
  <2>1. delivered' = <<>>  BY <1>2 DEF SetUp
  <2>2. IsSeq(<<>>) /\ Len(<<>>) = 0
    <3>1. <<>> \in Seq({})  OBVIOUS
    <3> QED  BY <3>1 DEF IsSeq
  <2> QED  BY <2>1, <2>2 DEF Prompt
<1>3. CASE /\ UNCHANGED test /\ phase = "body"
           /\ At("rx") \/ At("flush_all") \/ At("flush_inactive")
           /\ \E p, S : IfInput(gm, p, S)
  <2>1. PICK p, S : IfInput(gm, p, S)  BY <1>3
  <2>2. PICK d : d = [pkt |-> p, at |-> at]  OBVIOUS
  <2>3. /\ delivered' = Append(delivered, d) /\ d.at = at
        /\ failed' = failed \cup CallFailures(gm, "if_input", p)
    BY <2>1, <2>2 DEF IfInput
  <2>4. /\ IsSeq(delivered') /\ Len(delivered) \in Nat /\ Len(delivered') = Len(delivered) + 1
    BY <2>3, Longer DEF Prompt
  <2>5. /\ delivered'[Len(delivered) + 1] = d
        /\ \A i \in 1..Len(delivered) : delivered'[i] = delivered[i]
    <3>1. PICK D : delivered \in Seq(D)  BY DEF Prompt, IsSeq
    <3>2. delivered \in Seq(D \cup {d})  BY <3>1
    <3> QED  BY <2>3, <3>2
  <2>6. \A op : StepsOf(op)' = StepsOf(op)  BY <1>3 DEF StepsOf
  <2>7. ASSUME failed' = {}, NEW i \in 1..Len(delivered')
        PROVE  /\ \A s \in StepsOf("MockSequence") \cup StepsOf("flush_inactive") :
                    delivered'[i].at.fn = s.fn => delivered'[i].at.pc >= s.pc
               /\ delivered'[i].at \in
                    StepsOf("rx") \cup StepsOf("flush_all") \cup StepsOf("flush_inactive")
    <3>1. failed = {} /\ CallFailures(gm, "if_input", p) = {}  BY <2>3, <2>7
    <3>2. CASE i \in 1..Len(delivered)
      <4>1. delivered'[i].at = delivered[i].at  BY <2>5, <3>2
      <4> QED  BY <3>1, <3>2, <4>1 DEF Prompt
    <3>3. CASE i = Len(delivered) + 1
      <4>1. delivered'[i].at = at  BY <2>3, <2>5, <3>3
      <4>2. at \in StepsOf("rx") \cup StepsOf("flush_all") \cup StepsOf("flush_inactive")
        BY <1>3, StepsAre
      <4>3. ASSUME NEW s \in StepsOf("MockSequence") \cup StepsOf("flush_inactive")
            PROVE  Precedes(s, at) \/ s = at
        <5>1. s \in Behind("MockSequence") \/ s \in Behind("flush_inactive") \/ s = at
          BY <1>3, <3>1, <4>3, AllBehind
        <5> QED  BY <5>1 DEF Behind
      <4>4. ASSUME NEW s \in StepsOf("MockSequence") \cup StepsOf("flush_inactive"), at.fn = s.fn
            PROVE  at.pc >= s.pc
        <5>1. s.fn \in Nat /\ s.pc \in Nat  BY <1>3, StepsAre
        <5> QED  BY <4>3, <4>4, <5>1 DEF Precedes, Shape
      <4> QED  BY <4>1, <4>2, <4>4
    <3> QED  BY <2>4, <3>2, <3>3
  <2> QED  BY <2>4, <2>6, <2>7 DEF Prompt
<1> QED  BY <1>1, <1>2, <1>3, Deliveries

\* A test that reports nothing saw its packets go up the stack after the last moment
\* that it marks in the function, by MockSequence or the order of its times, and
\* during a call of LRO, whatever mistake the code under test makes and whenever it
\* makes it (tcp_lro.gtest.cpp:189, MockTime.cpp:47).
THEOREM GreenFlushesOnTime == Spec => []FlushedOnTime
<1>1. Init => Asked /\ Linked(gm) /\ Paid /\ Prompt
  <2> SUFFICES ASSUME Init PROVE Asked /\ Linked(gm) /\ Paid /\ Prompt  OBVIOUS
  <2>1. phase # "body" /\ gm = <<>> /\ delivered = <<>>  BY DEF Init
  <2>2. IsSeq(<<>>) /\ Len(<<>>) = 0
    <3>1. <<>> \in Seq({})  OBVIOUS
    <3> QED  BY <3>1 DEF IsSeq
  <2> QED  BY <2>1, <2>2 DEF Asked, Linked, Paid, Prompt
<1>2. /\ IInv /\ TInv /\ Asked /\ Linked(gm) /\ Paid /\ Prompt /\ [Next]_vars
      => IInv' /\ TInv' /\ Asked' /\ Linked(gm') /\ Paid' /\ Prompt'
  <2> SUFFICES ASSUME IInv, TInv, Asked, Linked(gm), Paid, Prompt, [Next]_vars
               PROVE  IInv' /\ TInv' /\ Asked' /\ Linked(gm') /\ Paid' /\ Prompt'
    OBVIOUS
  <2>1. IInv'  BY ShapeStep, PlacedStep, InCallStep, OwnedStep DEF IInv
  <2>2. TInv'  BY <2>1, TStep
  <2>3. Asked' /\ Linked(gm')  BY <2>1, AskedStep, LinkedStep DEF TInv
  <2>4. Paid' /\ Prompt'  BY <2>1, PaidStep, PromptStep
  <2> QED  BY <2>1, <2>2, <2>3, <2>4
<1>3. Prompt => FlushedOnTime  BY DEF Prompt, FlushedOnTime, Green
<1>4. Linked(gm)' <=> Linked(gm')  BY DEF Linked
<1> QED  BY InitInv, TInit, <1>1, <1>2, <1>3, <1>4, PTL DEF Spec

-----------------------------------------------------------------------------
(* Sequences one after the other.                                          *)

Joined(c) == Seqs!FlattenSeq(c)

\* g[i] is what the first i sequences of c make.
Runs(g, c, n) == g[0] = <<>> /\ \A i \in 1..n : g[i] = g[i - 1] \o c[i]

\* There is such a g.
LEMMA RunExists ==
  ASSUME NEW n \in Nat, NEW T, NEW c \in [1..n -> Seq(T)]
  PROVE  \E g \in [0..n -> Seq(T)] : Runs(g, c, n)
<1> DEFINE S == {k \in 1..(n + 1) : \E g \in [0..(k - 1) -> Seq(T)] : Runs(g, c, k - 1)}
<1>1. 1 \in S
  <2> DEFINE g == [i \in 0..0 |-> <<>>]
  <2>1. g \in [0..0 -> Seq(T)]
    <3>1. <<>> \in Seq(T)  OBVIOUS
    <3> QED  BY <3>1
  <2>2. Runs(g, c, 0)  BY DEF Runs
  <2> HIDE DEF g
  <2> QED  BY <2>1, <2>2
<1>2. PICK k \in S : \A m \in S : m <= k
  <2>1. n + 1 \in Nat /\ S \in SUBSET (1..(n + 1))  OBVIOUS
  <2> HIDE DEF S
  <2>2. S # {}  BY <1>1
  <2> QED  BY <2>1, <2>2, GreatestElement
<1>3. PICK g \in [0..(k - 1) -> Seq(T)] : Runs(g, c, k - 1)  OBVIOUS
<1>4. CASE k = n + 1
  <2>1. k - 1 = n  BY <1>4
  <2> QED  BY <1>3, <2>1
<1>5. CASE k # n + 1
  <2>0. k \in 1..n /\ k - 1 \in 0..(k - 1) /\ k \in 0..k  BY <1>5
  <2>1. g[k - 1] \o c[k] \in Seq(T)
    <3>1. g[k - 1] \in Seq(T) /\ c[k] \in Seq(T)  BY <1>3, <2>0
    <3> QED  BY <3>1
  <2> DEFINE last == g[k - 1] \o c[k]
             h == [i \in 0..k |-> IF i = k THEN last ELSE g[i]]
  <2> HIDE DEF last
  <2>2. \A i \in 0..k : i = k \/ i \in 0..(k - 1)  BY <2>0
  <2>3. h \in [0..k -> Seq(T)]  BY <2>1, <2>2 DEF last
  <2>4. h[0] = <<>>
    <3>1. 0 # k /\ 0 \in 0..k  BY <2>0
    <3> QED  BY <1>3, <3>1 DEF Runs
  <2>5. ASSUME NEW i \in 1..k PROVE h[i] = h[i - 1] \o c[i]
    <3>1. i \in 0..k /\ i - 1 \in 0..k /\ i - 1 # k  BY <2>0
    <3>2. h[i - 1] = g[i - 1]  BY <3>1
    <3>3. CASE i = k  BY <3>1, <3>2, <3>3 DEF last
    <3>4. CASE i # k
      <4>1. i \in 1..(k - 1) /\ h[i] = g[i]  BY <2>0, <3>1, <3>4
      <4> QED  BY <1>3, <3>2, <4>1 DEF Runs
    <3> QED  BY <3>3, <3>4
  <2> HIDE DEF h
  <2>6. Runs(h, c, k)  BY <2>4, <2>5 DEF Runs
  <2>7. k + 1 \in S
    <3>1. k + 1 \in 1..(n + 1) /\ (k + 1) - 1 = k  BY <2>0
    <3> QED  BY <2>3, <2>6, <3>1
  <2>8. ~(k + 1 <= k)  BY <2>0
  <2> QED  BY <1>2, <2>7, <2>8
<1> QED  BY <1>4, <1>5

\* And FlattenSeq computes it.
LEMMA JoinedIs ==
  ASSUME NEW n \in Nat, NEW T, NEW c \in [1..n -> Seq(T)],
         NEW g \in [0..n -> Seq(T)], Runs(g, c, n)
  PROVE  Joined(c) = g[n]
<1>1. Len(c) = n /\ c \in Seq(Seq(T))
  <2>1. c \in Seq(Seq(T))  OBVIOUS
  <2>2. DOMAIN c = 1..n /\ Len(c) \in Nat /\ DOMAIN c = 1..Len(c)  BY <2>1
  <2> QED  BY <2>1, <2>2
<1>2. CASE n = 0
  <2>1. c = <<>>  BY <1>1, <1>2
  <2> QED  BY <1>1, <1>2, <2>1 DEF Joined, Seqs!FlattenSeq, Runs
<1>3. CASE n # 0
  <2> DEFINE F(f) == [i \in 1..n |-> IF i = 1 THEN c[i] ELSE f[i - 1] \o c[i]]
             flatten == CHOOSE f : f = F(f)
             k0 == [i \in 1..n |-> g[i]]
  <2>1. Joined(c) = flatten[n]  BY <1>1, <1>3 DEF Joined, Seqs!FlattenSeq
  <2>2. ASSUME NEW i \in 1..n PROVE g[i] = IF i = 1 THEN c[i] ELSE g[i - 1] \o c[i]
    <3>1. CASE i = 1
      <4>1. <<>> \o c[1] = c[1]
        <5>1. c[1] \in Seq(T)  BY <3>1
        <5> QED  BY <5>1
      <4>2. g[1] = g[0] \o c[1] /\ g[0] = <<>>
        <5>1. 1 \in 1..n /\ 1 - 1 = 0  BY <3>1
        <5> QED  BY <5>1 DEF Runs
      <4> QED  BY <3>1, <4>1, <4>2
    <3>2. CASE i # 1  BY <3>2 DEF Runs
    <3> QED  BY <3>1, <3>2
  <2>3. k0 = F(k0)
    <3>1. \A i \in 1..n : i # 1 => i - 1 \in 1..n  BY <1>3
    <3>2. \A i \in 1..n : k0[i] = F(k0)[i]  BY <2>2, <3>1
    <3> QED  BY <3>2
  <2>4. flatten = F(flatten)
    <3> HIDE DEF k0, F
    <3>1. \E f : f = F(f)  BY <2>3
    <3> QED  BY <3>1
  <2>5. \A i \in 1..n : flatten[i] = IF i = 1 THEN c[i] ELSE flatten[i - 1] \o c[i]
    <3> HIDE DEF flatten
    <3> QED  BY <2>4
  <2> HIDE DEF flatten
  <2> DEFINE S == {k \in 1..n : \A i \in 1..k : flatten[i] = g[i]}
  <2>6. 1 \in S  BY <1>3, <2>2, <2>5
  <2>7. PICK k \in S : \A m \in S : m <= k
    <3>1. S \in SUBSET (1..n) /\ S # {}  BY <2>6
    <3> HIDE DEF S
    <3> QED  BY <3>1, GreatestElement
  <2>8. CASE k # n
    <3>1. k + 1 \in 1..n /\ k + 1 # 1 /\ (k + 1) - 1 = k /\ ~(k + 1 <= k)  BY <2>8
    <3>2. flatten[k] = g[k]  BY <3>1
    <3>3. flatten[k + 1] = g[k + 1]  BY <2>2, <2>5, <3>1, <3>2
    <3>4. \A i \in 1..(k + 1) : i \in 1..k \/ i = k + 1  BY <3>1
    <3>5. k + 1 \in S  BY <3>1, <3>3, <3>4
    <3> QED  BY <2>7, <3>1, <3>5
  <2>9. CASE k = n  BY <1>3, <2>1, <2>9
  <2> QED  BY <2>8, <2>9
<1> QED  BY <1>2, <1>3

\* Nothing joined is nothing.
LEMMA JoinedNothing == Joined(<<>>) = <<>>
BY DEF Joined, Seqs!FlattenSeq

\* One more sequence comes at the end.
LEMMA JoinedAppend ==
  ASSUME NEW n \in Nat, NEW T, NEW c \in [1..n -> Seq(T)], NEW x \in Seq(T)
  PROVE  /\ Joined([i \in 1..(n + 1) |-> IF i = n + 1 THEN x ELSE c[i]]) = Joined(c) \o x
         /\ Joined(c) \in Seq(T)
<1> DEFINE m == n + 1
           d == [i \in 1..m |-> IF i = m THEN x ELSE c[i]]
<1>1. PICK g \in [0..n -> Seq(T)] : Runs(g, c, n)  BY RunExists
<1>2. g[n] = Joined(c) /\ g[n] \in Seq(T)
  <2>1. n \in 0..n  OBVIOUS
  <2> QED  BY <1>1, <2>1, JoinedIs
<1> DEFINE h == [i \in 0..m |-> IF i = m THEN g[n] \o x ELSE g[i]]
<1>3. /\ m \in Nat /\ n \in 0..m /\ n # m /\ m - 1 = n /\ 0 \in 0..m /\ 0 # m /\ m \in 0..m
      /\ \A i \in 1..m : /\ i = m \/ i \in 1..n
                         /\ i \in 0..m /\ i - 1 \in 0..n /\ i - 1 \in 0..m /\ i - 1 # m
      /\ \A i \in 0..m : i = m \/ i \in 0..n
  OBVIOUS
<1>4. g[n] \o x \in Seq(T)  BY <1>2
<1> HIDE DEF m
<1>5. d \in [1..m -> Seq(T)]  BY <1>3
<1>6. h \in [0..m -> Seq(T)]  BY <1>3, <1>4
<1>7. Runs(h, d, m)
  <2>1. h[0] = <<>>  BY <1>1, <1>3 DEF Runs
  <2>2. ASSUME NEW i \in 1..m PROVE h[i] = h[i - 1] \o d[i]
    <3>1. h[i - 1] = g[i - 1]  BY <1>3
    <3>2. CASE i = m  BY <1>3, <3>1, <3>2
    <3>3. CASE i # m
      <4>1. i \in 1..n /\ h[i] = g[i] /\ d[i] = c[i]  BY <1>3, <3>3
      <4> QED  BY <1>1, <3>1, <4>1 DEF Runs
    <3> QED  BY <3>2, <3>3
  <2> HIDE DEF h, d
  <2> QED  BY <2>1, <2>2 DEF Runs
<1>8. h[m] = Joined(c) \o x  BY <1>2, <1>3
<1> HIDE DEF h, d
<1>9. Joined(d) = h[m]  BY <1>3, <1>5, <1>6, <1>7, JoinedIs
<1> QED  BY <1>2, <1>8, <1>9 DEF d, m

\* A sequence that takes the place of an empty one, after which there are only empty
\* ones, comes at the end.
LEMMA JoinedLate ==
  ASSUME NEW n \in Nat, NEW c \in [1..n -> Seq(Int)], NEW d \in [1..n -> Seq(Int)],
         NEW h \in 1..n, c[h] = <<>>, \A i \in 1..n : i > h => c[i] = <<>>,
         \A i \in 1..n : i # h => d[i] = c[i]
  PROVE  Joined(d) = Joined(c) \o d[h]
<1>1. PICK g \in [0..n -> Seq(Int)] : Runs(g, c, n)  BY RunExists
<1>2. g[n] = Joined(c)  BY <1>1, JoinedIs
<1> DEFINE e == [i \in 0..n |-> IF i < h THEN g[i] ELSE g[i] \o d[h]]
<1>3. e \in [0..n -> Seq(Int)]
  <2>1. ASSUME NEW i \in 0..n PROVE g[i] \in Seq(Int) /\ g[i] \o d[h] \in Seq(Int)
    <3>1. g[i] \in Seq(Int) /\ d[h] \in Seq(Int)  OBVIOUS
    <3> QED  BY <3>1
  <2> QED  BY <2>1
<1>4. ASSUME NEW i \in 1..n PROVE e[i] = e[i - 1] \o d[i]
  <2>1. i \in 0..n /\ i - 1 \in 0..n /\ g[i] = g[i - 1] \o c[i]
    <3>1. i \in 0..n /\ i - 1 \in 0..n  OBVIOUS
    <3>2. g[i] = g[i - 1] \o c[i]  BY <1>1 DEF Runs
    <3> QED  BY <3>1, <3>2
  <2>2. g[i - 1] \in Seq(Int) /\ g[i - 1] \o <<>> = g[i - 1]
    <3>1. g[i - 1] \in Seq(Int)  BY <2>1
    <3> QED  BY <3>1
  <2>3. CASE i < h
    <3>1. i - 1 < h /\ i # h  BY <2>3
    <3> QED  BY <2>1, <2>3, <3>1
  <2>4. CASE i = h
    <3>1. i - 1 < h /\ ~(i < h)  BY <2>4
    <3>2. g[i] = g[i - 1]  BY <2>1, <2>2, <2>4
    <3> QED  BY <2>1, <2>4, <3>1, <3>2
  <2>5. CASE i > h
    <3>1. ~(i - 1 < h) /\ ~(i < h) /\ i # h  BY <2>5
    <3>2. c[i] = <<>> /\ d[i] = <<>>  BY <2>5, <3>1
    <3>3. g[i] = g[i - 1]  BY <2>1, <2>2, <3>2
    <3>4. PICK u : u = g[i - 1] \o d[h]  OBVIOUS
    <3>5. e[i] = u /\ e[i - 1] = u  BY <2>1, <3>1, <3>3, <3>4
    <3>6. u \o <<>> = u
      <4>1. d[h] \in Seq(Int)  OBVIOUS
      <4>2. u \in Seq(Int)  BY <2>2, <3>4, <4>1
      <4> QED  BY <4>2
    <3>7. e[i - 1] \o d[i] = u \o <<>>  BY <3>2, <3>5
    <3> QED  BY <3>5, <3>6, <3>7
  <2>6. i < h \/ i = h \/ i > h  OBVIOUS
  <2> QED  BY <2>3, <2>4, <2>5, <2>6
<1>5. e[0] = <<>>
  <2>1. 0 < h /\ 0 \in 0..n  OBVIOUS
  <2> QED  BY <1>1, <2>1 DEF Runs
<1>6. e[n] = Joined(c) \o d[h]
  <2>1. ~(n < h) /\ n \in 0..n  OBVIOUS
  <2> QED  BY <1>2, <2>1
<1> HIDE DEF e
<1>7. Runs(e, d, n)  BY <1>4, <1>5 DEF Runs
<1>8. Joined(d) = e[n]  BY <1>3, <1>7, JoinedIs
<1> QED  BY <1>6, <1>8

\* What n numbers count, each by one of them, are n.
LEMMA NumberOf ==
  ASSUME NEW n \in Nat, NEW S, NEW f \in [1..n -> S], \A x \in S : \E i \in 1..n : f[i] = x,
         \A i, j \in 1..n : f[i] = f[j] => i = j
  PROVE  Cardinality(S) = n
<1>1. f \in Injection(1..n, S)  BY DEF Injection, IsInjective
<1>2. f \in Surjection(1..n, S)  BY DEF Surjection
<1>3. f \in Bijection(1..n, S)  BY <1>1, <1>2 DEF Bijection
<1>4. ExistsBijection(1..n, S)  BY <1>3 DEF ExistsBijection
<1> QED  BY <1>4, FS_CountingElements

\* A step does not precede itself, nor one that precedes it.
LEMMA OneWay ==
  ASSUME NEW x, NEW y, x.fn \in Nat, x.pc \in Nat, y.fn \in Nat, y.pc \in Nat
  PROVE  ~(Precedes(x, y) /\ Precedes(y, x)) /\ ~Precedes(x, x)
BY DEF Precedes

\* What lists steps in the order in which they run is Sorted.
LEMMA OrderIs ==
  ASSUME NEW n \in Nat, NEW S, \A x \in S : x.fn \in Nat /\ x.pc \in Nat,
         NEW by \in [1..n -> S], \A i, j \in 1..n : i < j => Precedes(by[i], by[j]),
         \A x \in S : \E i \in 1..n : by[i] = x
  PROVE  Sorted(S) = by
<1> DEFINE Before(x) == {z \in S : Precedes(z, x)}
<1>1. ASSUME NEW i \in 1..n, NEW j \in 1..n
      PROVE  /\ by[i] = by[j] => i = j
             /\ Precedes(by[j], by[i]) => j < i
  <2>1. by[i].fn \in Nat /\ by[i].pc \in Nat /\ by[j].fn \in Nat /\ by[j].pc \in Nat  OBVIOUS
  <2>2. i < j \/ j < i \/ i = j  OBVIOUS
  <2>3. ~(Precedes(by[i], by[j]) /\ Precedes(by[j], by[i])) /\ ~Precedes(by[i], by[i])
    BY <2>1, OneWay
  <2> QED  BY <2>2, <2>3
<1>2. Cardinality(S) = n  BY <1>1, NumberOf
<1>3. ASSUME NEW i \in 1..n PROVE Cardinality(Before(by[i])) = i - 1
  <2> DEFINE B == Before(by[i])
             f == [j \in 1..(i - 1) |-> by[j]]
  <2>1. \A j \in 1..(i - 1) : j \in 1..n /\ j < i  OBVIOUS
  <2>2. f \in [1..(i - 1) -> B]  BY <2>1
  <2>3. \A z \in B : \E j \in 1..(i - 1) : f[j] = z
    <3> SUFFICES ASSUME NEW z \in B PROVE \E j \in 1..(i - 1) : f[j] = z  OBVIOUS
    <3>1. PICK j \in 1..n : by[j] = z  OBVIOUS
    <3>2. j < i  BY <1>1, <3>1
    <3>3. j \in 1..(i - 1)  BY <3>2
    <3> QED  BY <3>1, <3>3
  <2>4. \A j, k \in 1..(i - 1) : f[j] = f[k] => j = k  BY <1>1, <2>1
  <2> HIDE DEF B, f
  <2>5. i - 1 \in Nat  OBVIOUS
  <2>6. Cardinality(B) = i - 1  BY <2>2, <2>3, <2>4, <2>5, NumberOf
  <2> QED  BY <2>6 DEF B
<1>4. ASSUME NEW i \in 1..n
      PROVE  by[i] = CHOOSE x \in S : Cardinality(Before(x)) = i - 1
  <2>1. by[i] \in S /\ Cardinality(Before(by[i])) = i - 1  BY <1>3
  <2>2. ASSUME NEW x \in S, Cardinality(Before(x)) = i - 1 PROVE x = by[i]
    <3>1. PICK j \in 1..n : by[j] = x  OBVIOUS
    <3>2. Cardinality(Before(x)) = j - 1  BY <1>3, <3>1
    <3>3. j = i  BY <2>2, <3>2
    <3> QED  BY <3>1, <3>3
  <2> HIDE DEF Before
  <2> QED  BY <2>1, <2>2
<1>5. Sorted(S) = [i \in 1..n |-> CHOOSE x \in S : Cardinality(Before(x)) = i - 1]
  <2>1. PICK k : k = Cardinality(S)  OBVIOUS
  <2>2. Sorted(S) = [i \in 1..k |-> CHOOSE x \in S : Cardinality(Before(x)) = i - 1]
    BY <2>1 DEF Sorted
  <2> QED  BY <1>2, <2>1, <2>2
<1> HIDE DEF Before
<1> QED  BY <1>4, <1>5

-----------------------------------------------------------------------------
(* What went up the stack, and what is expected to.                        *)

\* What the steps of the fixture do to the expectations and to what was delivered.
LEMMA Calls ==
  ASSUME IInv, [Next]_vars
  PROVE  \/ \E v \in DOMAIN Scripts : \E name \in DOMAIN Scripts[v] : SetUp(name, v)
         \/ SetExpectation
         \/ /\ UNCHANGED <<test, delivered>> /\ failed \subseteq failed'
            /\ \/ UNCHANGED gm
               \/ phase = "body" /\ \E fn \in {"getmicrotime", "MockSequence"} : \E x :
                                      gm' = Called(gm, fn, x)
         \/ /\ UNCHANGED test /\ phase = "body"
            /\ \E p, S : IfInput(gm, p, S)
<1> USE DEF IInv, PassOn
<1>1. arg # 0 => phase = "body" /\ At("rx")  BY DEF InCall, At, InBody
<1>2. CASE Rx \/ RxErr
  <2>1. /\ UNCHANGED test /\ phase = "body"
    BY <1>2 DEF Rx, RxRefuse, RxFlush, RxQueue, RxAbsorb, RxAppend, RxFill, RxErr, Calling,
                Returns, At, InBody
  <2>2. \/ UNCHANGED <<gm, delivered, failed>>
        \/ UNCHANGED delivered /\ failed \subseteq failed' /\ gm' = Called(gm, "getmicrotime", 0)
        \/ \E p, S : IfInput(gm, p, S)
    BY <1>2 DEF Rx, RxRefuse, RxFlush, RxQueue, RxAbsorb, RxAppend, RxFill, RxErr, getmicrotime
  <2> QED  BY <2>1, <2>2
<1>3. CASE FlushOne \/ EntryErr
  <2>1. /\ UNCHANGED test /\ phase = "body"
    BY <1>1, <1>3 DEF FlushOne, EntryErr, Flushing, InLro, At, InBody
  <2>2. \/ UNCHANGED <<gm, delivered, failed>>
        \/ \E p, S : IfInput(gm, p, S)
    BY <1>3 DEF FlushOne, EntryErr
  <2> QED  BY <2>1, <2>2
<1>4. CASE ReadClock \/ CallMockSequence
  <2>1. /\ UNCHANGED <<test, delivered>> /\ failed \subseteq failed' /\ phase = "body"
    BY <1>4 DEF ReadClock, getmicrotime, CallMockSequence, At, InBody
  <2>2. \/ gm' = Called(gm, "getmicrotime", 0)
        \/ gm' = Called(gm, "MockSequence", 1)
    BY <1>4 DEF ReadClock, getmicrotime, CallMockSequence
  <2> QED  BY <2>1, <2>2
<1>5. CASE FreeErr \/ FlushErr \/ FlushDone \/ EnableForwardingStep \/ SetIfMtuStep \/ Generate
           \/ Assert
  BY <1>5 DEF FreeErr, FlushErr, FlushDone, EnableForwardingStep, SetIfMtuStep, Generate, Assert
<1>6. CASE FreeStep \/ Return \/ TestCaseTearDown \/ TearDown \/ UNCHANGED vars
  BY <1>6 DEF FreeStep, tcp_lro_free, Return, TestCaseTearDown, TearDown, vars
<1> QED  BY <1>2, <1>3, <1>4, <1>5, <1>6, NextCases DEF Working, Errs

\* An expectation was met after those that it waits for.
MetInOrder(es) == \A i \in DOMAIN es : es[i].called => \A j \in es[i].pre : es[j].called

\* A call keeps to that.
LEMMA OrderKept ==
  ASSUME NEW es, Stated(es), Linked(es), MetInOrder(es), NEW fn, NEW x
  PROVE  MetInOrder(Called(es, fn, x))
<1> DEFINE c == Called(es, fn, x)
           h == Handler(es, fn, x)
<1>1. /\ DOMAIN c = DOMAIN es
      /\ \A i \in DOMAIN es :
           /\ c[i].pre = es[i].pre
           /\ Handling(es, fn, x) = {} => c[i] = es[i]
           /\ Handling(es, fn, x) # {} => (c[i].called <=> (es[i].called \/ i = h))
  BY CalledFields
<1>2. \A i \in DOMAIN es : \A j \in es[i].pre : j \in DOMAIN es
  <2>1. DOMAIN es = 1..Len(es) /\ Len(es) \in Nat  BY DEF Stated
  <2>2. ASSUME NEW i \in DOMAIN es, NEW j \in es[i].pre PROVE j \in DOMAIN es
    <3>1. j \in 1..(i - 1)  BY DEF Linked
    <3> QED  BY <2>1, <3>1
  <2> QED  BY <2>2
<1>3. CASE Handling(es, fn, x) = {}
  <2> HIDE DEF c, h
  <2>1. \A i \in DOMAIN es : c[i].called = es[i].called  BY <1>1, <1>3
  <2>2. MetInOrder(c)  BY <1>1, <1>2, <2>1 DEF MetInOrder
  <2> QED  BY <2>2 DEF c
<1>4. CASE Handling(es, fn, x) # {}
  <2>1. h \in DOMAIN es /\ \A j \in es[h].pre : es[j].called
    BY <1>4, HandlerExists DEF Handling, Handles, IsSatisfied
  <2> HIDE DEF c, h
  <2>2. ASSUME NEW i \in DOMAIN c, c[i].called, NEW j \in c[i].pre PROVE c[j].called
    <3>1. i \in DOMAIN es /\ j \in es[i].pre /\ j \in DOMAIN es  BY <1>1, <1>2, <2>2
    <3>2. es[i].called \/ i = h  BY <1>1, <1>4, <2>2, <3>1
    <3>3. es[j].called  BY <2>1, <3>1, <3>2 DEF MetInOrder
    <3> QED  BY <1>1, <1>4, <3>1, <3>3
  <2>3. MetInOrder(c)  BY <2>2 DEF MetInOrder
  <2> QED  BY <2>3 DEF c
<1> QED  BY <1>3, <1>4

\* The bytes of flow f in the packets that went up the stack, and in the expectations
\* that were met.
Passed(ds, f)  == [i \in 1..Len(ds) |-> BytesOf(ds[i].pkt, f)]
Portion(es, f) ==
  [i \in 1..Len(es) |-> IF es[i].fn = "if_input" /\ es[i].called
                        THEN BytesOf(es[i].arg, f) ELSE <<>>]

Payloads(es) == \A i \in DOMAIN es : es[i].fn = "if_input" => es[i].arg.pay \in Seq(Int)

\* As long as nothing is reported they are the same.
BytesUp ==
  /\ Payloads(gm) /\ IsSeq(delivered)
  /\ failed = {} =>
       /\ \A i \in 1..Len(delivered) : delivered[i].pkt.pay \in Seq(Int)
       /\ \A f : Joined(Passed(delivered, f)) = Joined(Portion(gm, f))

\* They are bytes, and only expectations that were met have any.
LEMMA PortionIs ==
  ASSUME NEW es, Stated(es), Payloads(es), NEW f
  PROVE  /\ Portion(es, f) \in [1..Len(es) -> Seq(Int)]
         /\ \A i \in 1..Len(es) :
              /\ Portion(es, f)[i] = <<>> \/ (es[i].fn = "if_input" /\ es[i].called)
              /\ es[i].fn = "if_input" /\ es[i].called => Portion(es, f)[i] = BytesOf(es[i].arg, f)
<1>1. DOMAIN es = 1..Len(es)  BY DEF Stated
<1>2. ASSUME NEW i \in 1..Len(es)
      PROVE  (IF es[i].fn = "if_input" /\ es[i].called THEN BytesOf(es[i].arg, f) ELSE <<>>) \in Seq(Int)
  <2>1. <<>> \in Seq(Int)  OBVIOUS
  <2>2. CASE es[i].fn = "if_input" /\ es[i].called
    <3>1. BytesOf(es[i].arg, f) \in Seq(Int)  BY <1>1, <2>1, <2>2 DEF BytesOf, Payloads
    <3> QED  BY <2>2, <3>1
  <2>3. CASE ~(es[i].fn = "if_input" /\ es[i].called)  BY <2>1, <2>3
  <2> QED  BY <2>2, <2>3
<1> QED  BY <1>2 DEF Portion

\* Any call leaves them payloads; one of another function changes nothing here.
LEMMA PortionCalled ==
  ASSUME NEW es, Stated(es), Payloads(es), NEW fn, NEW x
  PROVE  /\ Payloads(Called(es, fn, x))
         /\ \A f : fn # "if_input" => Portion(Called(es, fn, x), f) = Portion(es, f)
<1> DEFINE c == Called(es, fn, x)
           h == Handler(es, fn, x)
<1>1. Stated(c) /\ Len(c) = Len(es) /\ DOMAIN es = 1..Len(es)  BY CalledStated DEF Stated
<1>2. /\ DOMAIN c = DOMAIN es
      /\ \A i \in DOMAIN es :
           /\ c[i].fn = es[i].fn /\ c[i].arg = es[i].arg
           /\ Handling(es, fn, x) = {} => c[i] = es[i]
           /\ Handling(es, fn, x) # {} => (c[i].called <=> (es[i].called \/ i = h))
  BY CalledFields
<1>3. Handling(es, fn, x) # {} => h \in DOMAIN es /\ es[h].fn = fn
  BY HandlerExists DEF Handling, Handles
<1> HIDE DEF c, h
<1>4. Payloads(c)  BY <1>2 DEF Payloads
<1>5. ASSUME NEW f, fn # "if_input" PROVE Portion(c, f) = Portion(es, f)
  <2>1. ASSUME NEW i \in DOMAIN es
        PROVE  (c[i].fn = "if_input" /\ c[i].called) <=> (es[i].fn = "if_input" /\ es[i].called)
    BY <1>2, <1>3, <1>5
  <2>2. ASSUME NEW i \in 1..Len(es)
        PROVE  (IF c[i].fn = "if_input" /\ c[i].called THEN BytesOf(c[i].arg, f) ELSE <<>>)
                 = (IF es[i].fn = "if_input" /\ es[i].called THEN BytesOf(es[i].arg, f) ELSE <<>>)
    BY <1>1, <1>2, <2>1
  <2> QED  BY <1>1, <2>2 DEF Portion
<1> QED  BY <1>4, <1>5 DEF c

\* A new expectation has no bytes yet.
LEMMA PortionExpected ==
  ASSUME NEW es, Stated(es), Payloads(es), NEW fn, NEW x, NEW seqs,
         fn = "getmicrotime" => x \in Timeval, fn = "if_input" => x.pay \in Seq(Int)
  PROVE  LET s == Append(es, Expectation(es, fn, x, seqs))
         IN  Payloads(s) /\ \A f : Joined(Portion(s, f)) = Joined(Portion(es, f))
<1> DEFINE n == Len(es)
           e == Expectation(es, fn, x, seqs)
           s == Append(es, e)
<1>1. /\ Stated(s) /\ Len(s) = n + 1 /\ s[n + 1] = e
      /\ \A i \in 1..n : s[i] = es[i]
  BY ExpectedStated
<1>2. n \in Nat /\ DOMAIN es = 1..n /\ DOMAIN s = 1..(n + 1)  BY <1>1 DEF Stated
<1>3. ~e.called /\ e.fn = fn /\ e.arg = x  BY DEF Expectation
<1> HIDE DEF e, s, n
<1>4. \A i \in 1..(n + 1) : i = n + 1 \/ (i \in 1..n /\ i # n + 1)  BY <1>2
<1>5. Payloads(s)  BY <1>1, <1>2, <1>3, <1>4 DEF Payloads
<1>6. ASSUME NEW f PROVE Joined(Portion(s, f)) = Joined(Portion(es, f))
  <2> DEFINE c == Portion(es, f)
             d == [i \in 1..(n + 1) |-> IF i = n + 1 THEN <<>> ELSE c[i]]
  <2>1. c \in [1..n -> Seq(Int)]  BY PortionIs DEF n
  <2>2. Portion(s, f) = d
    <3>1. ASSUME NEW i \in 1..(n + 1)
          PROVE  (IF s[i].fn = "if_input" /\ s[i].called THEN BytesOf(s[i].arg, f) ELSE <<>>) = d[i]
      <4>1. CASE i = n + 1  BY <1>1, <1>3, <4>1
      <4>2. CASE i \in 1..n /\ i # n + 1
        <5>1. d[i] = c[i] /\ s[i] = es[i]  BY <1>1, <4>2
        <5>2. c[i] = IF es[i].fn = "if_input" /\ es[i].called THEN BytesOf(es[i].arg, f) ELSE <<>>
          BY <4>2 DEF Portion, n
        <5> QED  BY <5>1, <5>2
      <4> QED  BY <1>4, <4>1, <4>2
    <3> HIDE DEF c
    <3> QED  BY <1>1, <3>1 DEF Portion
  <2> HIDE DEF c, d
  <2>3. <<>> \in Seq(Int)  OBVIOUS
  <2>4. Joined(d) = Joined(c) \o <<>> /\ Joined(c) \in Seq(Int)
    BY <1>2, <2>1, <2>3, JoinedAppend DEF d
  <2>5. Joined(c) \o <<>> = Joined(c)  BY <2>4
  <2> QED  BY <2>2, <2>4, <2>5 DEF c
<1> QED  BY <1>5, <1>6 DEF s, e

\* A packet that was expected: its bytes come after those that went up before.
LEMMA PortionInput ==
  ASSUME NEW es, Stated(es), Payloads(es), Linked(es), MetInOrder(es), NEW p, NEW f,
         CallFailures(es, "if_input", p) = {},
         \A i, j \in DOMAIN es :
           /\ i < j /\ es[i].fn = "if_input" /\ es[j].fn = "if_input"
           /\ FlowOf(es[i].arg) = FlowOf(es[j].arg)
           => es[i].seqs \cap es[j].seqs # {}
  PROVE  /\ p.pay \in Seq(Int)
         /\ Joined(Portion(Called(es, "if_input", p), f)) = Joined(Portion(es, f)) \o BytesOf(p, f)
<1> DEFINE c == Called(es, "if_input", p)
           h == Handler(es, "if_input", p)
           n == Len(es)
<1>1. Handling(es, "if_input", p) # {} /\ ~es[h].called  BY DEF CallFailures
<1>2. h \in DOMAIN es /\ es[h].fn = "if_input" /\ es[h].arg = p
  BY <1>1, HandlerExists DEF Handling, Handles
<1>3. Stated(c) /\ Len(c) = n /\ DOMAIN es = 1..n /\ n \in Nat /\ DOMAIN c = 1..n
  BY CalledStated DEF Stated
<1>4. \A i \in DOMAIN es :
        /\ c[i].fn = es[i].fn /\ c[i].arg = es[i].arg
        /\ c[i].called <=> (es[i].called \/ i = h)
  BY <1>1, CalledFields
<1>5. Payloads(c)  BY PortionCalled
<1>6. p.pay \in Seq(Int)  BY <1>2 DEF Payloads
<1> DEFINE P == Portion(es, f)
           Q == Portion(c, f)
<1> HIDE DEF c, h
<1>7. P \in [1..n -> Seq(Int)] /\ Q \in [1..n -> Seq(Int)]  BY <1>3, <1>5, PortionIs
<1>8. P[h] = <<>>  BY <1>1, <1>2, <1>3 DEF Portion
<1>9. Q[h] = BytesOf(p, f)  BY <1>2, <1>3, <1>4 DEF Portion
<1>10. ASSUME NEW i \in 1..n, i # h PROVE Q[i] = P[i]
  <2>1. (c[i].fn = "if_input" /\ c[i].called) <=> (es[i].fn = "if_input" /\ es[i].called)
    BY <1>3, <1>4, <1>10
  <2>2. Q[i] = IF c[i].fn = "if_input" /\ c[i].called THEN BytesOf(c[i].arg, f) ELSE <<>>
    BY <1>3 DEF Portion
  <2>3. P[i] = IF es[i].fn = "if_input" /\ es[i].called THEN BytesOf(es[i].arg, f) ELSE <<>>
    BY DEF Portion
  <2> QED  BY <1>3, <1>4, <2>1, <2>2, <2>3
<1> HIDE DEF P, Q
<1>11. CASE FlowOf(p) = f
  <2>1. ASSUME NEW i \in 1..n, i > h PROVE P[i] = <<>>
    <3> SUFFICES ASSUME P[i] # <<>> PROVE FALSE  OBVIOUS
    <3>1. es[i].fn = "if_input" /\ es[i].called /\ P[i] = BytesOf(es[i].arg, f)
      BY PortionIs DEF P, n
    <3>2. FlowOf(es[i].arg) = f  BY <3>1 DEF BytesOf
    <3>3. es[h].seqs \cap es[i].seqs # {}  BY <1>2, <1>3, <1>11, <2>1, <3>1, <3>2
    <3>4. h \in 1..(i - 1)  BY <1>2, <1>3, <2>1
    <3>5. h \in es[i].pre  BY <1>3, <3>3, <3>4 DEF Linked
    <3> QED  BY <1>1, <1>3, <3>1, <3>5 DEF MetInOrder
  <2>2. h \in 1..n  BY <1>2, <1>3
  <2>3. Joined(Q) = Joined(P) \o Q[h]
    <3> HIDE DEF n
    <3>1. n \in Nat /\ P \in [1..n -> Seq(Int)] /\ Q \in [1..n -> Seq(Int)]  BY <1>3, <1>7
    <3>2. \A i \in 1..n : i > h => P[i] = <<>>  BY <2>1
    <3>3. \A i \in 1..n : i # h => Q[i] = P[i]  BY <1>10
    <3> QED  BY <1>8, <2>2, <3>1, <3>2, <3>3, JoinedLate
  <2> QED  BY <1>6, <1>9, <2>3 DEF P, Q, c
<1>12. CASE FlowOf(p) # f
  <2>1. BytesOf(p, f) = <<>>  BY <1>12 DEF BytesOf
  <2>2. \A i \in 1..n : Q[i] = P[i]  BY <1>8, <1>9, <1>10, <2>1
  <2>3. Q = P  BY <1>7, <2>2
  <2>4. <<>> \in Seq(Int) /\ n \in Nat  BY <1>3
  <2>5. Joined(P) \in Seq(Int)
    <3> HIDE DEF n
    <3> QED  BY <1>7, <2>4, JoinedAppend
  <2>6. Joined(P) \o <<>> = Joined(P)  BY <2>5
  <2> QED  BY <1>6, <2>1, <2>3, <2>6 DEF P, Q, c
<1> QED  BY <1>11, <1>12

\* A step of a test that expects a packet states its bytes.
LEMMA StepStatesBytes ==
  ASSUME Shape, Placed, At("expect")
  PROVE  Step.fn = "if_input" => Step.arg.pay \in Seq(Int)
<1>1. phase = "body" /\ at.pc <= Len(Function) /\ Step.op = "expect"  BY DEF At, InBody
<1>2. IsFunction(Function)  BY <1>1, StepsAre
<1>3. at.pc \in DOMAIN Function  BY <1>1, <1>2 DEF Shape, IsFunction
<1> QED  BY <1>1, <1>2, <1>3 DEF IsFunction, Step

\* One more packet went up the stack.
LEMMA PassedOne ==
  ASSUME NEW ds, IsSeq(ds), NEW d, \A i \in 1..Len(ds) : ds[i].pkt.pay \in Seq(Int),
         d.pkt.pay \in Seq(Int), NEW f
  PROVE  /\ Joined(Passed(Append(ds, d), f)) = Joined(Passed(ds, f)) \o BytesOf(d.pkt, f)
         /\ \A i \in 1..Len(Append(ds, d)) : Append(ds, d)[i].pkt.pay \in Seq(Int)
<1> DEFINE n == Len(ds)
           s == Append(ds, d)
           b == BytesOf(d.pkt, f)
           c == Passed(ds, f)
           e == [i \in 1..(n + 1) |-> IF i = n + 1 THEN b ELSE c[i]]
<1>1. /\ n \in Nat /\ Len(s) = n + 1 /\ s[n + 1] = d
      /\ \A i \in 1..n : s[i] = ds[i]
  <2>1. PICK D : ds \in Seq(D)  BY DEF IsSeq
  <2>2. ds \in Seq(D \cup {d})  BY <2>1
  <2> QED  BY <2>2
<1> HIDE DEF s
<1>2. \A i \in 1..(n + 1) : i = n + 1 \/ (i \in 1..n /\ i # n + 1)  BY <1>1
<1>3. <<>> \in Seq(Int)  OBVIOUS
<1>4. b \in Seq(Int)  BY <1>3 DEF BytesOf
<1>5. c \in [1..n -> Seq(Int)]  BY <1>3 DEF Passed, BytesOf
<1>6. Passed(s, f) = e
  <2>1. ASSUME NEW i \in 1..(n + 1) PROVE BytesOf(s[i].pkt, f) = e[i]
    <3>1. CASE i = n + 1  BY <1>1, <3>1
    <3>2. CASE i \in 1..n /\ i # n + 1
      <4>1. c[i] = BytesOf(ds[i].pkt, f)  BY <3>2 DEF Passed
      <4>2. e[i] = c[i] /\ s[i] = ds[i]  BY <1>1, <3>2
      <4> QED  BY <4>1, <4>2
    <3> QED  BY <1>2, <3>1, <3>2
  <2> HIDE DEF b, c, n
  <2> QED  BY <1>1, <2>1 DEF Passed
<1>7. Joined(e) = Joined(c) \o b
  <2> HIDE DEF b, c, n, e
  <2> QED  BY <1>1, <1>4, <1>5, JoinedAppend DEF e
<1>8. \A i \in 1..Len(s) : s[i].pkt.pay \in Seq(Int)  BY <1>1, <1>2
<1> QED  BY <1>6, <1>7, <1>8 DEF s

\* Packets of one flow are expected in a certain order.
LEMMA AskedInOrder ==
  ASSUME IInv, Asked, phase = "body"
  PROVE  \A i, j \in DOMAIN gm :
           /\ i < j /\ gm[i].fn = "if_input" /\ gm[j].fn = "if_input"
           /\ FlowOf(gm[i].arg) = FlowOf(gm[j].arg)
           => gm[i].seqs \cap gm[j].seqs # {}
<1>1. PICK by \in [DOMAIN gm -> Behind("expect")] :
        /\ \A i \in DOMAIN gm : LET s == StepAt(by[i]) IN
             s.fn = gm[i].fn /\ s.arg = gm[i].arg /\ s.seqs = gm[i].seqs
        /\ \A i, j \in DOMAIN gm : i < j => Precedes(by[i], by[j])
  BY DEF Asked
<1>2. InputsInOrder(Script)  BY StepsAre DEF IInv, Script, IsTest
<1> SUFFICES ASSUME NEW i \in DOMAIN gm, NEW j \in DOMAIN gm, i < j, gm[i].fn = "if_input",
                    gm[j].fn = "if_input", FlowOf(gm[i].arg) = FlowOf(gm[j].arg)
             PROVE  gm[i].seqs \cap gm[j].seqs # {}
  OBVIOUS
<1>3. by[i] \in StepsIn(Script, "expect") /\ by[j] \in StepsIn(Script, "expect")
      /\ Precedes(by[i], by[j])
  BY <1>1 DEF Behind, StepsOf, Script
<1>4. /\ StepAt(by[i]).fn = "if_input" /\ StepAt(by[j]).fn = "if_input"
      /\ StepAt(by[i]).arg = gm[i].arg /\ StepAt(by[j]).arg = gm[j].arg
      /\ StepAt(by[i]).seqs = gm[i].seqs /\ StepAt(by[j]).seqs = gm[j].seqs
  BY <1>1
<1>5. StepAt(by[i]).seqs \cap StepAt(by[j]).seqs # {}
  <2>1. FlowOf(StepAt(by[i]).arg) = FlowOf(StepAt(by[j]).arg)  BY <1>4
  <2> QED  BY <1>2, <1>3, <1>4, <2>1 DEF InputsInOrder, StepAt
<1> QED  BY <1>4, <1>5

\* The expectations of every step are met in order ...
LEMMA MetInOrderStep ==
  ASSUME IInv, Stated(gm), Linked(gm), MetInOrder(gm), [Next]_vars
  PROVE  MetInOrder(gm')
<1>1. CASE SetExpectation
  <2> DEFINE n == Len(gm) + 1
  <2>1. /\ gm' = Append(gm, Expectation(gm, Step.fn, Step.arg, Step.seqs))
        /\ Step.fn = "getmicrotime" => Step.arg \in Timeval
    BY <1>1, StepStatesTime DEF SetExpectation, IInv
  <2>2. /\ Stated(gm') /\ Len(gm') = n /\ gm'[n] = Expectation(gm, Step.fn, Step.arg, Step.seqs)
        /\ \A i \in 1..Len(gm) : gm'[i] = gm[i]
    BY <2>1, ExpectedStated
  <2>3. Len(gm) \in Nat /\ DOMAIN gm = 1..Len(gm) /\ DOMAIN gm' = 1..n  BY <2>2 DEF Stated
  <2>4. ~gm'[n].called  BY <2>2 DEF Expectation
  <2>5. ASSUME NEW i \in DOMAIN gm, NEW j \in gm[i].pre PROVE j \in DOMAIN gm
    <3>1. j \in 1..(i - 1)  BY DEF Linked
    <3> QED  BY <2>3, <3>1
  <2>6. \A i \in 1..n : i = n \/ i \in 1..Len(gm)  BY <2>3
  <2> HIDE DEF n
  <2>7. ASSUME NEW i \in DOMAIN gm', gm'[i].called, NEW j \in gm'[i].pre PROVE gm'[j].called
    <3>1. i \in DOMAIN gm /\ gm'[i] = gm[i]  BY <2>2, <2>3, <2>4, <2>6, <2>7
    <3>2. j \in DOMAIN gm /\ gm'[j] = gm[j]  BY <2>2, <2>3, <2>5, <2>7, <3>1
    <3> QED  BY <2>7, <3>1, <3>2 DEF MetInOrder
  <2> QED  BY <2>7 DEF MetInOrder
<1>2. ASSUME NEW tv, getmicrotime(tv) PROVE MetInOrder(gm')
  BY <1>2, OrderKept DEF getmicrotime
<1>3. ASSUME NEW v \in DOMAIN Scripts, NEW name \in DOMAIN Scripts[v], SetUp(name, v)
      PROVE  MetInOrder(gm')
  BY <1>3 DEF SetUp, MetInOrder
<1> QED  BY <1>1, <1>2, <1>3, MockSteps, OrderKept

\* ... and account for the bytes that went up the stack.
LEMMA BytesUpStep ==
  ASSUME IInv, TInv, Asked, Linked(gm), MetInOrder(gm), BytesUp, [Next]_vars
  PROVE  BytesUp'
<1> USE DEF IInv, TInv
<1>1. ASSUME NEW v \in DOMAIN Scripts, NEW name \in DOMAIN Scripts[v], SetUp(name, v)
      PROVE  BytesUp'
  <2>1. delivered' = <<>> /\ gm' = <<>>  BY <1>1 DEF SetUp
  <2>2. IsSeq(<<>>) /\ Len(<<>>) = 0 /\ Payloads(<<>>)
    <3>1. <<>> \in Seq({})  OBVIOUS
    <3> QED  BY <3>1 DEF IsSeq, Payloads
  <2>3. ASSUME NEW f PROVE Passed(<<>>, f) = <<>> /\ Portion(<<>>, f) = <<>>
    BY <2>2 DEF Passed, Portion
  <2>4. \A f : Joined(Passed(<<>>, f)) = Joined(Portion(<<>>, f))
    BY <2>3
  <2> QED  BY <2>1, <2>2, <2>4 DEF BytesUp
<1>2. CASE SetExpectation
  <2>1. /\ gm' = Append(gm, Expectation(gm, Step.fn, Step.arg, Step.seqs))
        /\ UNCHANGED <<failed, delivered>>
        /\ Step.fn = "getmicrotime" => Step.arg \in Timeval
        /\ Step.fn = "if_input" => Step.arg.pay \in Seq(Int)
    BY <1>2, StepStatesTime, StepStatesBytes DEF SetExpectation
  <2>2. Payloads(gm') /\ \A f : Joined(Portion(gm', f)) = Joined(Portion(gm, f))
    BY <2>1, PortionExpected DEF BytesUp
  <2> QED  BY <2>1, <2>2 DEF BytesUp
<1>3. ASSUME UNCHANGED delivered, failed \subseteq failed', UNCHANGED gm
      PROVE  BytesUp'
  BY <1>3 DEF BytesUp
<1>4. ASSUME UNCHANGED delivered, failed \subseteq failed', NEW fn, fn # "if_input", NEW x,
             gm' = Called(gm, fn, x)
      PROVE  BytesUp'
  <2>1. Payloads(gm') /\ \A f : Portion(gm', f) = Portion(gm, f)
    BY <1>4, PortionCalled DEF BytesUp
  <2>2. failed' = {} => failed = {}  BY <1>4
  <2> QED  BY <1>4, <2>1, <2>2 DEF BytesUp
<1>5. ASSUME NEW p, NEW S, phase = "body", IfInput(gm, p, S)
      PROVE  BytesUp'
  <2>1. PICK d : d = [pkt |-> p, at |-> at]  OBVIOUS
  <2>2. /\ delivered' = Append(delivered, d) /\ d.pkt = p
        /\ failed' = failed \cup CallFailures(gm, "if_input", p)
        /\ gm' = Called(gm, "if_input", p)
    BY <1>5, <2>1 DEF IfInput
  <2>3. IsSeq(delivered')  BY <2>2, Longer DEF BytesUp
  <2>4. Payloads(gm')  BY <2>2, PortionCalled DEF BytesUp
  <2>5. ASSUME failed' = {}
        PROVE  /\ \A i \in 1..Len(delivered') : delivered'[i].pkt.pay \in Seq(Int)
               /\ \A f : Joined(Passed(delivered', f)) = Joined(Portion(gm', f))
    <3>1. failed = {} /\ CallFailures(gm, "if_input", p) = {}  BY <2>2, <2>5
    <3>2. \A i, j \in DOMAIN gm :
            /\ i < j /\ gm[i].fn = "if_input" /\ gm[j].fn = "if_input"
            /\ FlowOf(gm[i].arg) = FlowOf(gm[j].arg)
            => gm[i].seqs \cap gm[j].seqs # {}
      BY <1>5, AskedInOrder
    <3>3. ASSUME NEW f
          PROVE  /\ p.pay \in Seq(Int)
                 /\ Joined(Portion(gm', f)) = Joined(Portion(gm, f)) \o BytesOf(p, f)
      <4>1. Stated(gm) /\ Payloads(gm)  BY DEF BytesUp
      <4> QED  BY <2>2, <3>1, <3>2, <4>1, PortionInput
    <3>4. ASSUME NEW f
          PROVE  /\ Joined(Passed(delivered', f)) = Joined(Passed(delivered, f)) \o BytesOf(p, f)
                 /\ \A i \in 1..Len(delivered') : delivered'[i].pkt.pay \in Seq(Int)
      <4>1. IsSeq(delivered) /\ \A i \in 1..Len(delivered) : delivered[i].pkt.pay \in Seq(Int)
        BY <3>1 DEF BytesUp
      <4>2. d.pkt.pay \in Seq(Int)  BY <2>2, <3>3
      <4> QED  BY <2>2, <4>1, <4>2, PassedOne
    <3>5. ASSUME NEW f PROVE Joined(Passed(delivered, f)) = Joined(Portion(gm, f))
      BY <3>1 DEF BytesUp
    <3> QED  BY <3>3, <3>4, <3>5
  <2> QED  BY <2>3, <2>4, <2>5 DEF BytesUp
<1> QED  BY <1>1, <1>2, <1>3, <1>4, <1>5, Calls

-----------------------------------------------------------------------------
(* When the body is over: all steps of the test are behind it.             *)

After == phase \in {"caseTearDown", "mockTearDown", "over"}

Ran == After => IsTest(Script) /\ \A op : StepsOf(op) \subseteq Behind(op)

\* Tear-down changes neither the test nor what it has seen.
LEMMA Afterwards ==
  ASSUME IInv, [Next]_vars, After'
  PROVE  /\ UNCHANGED <<test, at, gm, delivered, pkts, took, arg, ret>> /\ failed \subseteq failed'
         /\ arg = 0
         /\ \/ After
            \/ phase = "body" /\ ~InBody /\ at.fn = Len(Script)
         /\ phase' = "over" => phase = "over" \/ TearDown
<1> USE DEF IInv, After
<1>1. CASE Working
  <2>1. UNCHANGED phase  BY <1>1, WorkingFrame
  <2>2. phase = "body"
    BY <1>1 DEF Working, Errs, Rx, RxRefuse, RxFlush, RxQueue, RxAbsorb, RxAppend, RxFill, RxErr,
                EntryErr, FreeErr, FlushErr, ReadClock, FlushOne, Calling, Flushing, InLro, InCall,
                At, InBody
  <2> QED  BY <2>1, <2>2
<1>2. ~(FlushDone \/ Generate \/ Assert \/ SetExpectation \/ CallMockSequence
        \/ EnableForwardingStep \/ SetIfMtuStep \/ FreeStep)
  BY DEF FlushDone, Flushing, Generate, Assert, SetExpectation, CallMockSequence, InCall,
         EnableForwardingStep, SetIfMtuStep, FreeStep, At, InBody
<1>3. ~\E v \in DOMAIN Scripts : \E name \in DOMAIN Scripts[v] : SetUp(name, v)  BY DEF SetUp
<1>4. CASE Return
  <2>1. /\ UNCHANGED <<test, at, gm, delivered, pkts, took, arg, ret, failed>>
        /\ phase = "body" /\ ~InBody /\ phase' = "caseTearDown"
        /\ at.fn = Len(Script)
    BY <1>4 DEF Return, Script
  <2>2. arg = 0  BY <2>1 DEF InCall, At
  <2> QED  BY <2>1, <2>2
<1>5. CASE TestCaseTearDown \/ TearDown
  <2>1. /\ UNCHANGED <<test, at, gm, delivered, pkts, took, arg, ret>> /\ failed \subseteq failed'
        /\ phase # "body" /\ After
        /\ phase' = "over" => TearDown
    BY <1>5 DEF TestCaseTearDown, TearDown, tcp_lro_free
  <2>2. arg = 0  BY <2>1 DEF InCall, At, InBody
  <2> QED  BY <2>1, <2>2
<1>6. CASE UNCHANGED vars
  <2>1. UNCHANGED <<test, at, gm, delivered, pkts, took, arg, ret, failed, phase>>
    BY <1>6 DEF vars
  <2>2. arg = 0  BY <2>1 DEF InCall, At, InBody
  <2> QED  BY <2>1, <2>2
<1> QED  BY <1>1, <1>2, <1>3, <1>4, <1>5, <1>6, NextCases

\* The test has run all of its steps.
LEMMA RanStep ==
  ASSUME IInv, Ran, [Next]_vars
  PROVE  Ran'
<1>0. Shape /\ Placed  BY DEF IInv
<1> SUFFICES ASSUME After' PROVE IsTest(Script)' /\ \A op : (StepsOf(op) \subseteq Behind(op))'
  BY DEF Ran
<1>1. test' = test /\ at' = at  BY Afterwards
<1>2. Script' = Script /\ \A op : StepsOf(op)' = StepsOf(op) /\ Behind(op)' = Behind(op)
  BY <1>1 DEF Script, StepsOf, Behind
<1>3. CASE After  BY <1>2, <1>3 DEF Ran
<1>4. CASE phase = "body" /\ ~InBody /\ at.fn = Len(Script)
  <2>0. /\ IsTest(Script) /\ IsFunction(Function)
        /\ \A op : \A x \in StepsOf(op) :
             /\ x.fn \in 1..Len(Script) /\ x.pc \in 1..Len(Script[x.fn])
             /\ x.fn \in Nat /\ x.pc \in Nat
    BY <1>0, <1>4, StepsAre, Zenon DEF Script
  <2>1. IsTest(Script)  BY <2>0, Zenon
  <2>2. /\ Len(Function) \in Nat /\ Function = Script[at.fn]
        /\ at.fn \in Nat /\ at.pc \in Nat
    BY <1>0, <1>4, <2>0, Zenon DEF IsFunction, Shape, Function, Script
  <2>3. at.pc > Len(Function)  BY <1>4, <2>2 DEF InBody
  <2>4. ASSUME NEW op, NEW x \in StepsOf(op) PROVE Precedes(x, at)
    <3>1. x.fn \in 1..Len(Script) /\ x.pc \in 1..Len(Script[x.fn]) /\ x.fn \in Nat /\ x.pc \in Nat
      BY <2>0
    <3>2. CASE x.fn = at.fn
      <4>1. x.pc < at.pc  BY <2>2, <2>3, <3>1, <3>2
      <4> QED  BY <3>2, <4>1 DEF Precedes
    <3>3. CASE x.fn # at.fn
      <4>1. x.fn < at.fn  BY <1>4, <2>2, <3>1, <3>3
      <4> QED  BY <4>1 DEF Precedes
    <3> QED  BY <3>2, <3>3
  <2>5. \A op : StepsOf(op) \subseteq Behind(op)  BY <2>4 DEF Behind
  <2> QED  BY <1>2, <2>1, <2>5
<1> QED  BY <1>3, <1>4, Afterwards

\* Its expectations are those of all of its steps.
AskedAll ==
  After =>
    \E by \in [DOMAIN gm -> Behind("expect")] :
      /\ \A i \in DOMAIN gm : LET s == StepAt(by[i]) IN
           s.fn = gm[i].fn /\ s.arg = gm[i].arg /\ s.seqs = gm[i].seqs
      /\ \A i, j \in DOMAIN gm : i < j => Precedes(by[i], by[j])
      /\ "assert" \notin failed => \A x \in Behind("expect") : \E i \in DOMAIN gm : by[i] = x

\* They stay what they were when the body was over.
LEMMA AskedAllStep ==
  ASSUME IInv, Asked, AskedAll, [Next]_vars
  PROVE  AskedAll'
<1> DEFINE B == Behind("expect")
<1> SUFFICES ASSUME After'
             PROVE  \E by \in [DOMAIN gm' -> B'] :
                      /\ \A i \in DOMAIN gm' : LET s == StepAt(by[i])' IN
                           s.fn = gm'[i].fn /\ s.arg = gm'[i].arg /\ s.seqs = gm'[i].seqs
                      /\ \A i, j \in DOMAIN gm' : i < j => Precedes(by[i], by[j])
                      /\ "assert" \notin failed' => \A x \in B' : \E i \in DOMAIN gm' : by[i] = x
  BY DEF AskedAll
<1>1. UNCHANGED <<test, at, gm>> /\ failed \subseteq failed'  BY Afterwards
<1>2. B' = B /\ \A x : StepAt(x)' = StepAt(x)  BY <1>1 DEF Behind, StepsOf, StepAt, Script
<1>3. \E by \in [DOMAIN gm -> B] :
        /\ \A i \in DOMAIN gm : LET s == StepAt(by[i]) IN
             s.fn = gm[i].fn /\ s.arg = gm[i].arg /\ s.seqs = gm[i].seqs
        /\ \A i, j \in DOMAIN gm : i < j => Precedes(by[i], by[j])
        /\ "assert" \notin failed => \A x \in B : \E i \in DOMAIN gm : by[i] = x
  BY Afterwards DEF Asked, AskedAll
<1> HIDE DEF B
<1>4. PICK by \in [DOMAIN gm -> B] :
        /\ \A i \in DOMAIN gm : LET s == StepAt(by[i]) IN
             s.fn = gm[i].fn /\ s.arg = gm[i].arg /\ s.seqs = gm[i].seqs
        /\ \A i, j \in DOMAIN gm : i < j => Precedes(by[i], by[j])
        /\ "assert" \notin failed => \A x \in B : \E i \in DOMAIN gm : by[i] = x
  BY <1>3
<1>5. /\ by \in [DOMAIN gm' -> B']
      /\ \A i \in DOMAIN gm' : LET s == StepAt(by[i])' IN
             s.fn = gm'[i].fn /\ s.arg = gm'[i].arg /\ s.seqs = gm'[i].seqs
      /\ \A i, j \in DOMAIN gm' : i < j => Precedes(by[i], by[j])
      /\ "assert" \notin failed' => \A x \in B' : \E i \in DOMAIN gm' : by[i] = x
  BY <1>1, <1>2, <1>4
<1> QED  BY <1>5

\* A test that reports nothing has seen every packet that it expects.
Verified == phase = "over" /\ failed = {} => \A i \in DOMAIN gm : gm[i].fn = "if_input" => gm[i].called

\* The mock interface sees to that when it is destroyed.
LEMMA VerifiedStep ==
  ASSUME IInv, Verified, [Next]_vars
  PROVE  Verified'
<1> SUFFICES ASSUME phase' = "over", failed' = {}
             PROVE  \A i \in DOMAIN gm' : gm'[i].fn = "if_input" => gm'[i].called
  BY DEF Verified
<1>1. UNCHANGED gm /\ failed \subseteq failed' /\ (phase = "over" \/ TearDown)
  BY Afterwards DEF After
<1>2. CASE phase = "over"  BY <1>1, <1>2 DEF Verified
<1>3. CASE TearDown
  <2>1. Verify(gm, IfnetFns) = {}  BY <1>3 DEF TearDown
  <2> QED  BY <1>1, <2>1 DEF Verify, IfnetFns
<1> QED  BY <1>1, <1>2, <1>3

\* The packets are those of the steps behind, in their order, and of the step that is
\* on its way; LRO has taken those that these steps want it to take.
Given ==
  phase # "start" /\ "assert" \notin failed =>
    \E by \in [1..Len(pkts) -> StepsOf("rx")] :
      /\ \A k \in 1..Len(pkts) : pkts[k] = StepAt(by[k]).pkt
      /\ \A j, k \in 1..Len(pkts) : j < k => Precedes(by[j], by[k])
      /\ \A k \in 1..Len(pkts) :
           k # arg => by[k] \in Behind("rx") /\ (k \in took <=> StepAt(by[k]).ret = Taken)
      /\ \A x \in Behind("rx") : \E k \in 1..Len(pkts) : k # arg /\ by[k] = x
      /\ arg # 0 => arg = Len(pkts) /\ by[arg] = at /\ (arg \in took <=> ret = Taken)

\* What the steps of the body do to a call of tcp_lro_rx.
LEMMA CallSteps ==
  ASSUME IInv, [Next]_vars, phase = "body", phase' = "body"
  PROVE  \/ Generate
         \/ Assert
         \/ Calling /\ UNCHANGED at /\ \E r : Returns(r)
         \/ UNCHANGED <<pkts, arg, ret, took>>
<1> USE DEF IInv
<1>1. CASE Rx \/ RxErr
  <2>1. Calling /\ \E r : Returns(r)
    BY <1>1 DEF Rx, RxRefuse, RxFlush, RxQueue, RxAbsorb, RxAppend, RxFill, RxErr
  <2> QED  BY <2>1 DEF Returns
<1>2. CASE ReadClock \/ FlushOne \/ EntryErr \/ FreeErr \/ FlushErr
  BY <1>2 DEF ReadClock, FlushOne, EntryErr, FreeErr, FlushErr
<1>3. CASE \/ FlushDone \/ Return \/ TestCaseTearDown \/ TearDown \/ SetExpectation
           \/ CallMockSequence \/ EnableForwardingStep \/ SetIfMtuStep \/ FreeStep \/ UNCHANGED vars
  BY <1>3 DEF FlushDone, Return, TestCaseTearDown, TearDown, SetExpectation, CallMockSequence,
              EnableForwardingStep, SetIfMtuStep, FreeStep, vars
<1>4. ~\E v \in DOMAIN Scripts : \E name \in DOMAIN Scripts[v] : SetUp(name, v)  BY DEF SetUp
<1> QED  BY <1>1, <1>2, <1>3, <1>4, NextCases DEF Working, Errs

\* Every step keeps to that.
LEMMA GivenStep ==
  ASSUME IInv, IInv', TInv, Given, [Next]_vars
  PROVE  Given'
<1> USE DEF IInv
<1> DEFINE n == Len(pkts)
           S == StepsOf("rx")
           B == Behind("rx")
<1>0. n \in Nat  BY Longer DEF Shape
<1>1. ASSUME NEW v \in DOMAIN Scripts, NEW name \in DOMAIN Scripts[v], SetUp(name, v)
      PROVE  Given'
  <2>1. pkts' = <<>> /\ arg' = 0  BY <1>1 DEF SetUp
  <2>2. Behind("rx")' = {}  BY <1>1, BehindNothing
  <2>3. Len(<<>>) = 0 /\ 1..0 = {}  OBVIOUS
  <2> DEFINE by == [i \in {} |-> i]
  <2>4. by \in [1..Len(pkts') -> S']  BY <2>1, <2>3
  <2> HIDE DEF by
  <2>5. \A k \in 1..Len(pkts') : FALSE  BY <2>1, <2>3
  <2> QED  BY <2>1, <2>2, <2>4, <2>5 DEF Given
<1>2. ASSUME After' PROVE Given'
  <2>1. UNCHANGED <<test, at, pkts, took, arg, ret>> /\ failed \subseteq failed' /\ phase # "start"
    BY <1>2, Afterwards DEF After
  <2>2. S' = S /\ B' = B /\ \A x : StepAt(x)' = StepAt(x)
    BY <2>1 DEF Behind, StepsOf, StepAt, Script
  <2> HIDE DEF S, B
  <2> QED  BY <2>1, <2>2 DEF Given, S, B
<1>3. ASSUME phase = "body", phase' = "body", "assert" \notin failed' PROVE Given'
  <2>1. test' = test /\ S' = S /\ \A x : StepAt(x)' = StepAt(x)
    BY <1>3, BodyMoves DEF StepsOf, StepAt, Script
  <2>2. "assert" \notin failed
    <3>1. ~\E v \in DOMAIN Scripts : \E name \in DOMAIN Scripts[v] : SetUp(name, v)
      BY <1>3 DEF SetUp
    <3> QED  BY <1>3, <3>1, MockSteps DEF getmicrotime, SetExpectation
  <2>3. PICK by \in [1..n -> S] :
          /\ \A k \in 1..n : pkts[k] = StepAt(by[k]).pkt
          /\ \A j, k \in 1..n : j < k => Precedes(by[j], by[k])
          /\ \A k \in 1..n : k # arg => by[k] \in B /\ (k \in took <=> StepAt(by[k]).ret = Taken)
          /\ \A x \in B : \E k \in 1..n : k # arg /\ by[k] = x
          /\ arg # 0 => arg = n /\ by[arg] = at /\ (arg \in took <=> ret = Taken)
    BY <1>3, <2>2 DEF Given
  <2>4. /\ at' = at => B' = B
        /\ ~Advance => B' = B
        /\ Advance => (B' = B \/ B' = B \cup {at})
        /\ Advance /\ ~Assert => B' = B
    <3>1. \/ at' = at /\ B' = B
          \/ InBody /\ Advance /\ B' = IF At("rx") THEN B \cup {at} ELSE B
          \/ ~InBody /\ B' = B
      BY <1>3, BehindNext
    <3>2. Advance => at' # at  BY DEF Advance, Shape
    <3> HIDE DEF B
    <3> QED  BY <3>1, <3>2, AdvanceElsewhere
  <2>5. Step = StepAt(at)  BY DEF Step, Function, StepAt, Script
  <2> HIDE DEF S, B
  <2>6. CASE Generate
    <3>1. /\ arg = 0 /\ arg' = n + 1 /\ pkts' = Append(pkts, Step.pkt) /\ At("rx")
          /\ UNCHANGED <<at, ret, took>> /\ ret = "none"
      BY <2>6 DEF Generate, InCall
    <3>2. /\ Len(pkts') = n + 1 /\ pkts'[n + 1] = Step.pkt
          /\ \A k \in 1..n : pkts'[k] = pkts[k]
      <4>1. PICK D : pkts \in Seq(D)  BY DEF Shape, IsSeq
      <4>2. pkts \in Seq(D \cup {Step.pkt}) /\ Step.pkt \in D \cup {Step.pkt}  BY <4>1
      <4> QED  BY <3>1, <4>2
    <3>3. at \in S  BY <1>3, <3>1, StepsAre DEF S
    <3>4. took \subseteq 1..n /\ "none" # Taken  BY Codes DEF TInv, Named
    <3>5. \A k \in 1..(n + 1) : k = n + 1 \/ (k \in 1..n /\ k # n + 1)  BY <1>0
    <3>6. \A k \in 1..n : k \in 1..(n + 1) /\ k # n + 1 /\ k # 0 /\ ~(n + 1 < k)  BY <1>0
    <3>7. n + 1 \notin took /\ n + 1 \in 1..(n + 1) /\ n + 1 # 0 /\ ~(n + 1 < n + 1)  BY <1>0, <3>4
    <3> HIDE DEF n
    <3>8. PICK m : m = n + 1  OBVIOUS
    <3>9. PICK to : to = [k \in 1..m |-> IF k = m THEN at ELSE by[k]]  OBVIOUS
    <3>10. /\ to \in [1..m -> S] /\ to[m] = at
           /\ \A k \in 1..n : to[k] = by[k]
      BY <2>3, <3>3, <3>5, <3>6, <3>7, <3>8, <3>9
    <3>11. \A k \in 1..m : pkts'[k] = StepAt(to[k]).pkt
      <4> SUFFICES ASSUME NEW k \in 1..m PROVE pkts'[k] = StepAt(to[k]).pkt  OBVIOUS
      <4>1. CASE k = m  BY <2>5, <3>2, <3>8, <3>10, <4>1
      <4>2. CASE k \in 1..n  BY <2>3, <3>2, <3>10, <4>2
      <4> QED  BY <3>5, <3>8, <4>1, <4>2
    <3>12. \A j, k \in 1..m : j < k => Precedes(to[j], to[k])
      <4> SUFFICES ASSUME NEW j \in 1..m, NEW k \in 1..m, j < k PROVE Precedes(to[j], to[k])
        OBVIOUS
      <4>1. j \in 1..n  BY <3>5, <3>6, <3>7, <3>8
      <4>2. CASE k = m
        <5>1. by[j] \in B  BY <2>3, <3>1, <3>6, <4>1
        <5> QED  BY <3>10, <4>1, <4>2, <5>1 DEF B, Behind
      <4>3. CASE k \in 1..n  BY <2>3, <3>10, <4>1, <4>3
      <4> QED  BY <3>5, <3>8, <4>2, <4>3
    <3>13. \A k \in 1..m : k # m => to[k] \in B /\ (k \in took <=> StepAt(to[k]).ret = Taken)
      <4> SUFFICES ASSUME NEW k \in 1..m, k # m
                   PROVE  to[k] \in B /\ (k \in took <=> StepAt(to[k]).ret = Taken)
        OBVIOUS
      <4>1. k \in 1..n /\ k # arg  BY <3>1, <3>5, <3>6, <3>8
      <4> QED  BY <2>3, <3>10, <4>1
    <3>14. \A x \in B : \E k \in 1..m : k # m /\ to[k] = x
      <4> SUFFICES ASSUME NEW x \in B PROVE \E k \in 1..m : k # m /\ to[k] = x  OBVIOUS
      <4>1. PICK k \in 1..n : by[k] = x  BY <2>3
      <4> QED  BY <3>6, <3>8, <3>10, <4>1
    <3>15. m # 0 /\ ~(m \in took) /\ ~(ret = Taken)  BY <3>1, <3>4, <3>7, <3>8
    <3>16. Len(pkts') = m /\ arg' = m /\ B' = B /\ at' = at /\ took' = took /\ ret' = ret
      BY <2>4, <3>1, <3>2, <3>8
    <3> QED  BY <2>1, <3>10, <3>11, <3>12, <3>13, <3>14, <3>15, <3>16 DEF Given, S, B
  <2>7. CASE Assert
    <3>1. /\ ret # "none" /\ arg # 0 /\ arg' = 0 /\ UNCHANGED <<pkts, took>>
          /\ ret = Step.ret /\ Advance
      BY <1>3, <2>7 DEF Assert, InCall
    <3>2. /\ arg = n /\ by[arg] = at /\ (arg \in took <=> Step.ret = Taken)  BY <2>3, <3>1
    <3>3. arg \in 1..n  BY <1>0, <3>1, <3>2 DEF Shape
    <3>4. At("rx")  BY <3>1 DEF InCall
    <3>5. B' = B \cup {at}
      <4>1. at \in B'
        <5>1. Precedes(at, at')  BY <3>1, Onward
        <5> QED  BY <1>3, <2>1, <3>4, <5>1, BehindGrows DEF B
      <4>2. at \notin B
        <5>1. ~Precedes(at, at)  BY DEF Shape, Precedes
        <5> QED  BY <5>1 DEF B, Behind
      <4> QED  BY <2>4, <3>1, <4>1, <4>2
    <3>6. \A k \in 1..n : k # 0  OBVIOUS
    <3> HIDE DEF n
    <3>7. \A k \in 1..n : by[k] \in B' /\ (k \in took <=> StepAt(by[k]).ret = Taken)
      <4> SUFFICES ASSUME NEW k \in 1..n
                   PROVE  by[k] \in B' /\ (k \in took <=> StepAt(by[k]).ret = Taken)
        OBVIOUS
      <4>1. CASE k = arg  BY <2>5, <3>2, <3>5, <4>1
      <4>2. CASE k # arg  BY <2>3, <3>5, <4>2
      <4> QED  BY <4>1, <4>2
    <3>8. \A x \in B' : \E k \in 1..n : k # 0 /\ by[k] = x
      <4> SUFFICES ASSUME NEW x \in B' PROVE \E k \in 1..n : k # 0 /\ by[k] = x  OBVIOUS
      <4>1. CASE x = at  BY <3>2, <3>3, <3>6, <4>1
      <4>2. CASE x \in B  BY <2>3, <3>6, <4>2
      <4> QED  BY <3>5, <4>1, <4>2
    <3>9. Len(pkts') = n /\ pkts' = pkts /\ arg' = 0 /\ took' = took  BY <3>1 DEF n
    <3> QED  BY <2>1, <2>3, <3>7, <3>8, <3>9 DEF Given, S, B
  <2>8. CASE Calling /\ UNCHANGED at /\ \E r : Returns(r)
    <3>1. PICK r : Returns(r)  BY <2>8
    <3>2. /\ ret' = r /\ took' = (IF r = Taken THEN took \cup {arg} ELSE took)
          /\ UNCHANGED <<arg, pkts, at>> /\ arg # 0 /\ ret = "none"
      BY <2>8, <3>1 DEF Returns, Calling
    <3>3. arg \notin took  BY <2>3, <3>2, Codes
    <3>4. arg \in took' <=> ret' = Taken
      <4>1. CASE r = Taken  BY <3>2, <4>1
      <4>2. CASE r # Taken  BY <3>2, <3>3, <4>2
      <4> QED  BY <4>1, <4>2
    <3>5. \A k \in 1..n : k # arg => (k \in took' <=> k \in took)
      <4>1. CASE r = Taken  BY <3>2, <4>1
      <4>2. CASE r # Taken  BY <3>2, <4>2
      <4> QED  BY <4>1, <4>2
    <3>6. B' = B /\ Len(pkts') = n /\ pkts' = pkts /\ arg' = arg /\ at' = at  BY <2>4, <3>2
    <3> HIDE DEF n
    <3>7. /\ \A k \in 1..n : k # arg => by[k] \in B /\ (k \in took' <=> StepAt(by[k]).ret = Taken)
          /\ arg # 0 => arg = n /\ by[arg] = at /\ (arg \in took' <=> ret' = Taken)
      BY <2>3, <3>4, <3>5
    <3> QED  BY <2>1, <2>3, <3>6, <3>7 DEF Given, S, B
  <2>9. CASE UNCHANGED <<pkts, arg, ret, took>> /\ ~Assert
    <3>1. B' = B  BY <2>4, <2>9
    <3>2. arg # 0 => at' = at
      <4> SUFFICES ASSUME arg # 0 PROVE at' = at  OBVIOUS
      <4>1. At("rx") /\ InBody  BY DEF InCall, At
      <4>2. At("rx")'  BY <2>9 DEF InCall
      <4>3. at' = at \/ Advance \/ "assert" \in failed'  BY <1>3, <4>1, BodyMoves
      <4> QED  BY <1>3, <2>9, <4>1, <4>3, AdvanceElsewhere
    <3>3. Len(pkts') = n /\ pkts' = pkts /\ arg' = arg /\ took' = took /\ ret' = ret  BY <2>9
    <3> HIDE DEF n
    <3> QED  BY <2>1, <2>3, <3>1, <3>2, <3>3 DEF Given, S, B
  <2> QED  BY <1>3, <2>6, <2>7, <2>8, <2>9, CallSteps
<1>4. CASE phase' = "body" /\ ~\E v \in DOMAIN Scripts : \E name \in DOMAIN Scripts[v] : SetUp(name, v)
  <2>1. phase = "body"
    BY <1>4, NextCases, WorkingFrame DEF FlushDone, Flushing, Generate, Assert, At, InBody, InCall,
       Return, TearDown, TestCaseTearDown, SetExpectation, CallMockSequence, EnableForwardingStep,
       SetIfMtuStep, FreeStep, vars
  <2> QED  BY <1>3, <1>4, <2>1 DEF Given
<1>5. CASE phase' = "start"  BY <1>5 DEF Given
<1>6. phase' \in {"start", "body"} \/ After'
  <2>1. TInv'  BY TStep
  <2> QED  BY <2>1 DEF TInv, Named, After
<1> QED  BY <1>1, <1>2, <1>4, <1>5, <1>6

\* The steps of a test are places in it.
LEMMA PlacesAre ==
  ASSUME NEW fs, IsTest(fs), NEW op, NEW x \in StepsIn(fs, op)
  PROVE  x.fn \in Nat /\ x.pc \in Nat
<1>1. x \in UNION {{[fn |-> i, pc |-> j] : j \in 1..Len(fs[i])} : i \in 1..Len(fs)}
  BY DEF StepsIn
<1>2. PICK i \in 1..Len(fs) : x \in {[fn |-> i, pc |-> j] : j \in 1..Len(fs[i])}  BY <1>1
<1>3. PICK j \in 1..Len(fs[i]) : x = [fn |-> i, pc |-> j]  BY <1>2
<1>4. Len(fs) \in Nat /\ Len(fs[i]) \in Nat  BY <1>2 DEF IsTest, IsFunction
<1> HIDE DEF StepsIn
<1> QED  BY <1>3, <1>4

\* When nothing was reported, what the mocks saw is what the test wanted LRO to take.
LEMMA BytesClose ==
  IInv /\ TInv /\ Ran /\ AskedAll /\ Given /\ Verified /\ BytesUp => GreenLosesNothing
<1> SUFFICES ASSUME IInv, TInv, Ran, AskedAll, Given, Verified, BytesUp, Green,
                    NEW m \in 1..Len(pkts)
             PROVE  Joined([i \in 1..Len(delivered) |-> BytesOf(delivered[i].pkt, FlowOf(pkts[m]))])
                      = Joined([i \in 1..Len(pkts) |-> IF i \in took THEN BytesOf(pkts[i], FlowOf(pkts[m]))
                                                                     ELSE <<>>])
  BY DEF GreenLosesNothing, Joined
<1> USE DEF IInv, TInv
<1>1. phase = "over" /\ failed = {} /\ After  BY DEF Green, Over, After
<1>2. PICK f : f = FlowOf(pkts[m])  OBVIOUS
<1>3. /\ IsTest(Script) /\ BytesStated(Script)
      /\ \A op : StepsOf(op) = StepsIn(Script, op) /\ Behind(op) = StepsOf(op)
      /\ \A op : \A x \in StepsOf(op) : x.fn \in Nat /\ x.pc \in Nat
  <2>1. IsTest(Script)  BY <1>1 DEF Ran
  <2>2. \A op : StepsOf(op) = StepsIn(Script, op)  BY DEF StepsOf, Script
  <2>3. \A op : Behind(op) = StepsOf(op)  BY <1>1 DEF Ran, Behind
  <2> QED  BY <2>1, <2>2, <2>3, PlacesAre DEF IsTest
<1>4. /\ Len(gm) \in Nat /\ DOMAIN gm = 1..Len(gm) /\ Len(pkts) \in Nat
      /\ arg = 0
  <2>1. arg = 0  BY <1>1 DEF InCall, At, InBody
  <2> QED  BY <2>1, Longer DEF Stated, Shape
\* The expectations.
<1> DEFINE E == StepsOf("expect")
           R == StepsOf("rx")
           n == Len(gm)
           k == Len(pkts)
<1>5. PICK by \in [1..n -> E] :
        /\ \A i \in 1..n : StepAt(by[i]).fn = gm[i].fn /\ StepAt(by[i]).arg = gm[i].arg
        /\ \A i, j \in 1..n : i < j => Precedes(by[i], by[j])
        /\ \A x \in E : \E i \in 1..n : by[i] = x
  <2>1. PICK to \in [DOMAIN gm -> Behind("expect")] :
          /\ \A i \in DOMAIN gm : LET s == StepAt(to[i]) IN
               s.fn = gm[i].fn /\ s.arg = gm[i].arg /\ s.seqs = gm[i].seqs
          /\ \A i, j \in DOMAIN gm : i < j => Precedes(to[i], to[j])
          /\ \A x \in Behind("expect") : \E i \in DOMAIN gm : to[i] = x
    BY <1>1 DEF AskedAll
  <2>2. Behind("expect") = E /\ DOMAIN gm = 1..n  BY <1>3, <1>4
  <2>3. to \in [1..n -> E]  BY <2>1, <2>2
  <2> HIDE DEF E, n
  <2> QED  BY <2>1, <2>2, <2>3
<1>6. PICK ps \in [1..k -> R] :
        /\ \A i \in 1..k : pkts[i] = StepAt(ps[i]).pkt
        /\ \A i, j \in 1..k : i < j => Precedes(ps[i], ps[j])
        /\ \A i \in 1..k : i \in took <=> StepAt(ps[i]).ret = Taken
        /\ \A x \in R : \E i \in 1..k : ps[i] = x
  <2>1. PICK to \in [1..k -> R] :
          /\ \A i \in 1..k : pkts[i] = StepAt(to[i]).pkt
          /\ \A i, j \in 1..k : i < j => Precedes(to[i], to[j])
          /\ \A i \in 1..k :
               i # arg => to[i] \in Behind("rx") /\ (i \in took <=> StepAt(to[i]).ret = Taken)
          /\ \A x \in Behind("rx") : \E i \in 1..k : i # arg /\ to[i] = x
    BY <1>1 DEF Given
  <2>2. Behind("rx") = R /\ \A i \in 1..k : i # arg  BY <1>3, <1>4
  <2> HIDE DEF R, k
  <2> QED  BY <2>1, <2>2
<1> HIDE DEF E, R, n, k
<1>7. Sorted(E) = by
  <2>1. n \in Nat /\ \A x \in E : x.fn \in Nat /\ x.pc \in Nat  BY <1>3, <1>4 DEF E, n
  <2>2. \A i, j \in 1..n : i < j => Precedes(by[i], by[j])  BY <1>5
  <2>3. \A x \in E : \E i \in 1..n : by[i] = x  BY <1>5
  <2>4. by \in [1..n -> E]  BY <1>5
  <2> QED  BY <2>1, <2>2, <2>3, <2>4, OrderIs
<1>8. Sorted(R) = ps
  <2>1. k \in Nat /\ \A x \in R : x.fn \in Nat /\ x.pc \in Nat  BY <1>3, <1>4 DEF R, k
  <2>2. \A i, j \in 1..k : i < j => Precedes(ps[i], ps[j])  BY <1>6
  <2>3. \A x \in R : \E i \in 1..k : ps[i] = x  BY <1>6
  <2>4. ps \in [1..k -> R]  BY <1>6
  <2> QED  BY <2>1, <2>2, <2>3, <2>4, OrderIs
<1>9. Joined([i \in 1..n |-> BytesAsked(StepAt(by[i]), f)])
        = Joined([i \in 1..k |-> BytesGiven(StepAt(ps[i]), f)])
  <2>1. ps[m] \in R /\ f = FlowOf(StepAt(ps[m]).pkt)
    <3>1. m \in 1..k  BY DEF k
    <3>2. ps[m] \in R /\ pkts[m] = StepAt(ps[m]).pkt  BY <1>6, <3>1
    <3> QED  BY <1>2, <3>2
  <2>2. DOMAIN by = 1..n /\ DOMAIN ps = 1..k  BY <1>5, <1>6
  <2>3. R = StepsIn(Script, "rx") /\ E = StepsIn(Script, "expect")  BY <1>3 DEF R, E
  <2>4. Joined([i \in DOMAIN by |-> BytesAsked(StepAt(by[i]), f)])
          = Joined([i \in DOMAIN ps |-> BytesGiven(StepAt(ps[i]), f)])
    BY <1>3, <1>7, <1>8, <2>1, <2>3 DEF BytesStated, Joined, StepAt
  <2> QED  BY <2>2, <2>4
<1>10. [i \in 1..n |-> BytesAsked(StepAt(by[i]), f)] = Portion(gm, f)
  <2>1. ASSUME NEW i \in 1..n
        PROVE  BytesAsked(StepAt(by[i]), f)
                 = IF gm[i].fn = "if_input" /\ gm[i].called THEN BytesOf(gm[i].arg, f) ELSE <<>>
    <3>1. gm[i].fn = "if_input" => gm[i].called  BY <1>1, <1>4 DEF Verified, n
    <3>2. StepAt(by[i]).fn = gm[i].fn /\ StepAt(by[i]).arg = gm[i].arg  BY <1>5
    <3> QED  BY <3>1, <3>2 DEF BytesAsked
  <2> QED  BY <2>1 DEF Portion, n
<1>11. \A i \in 1..k : BytesGiven(StepAt(ps[i]), f)
                         = IF i \in took THEN BytesOf(pkts[i], f) ELSE <<>>
  BY <1>6 DEF BytesGiven
<1>12. Joined(Passed(delivered, f)) = Joined(Portion(gm, f))  BY <1>1 DEF BytesUp
<1>13. Joined(Passed(delivered, f))
         = Joined([i \in 1..k |-> IF i \in took THEN BytesOf(pkts[i], f) ELSE <<>>])
  <2>1. [i \in 1..k |-> BytesGiven(StepAt(ps[i]), f)]
          = [i \in 1..k |-> IF i \in took THEN BytesOf(pkts[i], f) ELSE <<>>]
    BY <1>11
  <2> QED  BY <1>9, <1>10, <1>12, <2>1
<1> QED  BY <1>2, <1>13 DEF Passed, k

\* A test that reports nothing saw every byte that LRO took go up the stack, once and in
\* the order of its flow, whatever mistake the code under test makes and whenever it
\* makes it (tcp_lro.gtest.cpp:85, MockUpperIfnet.cpp:46).
THEOREM GreenKeepsBytes == Spec => []GreenLosesNothing
<1> DEFINE J == /\ IInv /\ TInv /\ Asked /\ Linked(gm) /\ MetInOrder(gm) /\ BytesUp
                /\ Ran /\ AskedAll /\ Given /\ Verified
<1>1. Init => J
  <2> SUFFICES ASSUME Init PROVE J  OBVIOUS
  <2>1. phase = "start" /\ gm = <<>> /\ delivered = <<>>  BY DEF Init
  <2>2. IsSeq(<<>>) /\ Len(<<>>) = 0
    <3>1. <<>> \in Seq({})  OBVIOUS
    <3> QED  BY <3>1 DEF IsSeq
  <2>3. Asked /\ Linked(gm) /\ MetInOrder(gm)  BY <2>1 DEF Asked, Linked, MetInOrder
  <2>4. Ran /\ AskedAll /\ Given /\ Verified
    BY <2>1 DEF Ran, AskedAll, Given, Verified, After
  <2>5. \A f : Passed(<<>>, f) = Portion(<<>>, f)  BY <2>2 DEF Passed, Portion
  <2>6. BytesUp
    <3>1. \A f : Joined(Passed(delivered, f)) = Joined(Portion(gm, f))  BY <2>1, <2>5
    <3> QED  BY <2>1, <2>2, <3>1 DEF BytesUp, Payloads
  <2> QED  BY <2>3, <2>4, <2>6, InitInv, TInit
<1>2. J /\ [Next]_vars => J'
  <2> SUFFICES ASSUME J, [Next]_vars PROVE J'  OBVIOUS
  <2>1. IInv'  BY ShapeStep, PlacedStep, InCallStep, OwnedStep DEF IInv
  <2>2. TInv'  BY <2>1, TStep
  <2>3. Asked' /\ Linked(gm') /\ MetInOrder(gm')
    BY <2>1, AskedStep, LinkedStep, MetInOrderStep DEF TInv
  <2>4. BytesUp'  BY BytesUpStep
  <2>5. Ran' /\ AskedAll' /\ Verified'  BY RanStep, AskedAllStep, VerifiedStep
  <2>6. Given'  BY <2>1, GivenStep
  <2>7. Linked(gm)' /\ MetInOrder(gm)'  BY <2>3 DEF Linked, MetInOrder
  <2> QED  BY <2>1, <2>2, <2>3, <2>4, <2>5, <2>6, <2>7
<1>3. J => GreenLosesNothing  BY BytesClose
<1> QED  BY <1>1, <1>2, <1>3, PTL DEF Spec
=============================================================================
