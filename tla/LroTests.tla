------------------------------- MODULE LroTests -------------------------------
(***************************************************************************)
(* The tests of netinet/tcp_lro.gtest.cpp and tcp_lro_sample.gtest.cpp.    *)
(*                                                                         *)
(* A test is a sequence of functions, the body and the helper it calls     *)
(* first, and a function a sequence of steps: an ASSERT_ that fails ends   *)
(* its function and no more. LroHarness runs them.                         *)
(*                                                                         *)
(* A packet template is here what ByteStream makes of one: `vec` is the    *)
(* payload vector, `at` the place in it and `max` the room that the MTU    *)
(* leaves for a segment. Addresses and ports are a flow. Lengths and       *)
(* numbers are smaller than in the tests, in the same order.               *)
(***************************************************************************)
EXTENDS Integers, Sequences

CONSTANTS
  NetHdr,      \* by IP version: the length of the network header
  TcpHdr,      \* the length of the TCP header
  IpMaxPacket, \* IP_MAXPACKET
  IfMtu        \* the MTU of the interface in TestAutoFlush

ASSUME LroAssumption ==
  /\ NetHdr \in [{"v4", "v6"} -> Nat \ {0}] /\ TcpHdr \in Nat \ {0}
  /\ IpMaxPacket \in Nat /\ IfMtu \in Nat
  /\ \A v \in {"v4", "v6"} : NetHdr[v] + TcpHdr < IfMtu /\ IfMtu <= IpMaxPacket

\* What tcp_lro_rx returns: 0 when it has taken the mbuf, or one of two errors.
Taken == "0"
TCP_LRO_CANNOT == "CANNOT"
TCP_LRO_NOT_SUPPORTED == "NOT_SUPPORTED"
-----------------------------------------------------------------------------
(* Templates.                                                              *)

Least(a, b) == IF a <= b THEN a ELSE b

\* The network header of an IPv4 or IPv6 test.
GetNetworkLayerTemplate(v) == [version |-> v, headerLen |-> NetHdr[v], id |-> 0]

GetNetworkHeaderLen(v) == NetHdr[v]

\* A pure ACK of the flow the suite uses; TH_ACK is TcpTemplate's default.
GetTcpTemplate(v) ==
  [vlan |-> 0, ip |-> GetNetworkLayerTemplate(v), flow |-> 0, seq |-> 0, ack |-> 0,
   win |-> 0, flags |-> {"ACK"}, vec |-> <<>>, at |-> 0, max |-> IpMaxPacket]

GetPayloadTemplate(v) == GetTcpTemplate(v)

Segment(t) == SubSeq(t.vec, t.at + 1, Least(t.at + t.max, Len(t.vec)))

\* The packet that Generate() makes of a template.
Generated(t) ==
  [vlan |-> t.vlan, ip |-> t.ip, flow |-> t.flow, seq |-> t.seq, ack |-> t.ack,
   win |-> t.win, flags |-> t.flags, pay |-> Segment(t)]

\* The IP id counts packets; IPv6 has none.
NextId(ip) == IF ip.version = "v4" THEN [ip EXCEPT !.id = @ + 1] ELSE ip

NextOf(t) == [t EXCEPT !.ip = NextId(@), !.seq = @ + Len(Segment(t)),
                      !.at = @ + Len(Segment(t))]

Retransmission(t) == [t EXCEPT !.ip = NextId(@)]

payload(t, bytes) == [t EXCEPT !.vec = bytes, !.at = 0]

appendPayload(t, bytes) == [t EXCEPT !.vec = @ \o bytes]

\* mtu(n) on the network header.
WithMtu(t, n) == [t EXCEPT !.max = n - t.ip.headerLen - TcpHdr]
-----------------------------------------------------------------------------
(* Steps.                                                                  *)

Expect(fn, arg) == [op |-> "expect", fn |-> fn, arg |-> arg, seqs |-> {}]

ExpectGetMicrotime(sec, usec) == Expect("getmicrotime", [tv_sec |-> sec, tv_usec |-> usec])
ExpectInput(t)                == Expect("if_input", Generated(t))
ExpectMockSequence            == Expect("MockSequence", 1)

\* .InSequence(s), and the scope of an InSequence object.
InSequence(seqs, step) == [step EXCEPT !.seqs = seqs]

\* tcp_lro_rx of GenerateRawMbuf() and ASSERT_EQ(ret, 0); tcp_lro_rx of an mbuf that
\* a MbufUniquePtr keeps, and ASSERT_EQ of the error.
RxRaw(t)       == [op |-> "rx", pkt |-> Generated(t), raw |-> TRUE, ret |-> Taken]
RxKept(t, ret) == [op |-> "rx", pkt |-> Generated(t), raw |-> FALSE, ret |-> ret]

MockSequence         == [op |-> "MockSequence"]
FlushAll             == [op |-> "flush_all"]
FlushInactive(after) == [op |-> "flush_inactive", timeout |-> after]
EnableForwarding     == [op |-> "forwarding"]
SetIfMtu(n)          == [op |-> "if_mtu", mtu |-> n]
LroFree              == [op |-> "free"]
-----------------------------------------------------------------------------
(* Merging.                                                                *)

TestMerge2Tcp(v) ==
  LET pkt1 == payload([GetPayloadTemplate(v) EXCEPT !.seq = 20], <<1, 2, 3>>)
      pkt2 == payload(NextOf(pkt1), <<4, 5>>)
  IN  << << ExpectGetMicrotime(1, 500),
            ExpectGetMicrotime(1, 750),
            ExpectInput(appendPayload(pkt1, <<4, 5>>)),
            RxRaw(pkt1), RxRaw(pkt2), FlushAll >> >>

TestMergeAckData(v) ==
  LET pkt1 == [GetTcpTemplate(v) EXCEPT !.ack = 8, !.flags = {"ACK"}]
      pkt2 == payload(NextOf(pkt1), <<9, 5>>)
  IN  << << ExpectGetMicrotime(1, 500),
            ExpectGetMicrotime(1, 750),
            ExpectInput(payload(pkt1, <<9, 5>>)),
            RxRaw(pkt1), RxRaw(pkt2), FlushAll >> >>

TestIncrAck(v) ==
  LET pkt1 == payload([GetPayloadTemplate(v) EXCEPT !.ack = 9], <<1, 2>>)
      pkt2 == payload([NextOf(pkt1) EXCEPT !.ack = @ + 10], <<3, 4>>)
  IN  << << ExpectInput(appendPayload([pkt1 EXCEPT !.ack = @ + 10], <<3, 4>>)),
            ExpectGetMicrotime(89952, 17935),
            ExpectGetMicrotime(89952, 18932),
            RxRaw(pkt1), RxRaw(pkt2), FlushAll >> >>

\* getmicrotime is not called for a pure ACK.
TestIncrPureAck(v) ==
  LET pkt1 == payload([GetPayloadTemplate(v) EXCEPT !.ack = 9], <<1, 2>>)
      pkt2 == [payload(NextOf(pkt1), <<>>) EXCEPT !.ack = @ + 28]
  IN  << << ExpectInput([pkt1 EXCEPT !.ack = @ + 28]),
            ExpectGetMicrotime(89952, 17935),
            RxRaw(pkt1), RxRaw(pkt2), FlushAll >> >>

TestWindowUpdate(v) ==
  LET pkt       == payload([GetPayloadTemplate(v) EXCEPT !.seq = 26, !.ack = 3, !.win = 64],
                           <<1, 2, 3>>)
      winUpdate == payload([NextOf(pkt) EXCEPT !.win = 96], <<>>)
  IN  << << InSequence({"seq"}, ExpectMockSequence),
            InSequence({"seq"}, ExpectInput([pkt EXCEPT !.win = 96])),
            ExpectGetMicrotime(265469, 9874),
            RxRaw(pkt), RxRaw(winUpdate), MockSequence, FlushAll >> >>

\* The two updates arrive in reverse order.
TestOoOWindowUpdate(v) ==
  LET pkt  == payload([GetPayloadTemplate(v) EXCEPT !.seq = 15, !.ack = 25, !.win = 64],
                      <<1, 2>>)
      upd2 == payload([NextOf(pkt) EXCEPT !.win = @ + 128], <<>>)
      upd1 == [NextOf(upd2) EXCEPT !.win = @ + 256]
  IN  << << ExpectInput([pkt EXCEPT !.win = @ + 128 + 256]),
            ExpectGetMicrotime(265469, 9874),
            RxRaw(pkt), RxRaw(upd1), RxRaw(upd2), FlushAll >> >>

TestStaleAck(v) ==
  LET ack2 == [GetPayloadTemplate(v) EXCEPT !.seq = 65, !.ack = 16, !.win = 64]
      ack1 == [NextOf(ack2) EXCEPT !.ack = @ + 64]
  IN  << << InSequence({"seq"}, ExpectMockSequence),
            InSequence({"seq"}, ExpectInput(ack1)),
            ExpectGetMicrotime(265469, 9874),
            RxRaw(ack1), RxRaw(ack2), MockSequence, FlushAll >> >>
-----------------------------------------------------------------------------
(* Flows.                                                                  *)

TestTwoFlows(v) ==
  LET f1p1 == payload([GetPayloadTemplate(v) EXCEPT !.flow = 1, !.win = 128], <<1, 1>>)
      f2p1 == payload([GetPayloadTemplate(v) EXCEPT !.flow = 2, !.win = 128], <<2, 2>>)
      f1p2 == payload([NextOf(f1p1) EXCEPT !.win = @ - 64, !.ack = @ + 100], <<3>>)
      f2p2 == payload([NextOf(f2p1) EXCEPT !.win = @ + 72], <<4, 4>>)
  IN  << << InSequence({"flow1", "flow2"}, ExpectMockSequence),
            InSequence({"flow1"}, ExpectInput(
              appendPayload([f1p1 EXCEPT !.win = @ - 64, !.ack = @ + 100], <<3>>))),
            InSequence({"flow2"}, ExpectInput(
              appendPayload([f2p1 EXCEPT !.win = @ + 72], <<4, 4>>))),
            ExpectGetMicrotime(5489, 25847),
            ExpectGetMicrotime(5489, 25979),
            ExpectGetMicrotime(5489, 27056),
            ExpectGetMicrotime(5489, 28951),
            RxRaw(f1p1), RxRaw(f2p1), RxRaw(f1p2), RxRaw(f2p2),
            MockSequence, FlushAll >> >>

\* The second packet has nothing left to carry: no payload is set after Next().
TestTwoVlanFlows(v) ==
  LET f1p1 == payload([GetPayloadTemplate(v) EXCEPT !.vlan = 5, !.flow = 1], <<1, 1>>)
      f2p1 == [NextOf(f1p1) EXCEPT !.vlan = 6]
  IN  << << ExpectInput(f1p1), ExpectInput(f2p1),
            ExpectGetMicrotime(5489, 25847),
            ExpectGetMicrotime(5489, 25979),
            RxRaw(f1p1), RxRaw(f2p1), FlushAll >> >>
-----------------------------------------------------------------------------
(* Time and size.                                                          *)

TestFlushInactive(v) ==
  LET pkt1    == payload(GetPayloadTemplate(v), <<1, 2>>)
      timeout == [tv_sec |-> 0, tv_usec |-> 150]
  IN  << << InSequence({"seq"}, ExpectGetMicrotime(127, 100)),
            InSequence({"seq"}, ExpectGetMicrotime(127, 200)),
            InSequence({"seq"}, ExpectGetMicrotime(127, 300)),
            InSequence({"seq"}, ExpectInput(pkt1)),
            RxRaw(pkt1), FlushInactive(timeout), FlushInactive(timeout) >> >>

TestAutoFlush(v) ==
  LET maxPayload == IfMtu - GetNetworkHeaderLen(v) - TcpHdr
      first   == payload(WithMtu(GetPayloadTemplate(v), IfMtu), [i \in 1..IpMaxPacket |-> 0])
      packets == IpMaxPacket \div maxPayload
      pktTemplate[i \in 1..packets] == IF i = 1 THEN first ELSE NextOf(pktTemplate[i - 1])
      expected == payload(WithMtu(first, IpMaxPacket), [i \in 1..(packets * maxPayload) |-> 0])
  IN  << << ExpectInput(expected), SetIfMtu(IfMtu) >>
         \o [i \in 1..(packets - 1) |-> ExpectGetMicrotime(252, 8000 + 251 * (i - 1))]
         \o [i \in 1..packets |-> RxRaw(pktTemplate[i])] >>
-----------------------------------------------------------------------------
(* Packets that LRO does not take.                                         *)

\* The helper: LRO queues the first packet and refuses the second.
TestRejectSecond(pkt1, pkt2, failCode) ==
  << ExpectInput(pkt1), ExpectGetMicrotime(5489, 25847),
     RxRaw(pkt1), RxKept(pkt2, failCode) >>

TestDupAck(v) ==
  LET origAck == [GetTcpTemplate(v) EXCEPT !.ack = 8]
  IN  << TestRejectSecond(origAck, NextOf(origAck), TCP_LRO_CANNOT) >>

\* In the following four the MTU lets two bytes through.
TestOoOBackwards(v) ==
  LET pkt2 == payload([GetPayloadTemplate(v) EXCEPT !.max = 2], <<1, 2, 3, 4>>)
      pkt1 == payload(NextOf(pkt2), <<5>>)
  IN  << TestRejectSecond(pkt1, pkt2, TCP_LRO_CANNOT) >>

TestOoOSkipSeq(v) ==
  LET pkt1 == payload([GetPayloadTemplate(v) EXCEPT !.max = 2], <<1, 2, 3, 4, 5, 6>>)
  IN  << TestRejectSecond(pkt1, NextOf(NextOf(pkt1)), TCP_LRO_CANNOT) >>

TestOoOSeqInPrev(v) ==
  LET pkt1 == payload([GetPayloadTemplate(v) EXCEPT !.max = 2], <<1, 2, 3, 4>>)
      pkt2 == [NextOf(pkt1) EXCEPT !.seq = @ - 1]
  IN  << TestRejectSecond(pkt1, pkt2, TCP_LRO_CANNOT) >>

TestOoOSeqOffByOne(v) ==
  LET pkt1 == payload([GetPayloadTemplate(v) EXCEPT !.max = 2], <<1, 2, 3, 4>>)
      pkt2 == [NextOf(pkt1) EXCEPT !.seq = @ + 1]
  IN  << TestRejectSecond(pkt1, pkt2, TCP_LRO_CANNOT) >>

TestOoODupSeq(v) ==
  LET pkt1 == payload(GetPayloadTemplate(v), <<1, 2>>)
  IN  << TestRejectSecond(pkt1, Retransmission(pkt1), TCP_LRO_CANNOT) >>

\* The first packet is still queued after the helper, and is flushed by hand.
TestBadIpVersion(v) ==
  LET pkt1 == payload(GetPayloadTemplate(v), <<1, 2>>)
      pkt2 == [NextOf(pkt1) EXCEPT !.ip.version = "v5"]
  IN  << TestRejectSecond(pkt1, pkt2, TCP_LRO_NOT_SUPPORTED), << FlushAll >> >>

TestNonAck(v) ==
  LET pkt1 == payload([GetPayloadTemplate(v) EXCEPT !.seq = 65, !.ack = 16, !.win = 64],
                      <<1, 2>>)
      pkt2 == payload([NextOf(pkt1) EXCEPT !.ack = @ + 256, !.flags = {}], <<2, 1>>)
  IN  << TestRejectSecond(pkt1, pkt2, TCP_LRO_CANNOT) >>

TestUnsupportedFlag(v, flags) ==
  LET pkt1 == payload(GetPayloadTemplate(v), <<1, 2>>)
      pkt2 == [NextOf(pkt1) EXCEPT !.flags = flags]
  IN  << TestRejectSecond(pkt1, pkt2, TCP_LRO_CANNOT) >>

TestFin(v)    == TestUnsupportedFlag(v, {"FIN"})
TestFinAck(v) == TestUnsupportedFlag(v, {"FIN", "ACK"})
TestRst(v)    == TestUnsupportedFlag(v, {"RST"})
TestUrg(v)    == TestUnsupportedFlag(v, {"URG"})
TestEce(v)    == TestUnsupportedFlag(v, {"ECE"})
TestCwr(v)    == TestUnsupportedFlag(v, {"CWR"})

\* One MbufUniquePtr for both packets.
TestSyn(v) ==
  LET syn    == [GetTcpTemplate(v) EXCEPT !.flags = {"SYN"}]
      synack == [GetTcpTemplate(v) EXCEPT !.flow = 3, !.flags = {"SYN", "ACK"}]
  IN  << << RxKept(syn, TCP_LRO_CANNOT), RxKept(synack, TCP_LRO_CANNOT) >> >>

TestForwardingEnabled(v) ==
  << << EnableForwarding, RxKept(GetPayloadTemplate(v), TCP_LRO_CANNOT) >> >>
-----------------------------------------------------------------------------
(* The sample: no fixture of its own, so that each test frees its lro_ctrl *)
(* in its last step.                                                       *)

TestSingleTcp4(v) ==
  LET pkt == payload([GetPayloadTemplate("v4") EXCEPT !.flow = 4], <<0, 0>>)
  IN  << << ExpectInput(pkt), ExpectGetMicrotime(1, 500),
            RxRaw(pkt), FlushAll, LroFree >> >>

TestSingleTcp6(v) ==
  LET pkt == payload([GetPayloadTemplate("v6") EXCEPT !.flow = 4], <<0, 0>>)
  IN  << << ExpectInput(pkt), ExpectGetMicrotime(1, 500),
            RxRaw(pkt), FlushAll, LroFree >> >>

TestBadIpHeaderLen(v) ==
  LET pkt == payload([GetPayloadTemplate("v4") EXCEPT !.flow = 4, !.ip.headerLen = @ - 1],
                     <<1, 2>>)
  IN  << << RxKept(pkt, TCP_LRO_CANNOT), LroFree >> >>
-----------------------------------------------------------------------------
Samples == {"TestSingleTcp4", "TestSingleTcp6", "TestBadIpHeaderLen"}

\* The typed test suite runs every test for both versions.
Tests == [v \in {"v4", "v6"} |->
  [TestMerge2Tcp         |-> TestMerge2Tcp(v),      TestFlushInactive |-> TestFlushInactive(v),
   TestMergeAckData      |-> TestMergeAckData(v),   TestIncrAck       |-> TestIncrAck(v),
   TestIncrPureAck       |-> TestIncrPureAck(v),    TestDupAck        |-> TestDupAck(v),
   TestOoOBackwards      |-> TestOoOBackwards(v),   TestOoOSkipSeq    |-> TestOoOSkipSeq(v),
   TestOoODupSeq         |-> TestOoODupSeq(v),      TestOoOSeqInPrev  |-> TestOoOSeqInPrev(v),
   TestOoOSeqOffByOne    |-> TestOoOSeqOffByOne(v), TestBadIpVersion  |-> TestBadIpVersion(v),
   TestNonAck            |-> TestNonAck(v),         TestTwoFlows      |-> TestTwoFlows(v),
   TestTwoVlanFlows      |-> TestTwoVlanFlows(v),   TestWindowUpdate  |-> TestWindowUpdate(v),
   TestForwardingEnabled |-> TestForwardingEnabled(v), TestStaleAck   |-> TestStaleAck(v),
   TestOoOWindowUpdate   |-> TestOoOWindowUpdate(v), TestAutoFlush    |-> TestAutoFlush(v),
   TestSyn               |-> TestSyn(v),            TestFin           |-> TestFin(v),
   TestFinAck            |-> TestFinAck(v),         TestRst           |-> TestRst(v),
   TestUrg               |-> TestUrg(v),            TestEce           |-> TestEce(v),
   TestCwr               |-> TestCwr(v),            TestSingleTcp4    |-> TestSingleTcp4(v),
   TestSingleTcp6        |-> TestSingleTcp6(v),     TestBadIpHeaderLen |-> TestBadIpHeaderLen(v)]]
=============================================================================
