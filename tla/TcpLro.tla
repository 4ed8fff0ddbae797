-------------------------------- MODULE TcpLro --------------------------------
(***************************************************************************)
(* tcp_lro.c, the code under test. It is FreeBSD's and not in the          *)
(* repository (external): this is what the tests say it does, one          *)
(* definition of it for all of them.                                       *)
(*                                                                         *)
(* It merges the packets of a flow into one. A queue entry is the merged   *)
(* packet, the mbufs it is made of and the time of the last one.           *)
(***************************************************************************)
EXTENDS LroTests, Timeval

\* The VLAN tag belongs to the flow.
FlowOf(p) == <<p.vlan, p.ip.version, p.flow>>

EntriesOf(queue, p) == {e \in queue : FlowOf(e.pkt) = FlowOf(p)}

\* Refused at first sight, whatever is queued.
Unreadable(p, forwarding) ==
  \/ forwarding
  \/ ~\E v \in DOMAIN NetHdr : p.ip.version = v /\ p.ip.headerLen = NetHdr[v]

ErrorOf(p, forwarding) ==
  IF ~forwarding /\ p.ip.version \notin {"v4", "v6"} THEN TCP_LRO_NOT_SUPPORTED
                                                      ELSE TCP_LRO_CANNOT

\* p is the next packet of the flow and can be merged: nothing but an ACK, in
\* sequence, and not a duplicate ACK.
Continues(e, p) ==
  /\ p.flags = {"ACK"}
  /\ p.seq = e.pkt.seq + Len(e.pkt.pay)
  /\ p.pay # <<>> \/ p.ack # e.pkt.ack \/ p.win # e.pkt.win

\* An older ACK changes nothing; of two equal ones the larger window counts.
Acknowledged(old, p) ==
  [old EXCEPT !.ack = IF p.ack > @ THEN p.ack ELSE @,
              !.win = IF p.ack > old.ack \/ (p.ack = old.ack /\ p.win > @) THEN p.win ELSE @]

Merged(old, p) == [Acknowledged(old, p) EXCEPT !.pay = @ \o p.pay]

\* Another packet of the interface's MTU might not fit any more.
Full(p, ifMtu) == p.ip.headerLen + TcpHdr + Len(p.pay) + ifMtu > IpMaxPacket

\* The entries that tcp_lro_flush_inactive flushes.
Expired(queue, now, timeout) == {e \in queue : NotBefore(timevalsub(now, timeout), e.mtime)}
=============================================================================
