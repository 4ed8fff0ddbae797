-------------------------------- MODULE MCLro ---------------------------------
(* Header lengths and an MTU such that a merged packet is full after three     *)
(* packets with either version, as IP_MAXPACKET and 1500 are in the tests.     *)
EXTENDS LroHarness

MCNetHdr  == [v4 |-> 1, v6 |-> 2]
MCGarbage == [tv_sec |-> 999999, tv_usec |-> 0]
=============================================================================
