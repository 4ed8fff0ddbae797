------------------------------- MODULE MCStack -------------------------------
(* Headers of one byte and of two, and stacks deep enough for a TCP packet in *)
(* a tunnel: one layer then occurs twice.                                     *)
EXTENDS Stack

MCHdrLen == [eth |-> 1, ip4 |-> 2, ip6 |-> 2, tcp |-> 1]
=============================================================================
