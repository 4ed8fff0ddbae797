------------------------------- MODULE MCMbuf --------------------------------
(* Three mbufs, so that a buffer can be shared by two beside the one that     *)
(* keeps its counter, and two buffers.                                        *)
EXTENDS Mbuf, TLC

Symmetric == Permutations(Items) \cup Permutations(Bufs)
=============================================================================
