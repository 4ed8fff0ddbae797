----------------------------- MODULE MCPktStream -----------------------------
(* Small header sizes and widths for PktStream: every length, every MTU below *)
(* and above the headers, and both 16-bit truncation and size_t wrap-around   *)
(* are within reach.                                                          *)
EXTENDS PktStream

\* Too small for the headers, just the headers, and a few bytes more; the IP
\* header is also offered its largest MTU and one it refuses.
MCMtus == [eth |-> {3, 5, 6}, ip |-> {2, 3, 5, U16 - 1, U16}, tcp |-> {1, 3}, pay |-> {0, 1, 2}]

\* Fewer MTUs for the liveness run; 3 leaves the IP packet no payload at all.
MCSendMtus == [eth |-> {6}, ip |-> {3, 5}, tcp |-> {}, pay |-> {1}]

\* The last sequence number before the wrap-around, and one in the middle.
MCSeqs == {3, SeqMod - 1}
=============================================================================
