------------------------------ MODULE MCPktMatch ------------------------------
(* Few MTUs, so that the attributes fit beside the templates of PktStream:    *)
(* one that segments the payload from outside, one from inside, and one that  *)
(* does not hold the headers.                                                 *)
EXTENDS PktMatch

MCMtus == [eth |-> {3}, ip |-> {5}, tcp |-> {}, pay |-> {1}]

MCSeqs == {SeqMod - 1}

\* Half a byte in each position of the class; a label of one bit, and a flow label
\* that does not fit its 20 bits.
MCClasses == {0, 1, Nibble}
MCFlows   == {0, 1, Label}
=============================================================================
