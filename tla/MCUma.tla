-------------------------------- MODULE MCUma --------------------------------
(* Three interchangeable blocks: two that cancel out, and one more. *)
EXTENDS Uma, TLC

Symmetric == Permutations(Items)
=============================================================================
