----------------------------- MODULE MCLifecycle ------------------------------
(* Two initializers of each kind, with a tie across the kinds: every way of   *)
(* nesting the two kinds.                                                     *)
EXTENDS Lifecycle, TLC

CONSTANTS zone, pool, clock, ifnet

MCInits   == {zone, pool, clock, ifnet}
MCGuarded == {zone, pool}
MCKey     == zone :> 1 @@ clock :> 2 @@ pool :> 2 @@ ifnet :> 3
=============================================================================
