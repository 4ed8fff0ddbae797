--------------------------------- MODULE Uma ---------------------------------
(***************************************************************************)
(* A test that uses a zone, correctly or not: it may free a block twice,   *)
(* leave one behind, write past its end or write to it after freeing it.   *)
(* What the zone promises is which of these the test's verdict shows.      *)
(*                                                                         *)
(* The last three variables are the history of the test, which the code    *)
(* does not keep: they only say what the test did wrong.                   *)
(***************************************************************************)
EXTENDS UmaZone

CONSTANT MaxSurplus  \* bound on the number of extra frees in one test

ASSUME SurplusAssumption == MaxSurplus \in Nat

VARIABLES
  zone,     \* the zone
  up,       \* it has been created and not destroyed
  freed,    \* blocks this test has freed
  surplus,  \* number of times it freed a block it did not hold
  overrun,  \* blocks it held and wrote past the end of
  stale     \* freed blocks it wrote to, not allocated since

vars == <<zone, up, freed, surplus, overrun, stale>>

TypeOK ==
  /\ zone \in Zone
  /\ up \in BOOLEAN
  /\ surplus \in 0..MaxSurplus
  /\ freed \subseteq Items /\ overrun \subseteq Items /\ stale \subseteq Items

Init ==
  /\ zone = NewZone /\ up = FALSE
  /\ surplus = 0 /\ freed = {} /\ overrun = {} /\ stale = {}
-----------------------------------------------------------------------------
Running == up /\ ~zone.dead

\* MbufInit::SetUp of the next test. What the last one leaked is out of reach.
Create ==
  /\ ~up /\ ~zone.dead
  /\ zone' = NewZone /\ up' = TRUE
  /\ surplus' = 0 /\ freed' = {} /\ overrun' = {} /\ stale' = {}

Alloc(i) ==
  /\ Running /\ i \notin zone.held
  /\ zone' = uma_zalloc_arg(zone, i)
  /\ stale' = stale \ {i}
  /\ UNCHANGED <<up, freed, surplus, overrun>>

Free(i) ==
  /\ Running /\ i \in zone.held
  /\ zone' = uma_zfree_arg(zone, i)
  /\ freed' = freed \cup {i}
  /\ UNCHANGED <<up, surplus, overrun, stale>>

\* A second free of the same block. operator delete may notice and abort.
FreeAgain(i) ==
  /\ Running /\ i \in freed \ zone.held /\ surplus < MaxSurplus
  /\ \E aborts \in BOOLEAN :
       zone' = LET z == uma_zfree_arg(zone, i)
               IN  [z EXCEPT !.dead = @ \/ aborts]
  /\ surplus' = surplus + 1
  /\ UNCHANGED <<up, freed, overrun, stale>>

Overrun(i) ==
  /\ Running /\ i \in zone.held
  /\ zone' = [zone EXCEPT !.smashed = @ \cup {i}]
  /\ overrun' = overrun \cup {i}
  /\ UNCHANGED <<up, freed, surplus, stale>>

WriteAfterFree(i) ==
  /\ Running /\ i \in freed \ zone.held
  /\ zone' = [zone EXCEPT !.junk = @ \ {i}]
  /\ stale' = stale \cup {i}
  /\ UNCHANGED <<up, freed, surplus, overrun>>

Destroy ==
  /\ Running
  /\ zone' = uma_zdestroy(zone) /\ up' = FALSE
  /\ UNCHANGED <<freed, surplus, overrun, stale>>

Next ==
  \/ Create
  \/ \E i \in Items : Alloc(i)
  \/ \E i \in Items : Free(i)
  \/ \E i \in Items : FreeAgain(i)
  \/ \E i \in Items : Overrun(i)
  \/ \E i \in Items : WriteAfterFree(i)
  \/ Destroy

Spec == Init /\ [][Next]_vars
-----------------------------------------------------------------------------
(* Correctness.                                                            *)

\* The test did something wrong: it freed too much, wrote outside what it
\* held, or was torn down while it still held a block.
Misused == surplus > 0 \/ overrun # {} \/ stale # {} \/ (~up /\ zone.held # {})

\* A test that keeps the rules is never failed and never aborted: the checks of
\* uma_zalloc_arg, uma_zfree_arg and uma_zdestroy pass, the redzone is filled
\* before it is compared and the body is trashed before it is compared, however
\* often a block is handed out again.
NoFalseAlarm == zone.fails # {} \/ zone.dead => Misused

\* What a clean verdict is worth. When the zone has been destroyed and nothing
\* was reported, every overwritten redzone belongs to a block that was never
\* freed, and the blocks that were never freed are as many as the extra frees:
\* the counter cannot tell a leak and a double free from neither.
CleanVerdict ==
  ~up /\ zone.fails = {} /\ ~zone.dead =>
    /\ Cardinality(zone.held) = surplus
    /\ overrun \subseteq zone.held

\* The comment at uma.cpp:114 says of trash_ctor that it "checks an item to make
\* sure it hasn't been overwritten since it was freed, prior to subsequent
\* reallocation": a block that was written to after its free is not handed out
\* again without a panic.
ModifiedAfterFreeCaught ==
  [][\A i \in Items : Alloc(i) /\ i \in stale => zone'.dead]_vars
=============================================================================
