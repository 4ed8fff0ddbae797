------------------------------- MODULE UmaZone -------------------------------
(***************************************************************************)
(* The fake of FreeBSD's zone allocator: the functions of fakes/uma/uma.cpp *)
(* on the one zone the fakes create, zone_mbuf, with the constructor,      *)
(* destructor, init and fini functions MbufInit gives it.                  *)
(*                                                                         *)
(* A zone is a record: the counter `alloced`, the blocks it has handed out *)
(* and, of the memory of every block, whether its body is filled with      *)
(* uma_junk and whether its redzone has been overwritten. `fails` holds    *)
(* the EXPECT_ failures reported so far, and `dead` is set when the        *)
(* process has aborted. A block is a place in memory that operator new may *)
(* hand out again after it has been deleted.                               *)
(***************************************************************************)
EXTENDS Integers, FiniteSets

CONSTANTS
  Items,    \* the blocks of memory
  CountMod  \* size_t: the counter is an integer modulo CountMod

ASSUME ZoneAssumption ==
  /\ IsFiniteSet(Items)
  /\ CountMod \in Nat /\ Cardinality(Items) < CountMod

Failures == {"leak", "extraFree", "redzone"}

Zone == [alloced : 0..(CountMod - 1), held : SUBSET Items, junk : SUBSET Items,
         smashed : SUBSET Items, fails : SUBSET Failures, dead : BOOLEAN]

\* uma_zcreate
NewZone == [alloced |-> 0, held |-> {}, junk |-> {}, smashed |-> {}, fails |-> {},
            dead |-> FALSE]

\* Mutant: the counter is not looked at.
DestroyUnchecked(z) == z

uma_zdestroy(z) == IF z.alloced = 0 THEN z ELSE [z EXCEPT !.fails = @ \cup {"leak"}]
-----------------------------------------------------------------------------
fill_redzone(z, i) == [z EXCEPT !.smashed = @ \ {i}]

\* Mutant: the redzone is never compared.
VerifyNothing(z, i) == z

verify_redzone(z, i) ==
  IF i \in z.smashed THEN [z EXCEPT !.fails = @ \cup {"redzone"}] ELSE z

\* trash_init and trash_dtor fill the body, trash_ctor and trash_fini compare it
\* and panic, which aborts the process.
trash_dtor(z, i) == [z EXCEPT !.junk = @ \cup {i}]

trash_ctor(z, i) == IF i \in z.junk THEN z ELSE [z EXCEPT !.dead = TRUE]

\* m_init writes the header of the new mbuf.
mb_ctor_mbuf(z, i) == [trash_ctor(z, i) EXCEPT !.junk = @ \ {i}]

\* zone->init, then zone->ctor. Neither result is looked at.
uma_zalloc_arg(z, i) ==
  LET built == mb_ctor_mbuf(trash_dtor(fill_redzone(z, i), i), i)
  IN  [built EXCEPT !.alloced = (@ + 1) % CountMod, !.held = @ \cup {i}]

\* Mutant: zone->fini runs before zone->dtor.
FreeFiniFirst(z, i) ==
  LET counted == [z EXCEPT !.alloced = (@ - 1) % CountMod]
  IN  [verify_redzone(trash_dtor(trash_ctor(counted, i), i), i) EXCEPT !.held = @ \ {i}]

\* Mutant: the counter is allowed to go below zero.
FreeBelowZero(z, i) == [z EXCEPT !.alloced = @ - 1, !.held = @ \ {i}]

\* The counter goes down before anything is checked about the block: a block
\* that is freed twice only shows when nothing else is allocated.
uma_zfree_arg(z, i) ==
  LET counted == [z EXCEPT !.fails = IF z.alloced > 0 THEN @ ELSE @ \cup {"extraFree"},
                           !.alloced = (@ - 1) % CountMod]
      torn == trash_ctor(trash_dtor(counted, i), i)
  IN  [verify_redzone(torn, i) EXCEPT !.held = @ \ {i}]
=============================================================================
