---------------------------- MODULE UmaZone_proofs ----------------------------
(* What the functions of the zone do to its record, field by field.           *)
EXTENDS UmaZone, FiniteSetTheorems, TLAPS

\* Memory that was just trashed passes the check that it is trash.
LEMMA TrashPasses ==
  ASSUME NEW z \in Zone, NEW i \in Items
  PROVE  trash_ctor(trash_dtor(z, i), i) = trash_dtor(z, i) /\ trash_dtor(z, i) \in Zone
  BY DEF trash_ctor, trash_dtor, Zone

LEMMA NewZoneType == NewZone \in Zone
  BY ZoneAssumption, FS_CardinalityType DEF NewZone, Zone

\* uma_zalloc_arg hands out the block with a fresh redzone and never panics.
LEMMA ZallocFields ==
  ASSUME NEW z \in Zone, NEW i \in Items
  PROVE  LET r == uma_zalloc_arg(z, i) IN
         /\ r \in Zone
         /\ r.alloced = (z.alloced + 1) % CountMod /\ r.held = z.held \cup {i}
         /\ r.smashed = z.smashed \ {i} /\ r.fails = z.fails /\ r.dead = z.dead
  <1> DEFINE filled == fill_redzone(z, i)
             inited == trash_dtor(filled, i)
             built  == mb_ctor_mbuf(inited, i)
             r      == uma_zalloc_arg(z, i)
  <1>1. filled \in Zone /\ filled.alloced = z.alloced /\ filled.held = z.held
        /\ filled.smashed = z.smashed \ {i} /\ filled.fails = z.fails /\ filled.dead = z.dead
    BY DEF fill_redzone, Zone
  <1> HIDE DEF filled
  <1>2. inited \in Zone /\ inited.alloced = filled.alloced /\ inited.held = filled.held
        /\ inited.smashed = filled.smashed /\ inited.fails = filled.fails
        /\ inited.dead = filled.dead /\ trash_ctor(inited, i) = inited
    BY <1>1, TrashPasses DEF trash_dtor, Zone
  <1> HIDE DEF inited
  <1>3. built \in Zone /\ built.alloced = inited.alloced /\ built.held = inited.held
        /\ built.smashed = inited.smashed /\ built.fails = inited.fails
        /\ built.dead = inited.dead
    BY <1>2 DEF mb_ctor_mbuf, Zone
  <1>4. r = [built EXCEPT !.alloced = (built.alloced + 1) % CountMod,
                          !.held = built.held \cup {i}]
    BY DEF uma_zalloc_arg, built, inited, filled
  <1> HIDE DEF built, r
  <1>5. (built.alloced + 1) % CountMod \in 0..(CountMod - 1)
    BY <1>3, ZoneAssumption, FS_CardinalityType DEF Zone
  <1>6. r \in Zone /\ r.alloced = (built.alloced + 1) % CountMod
        /\ r.held = built.held \cup {i}
        /\ r.smashed = built.smashed /\ r.fails = built.fails /\ r.dead = built.dead
    BY <1>3, <1>4, <1>5 DEF Zone
  <1> QED BY <1>1, <1>2, <1>3, <1>6 DEF r

\* uma_zfree_arg fails exactly when the counter is zero or the redzone is gone,
\* and never panics.
LEMMA ZfreeFields ==
  ASSUME NEW z \in Zone, NEW i \in Items
  PROVE  LET r == uma_zfree_arg(z, i) IN
         /\ r \in Zone
         /\ r.alloced = (z.alloced - 1) % CountMod /\ r.held = z.held \ {i}
         /\ r.smashed = z.smashed /\ r.dead = z.dead
         /\ r.fails = z.fails \cup (IF z.alloced > 0 THEN {} ELSE {"extraFree"})
                              \cup (IF i \in z.smashed THEN {"redzone"} ELSE {})
  <1> DEFINE fails   == IF z.alloced > 0 THEN z.fails ELSE z.fails \cup {"extraFree"}
             counted == [z EXCEPT !.fails = fails, !.alloced = (z.alloced - 1) % CountMod]
             trashed == trash_dtor(counted, i)
             checked == verify_redzone(trashed, i)
             r       == uma_zfree_arg(z, i)
  <1>1. (z.alloced - 1) % CountMod \in 0..(CountMod - 1) /\ fails \in SUBSET Failures
    BY ZoneAssumption, FS_CardinalityType DEF Zone, Failures
  <1>2. counted \in Zone /\ counted.alloced = (z.alloced - 1) % CountMod
        /\ counted.held = z.held /\ counted.smashed = z.smashed /\ counted.dead = z.dead
        /\ counted.fails = fails
    <2> HIDE DEF fails
    <2> QED BY <1>1 DEF Zone
  <1>3. r = [verify_redzone(trash_ctor(trash_dtor(counted, i), i), i) EXCEPT !.held = @ \ {i}]
    BY DEF uma_zfree_arg, Zone
  <1> HIDE DEF counted
  <1>4. trashed \in Zone /\ trashed.alloced = counted.alloced /\ trashed.held = counted.held
        /\ trashed.smashed = counted.smashed /\ trashed.dead = counted.dead
        /\ trashed.fails = counted.fails /\ trash_ctor(trash_dtor(counted, i), i) = trashed
    BY <1>2, TrashPasses DEF trash_dtor, Zone
  <1> HIDE DEF trashed
  <1>5. checked \in Zone /\ checked.alloced = trashed.alloced /\ checked.held = trashed.held
        /\ checked.smashed = trashed.smashed /\ checked.dead = trashed.dead
        /\ checked.fails = trashed.fails \cup (IF i \in trashed.smashed THEN {"redzone"} ELSE {})
    BY <1>4 DEF verify_redzone, Zone, Failures
  <1>6. r = [checked EXCEPT !.held = checked.held \ {i}]
    BY <1>3, <1>4 DEF checked
  <1> HIDE DEF checked, r
  <1>7. r \in Zone /\ r.alloced = checked.alloced /\ r.held = checked.held \ {i}
        /\ r.smashed = checked.smashed /\ r.dead = checked.dead /\ r.fails = checked.fails
    BY <1>5, <1>6 DEF Zone
  <1> QED BY <1>2, <1>4, <1>5, <1>7 DEF r, fails

\* uma_zdestroy only reports.
LEMMA ZdestroyFields ==
  ASSUME NEW z \in Zone
  PROVE  LET r == uma_zdestroy(z) IN
         /\ r \in Zone
         /\ r.alloced = z.alloced /\ r.held = z.held /\ r.smashed = z.smashed
         /\ r.dead = z.dead
         /\ r.fails = z.fails \cup (IF z.alloced = 0 THEN {} ELSE {"leak"})
  BY DEF uma_zdestroy, Zone, Failures

\* The counter in the range where it does not wrap around.
LEMMA CountUp ==
  ASSUME NEW a \in Nat, a + 1 < CountMod PROVE (a + 1) % CountMod = a + 1
  BY ZoneAssumption

LEMMA CountDown ==
  ASSUME NEW a \in Nat, a > 0, a < CountMod PROVE (a - 1) % CountMod = a - 1
  BY ZoneAssumption

\* The sizes of the sets of blocks.
LEMMA HeldSize ==
  ASSUME NEW S \in SUBSET Items
  PROVE  /\ IsFiniteSet(S) /\ Cardinality(S) \in Nat /\ Cardinality(S) < CountMod
         /\ (Cardinality(S) = 0 <=> S = {})
         /\ \A i \in S : Cardinality(S \ {i}) = Cardinality(S) - 1 /\ Cardinality(S) > 0
         /\ \A i \in Items \ S : /\ Cardinality(S \cup {i}) = Cardinality(S) + 1
                                 /\ Cardinality(S \cup {i}) < CountMod
  <1>1. \A T \in SUBSET Items : /\ IsFiniteSet(T) /\ Cardinality(T) \in Nat
                                /\ Cardinality(T) <= Cardinality(Items)
    BY ZoneAssumption, FS_Subset, FS_CardinalityType
  <1>2. \A T \in SUBSET Items : Cardinality(T) < CountMod
    BY <1>1, ZoneAssumption, FS_CardinalityType
  <1>3. Cardinality(S) = 0 <=> S = {}
    BY <1>1, FS_EmptySet
  <1>4. \A i \in S : Cardinality(S \ {i}) = Cardinality(S) - 1 /\ Cardinality(S) > 0
    <2> TAKE i \in S
    <2>1. Cardinality(S \ {i}) = Cardinality(S) - 1
      BY <1>1, FS_RemoveElement
    <2>2. Cardinality(S) # 0
      BY <1>3
    <2> QED BY <1>1, <2>1, <2>2
  <1>5. \A i \in Items \ S : Cardinality(S \cup {i}) = Cardinality(S) + 1
    BY <1>1, FS_AddElement
  <1> QED BY <1>1, <1>2, <1>3, <1>4, <1>5

\* A zone nobody has misused: its counter is exact and nothing was reported.
Sound(z) ==
  /\ z \in Zone /\ z.alloced = Cardinality(z.held)
  /\ z.smashed = {} /\ z.fails = {} /\ ~z.dead

LEMMA NewZoneSound == Sound(NewZone) /\ NewZone.held = {}
  <1>1. Cardinality({}) = 0
    BY FS_EmptySet
  <1> QED BY <1>1, NewZoneType DEF Sound, NewZone

LEMMA ZallocSound ==
  ASSUME NEW z, Sound(z), NEW i \in Items \ z.held
  PROVE  Sound(uma_zalloc_arg(z, i)) /\ uma_zalloc_arg(z, i).held = z.held \cup {i}
  <1> DEFINE r == uma_zalloc_arg(z, i)
  <1>1. z \in Zone /\ z.held \in SUBSET Items /\ z.alloced \in Nat
    BY DEF Sound, Zone
  <1>2. /\ r \in Zone /\ r.alloced = (z.alloced + 1) % CountMod /\ r.held = z.held \cup {i}
        /\ r.smashed = z.smashed \ {i} /\ r.fails = z.fails /\ r.dead = z.dead
    BY <1>1, ZallocFields
  <1>3. Cardinality(r.held) = z.alloced + 1 /\ z.alloced + 1 < CountMod
    BY <1>1, <1>2, HeldSize DEF Sound
  <1>4. r.alloced = z.alloced + 1
    BY <1>1, <1>2, <1>3, CountUp
  <1> HIDE DEF r
  <1>5. Sound(r) /\ r.held = z.held \cup {i}
    BY <1>2, <1>3, <1>4 DEF Sound
  <1> QED BY <1>5 DEF r

LEMMA ZfreeSound ==
  ASSUME NEW z, Sound(z), NEW i \in z.held
  PROVE  Sound(uma_zfree_arg(z, i)) /\ uma_zfree_arg(z, i).held = z.held \ {i}
  <1> DEFINE r == uma_zfree_arg(z, i)
  <1>1. z \in Zone /\ z.held \in SUBSET Items /\ z.alloced \in Nat /\ i \in Items
        /\ z.smashed = {} /\ z.fails = {}
    BY DEF Sound, Zone
  <1>2. /\ r \in Zone /\ r.alloced = (z.alloced - 1) % CountMod /\ r.held = z.held \ {i}
        /\ r.smashed = z.smashed /\ r.dead = z.dead
        /\ r.fails = z.fails \cup (IF z.alloced > 0 THEN {} ELSE {"extraFree"})
                             \cup (IF i \in z.smashed THEN {"redzone"} ELSE {})
    BY <1>1, ZfreeFields
  <1>3. Cardinality(r.held) = z.alloced - 1 /\ z.alloced > 0 /\ z.alloced < CountMod
    BY <1>1, <1>2, HeldSize DEF Sound
  <1>4. r.alloced = z.alloced - 1
    BY <1>1, <1>2, <1>3, CountDown
  <1> HIDE DEF r
  <1>5. r.fails = {}
    BY <1>1, <1>2, <1>3
  <1>6. Sound(r) /\ r.held = z.held \ {i}
    BY <1>1, <1>2, <1>3, <1>4, <1>5 DEF Sound
  <1> QED BY <1>6 DEF r

\* A sound zone reports a leak exactly when a block is still handed out.
LEMMA ZdestroySound ==
  ASSUME NEW z, Sound(z)
  PROVE  /\ uma_zdestroy(z) \in Zone /\ uma_zdestroy(z).held = z.held
         /\ uma_zdestroy(z).fails = {} <=> z.held = {}
  <1>1. z \in Zone /\ z.held \in SUBSET Items /\ z.fails = {}
    BY DEF Sound, Zone
  <1>2. z.alloced = 0 <=> z.held = {}
    BY <1>1, HeldSize DEF Sound
  <1> QED BY <1>1, <1>2, ZdestroyFields
=============================================================================
