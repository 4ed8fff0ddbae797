------------------------------ MODULE Uma_proofs ------------------------------
(* Proofs about Uma: its type, and what the verdict of a test is worth.       *)
EXTENDS Uma, UmaZone_proofs

\* Until an extra free is reported, the counter is the number of blocks handed
\* out, less the extra frees that went unnoticed.
Counted == "extraFree" \notin zone.fails => zone.alloced = Cardinality(zone.held) - surplus

\* An overwritten redzone stays overwritten for as long as its block is held,
\* and is reported when it is freed.
Watched == "redzone" \notin zone.fails => overrun \subseteq zone.held \cap zone.smashed

\* Each failure has its cause.
Blamed ==
  /\ zone.smashed \subseteq overrun
  /\ "redzone" \in zone.fails => overrun # {}
  /\ "extraFree" \in zone.fails => surplus > 0
  /\ "leak" \in zone.fails => ~up /\ zone.alloced # 0
  /\ zone.dead => surplus > 0

\* A zone is destroyed with its counter at zero, or the leak is reported.
Judged == ~up => zone.alloced = 0 \/ "leak" \in zone.fails

IInv == TypeOK /\ Counted /\ Watched /\ Blamed /\ Judged

\* The invariant holds of a zone that has just been created.
LEMMA FreshZone ==
  ASSUME TypeOK', zone' = NewZone, surplus' = 0, overrun' = {}
  PROVE  IInv'
  <1>1. Cardinality({}) = 0
    BY FS_EmptySet
  <1> QED BY <1>1 DEF IInv, Counted, Watched, Blamed, Judged, NewZone

LEMMA InitInv == Init => IInv
  <1> SUFFICES ASSUME Init PROVE IInv
    OBVIOUS
  <1>1. TypeOK
    <2>1. zone \in Zone /\ up \in BOOLEAN
      BY NewZoneType, Zenon DEF Init
    <2>2. surplus \in 0..MaxSurplus
      BY SurplusAssumption DEF Init
    <2> QED BY <2>1, <2>2 DEF Init, TypeOK
  <1>2. Cardinality({}) = 0
    BY FS_EmptySet
  <1> QED BY <1>1, <1>2 DEF Init, IInv, Counted, Watched, Blamed, Judged, NewZone

\* What uma_zfree_arg leaves behind, whoever frees: the parts of the invariant
\* that do not depend on who held the block.
LEMMA FreeStep ==
  ASSUME IInv, up, NEW i \in Items, NEW extra \in 0..1, NEW z \in Zone,
         i \in zone.held <=> extra = 0,
         z.alloced = uma_zfree_arg(zone, i).alloced, z.held = uma_zfree_arg(zone, i).held,
         z.smashed = uma_zfree_arg(zone, i).smashed, z.fails = uma_zfree_arg(zone, i).fails
  PROVE  /\ "extraFree" \notin z.fails =>
              z.alloced = Cardinality(z.held) - (surplus + extra)
         /\ "redzone" \notin z.fails => overrun \subseteq z.held \cap z.smashed
         /\ z.smashed \subseteq overrun
         /\ "redzone" \in z.fails => overrun # {}
         /\ "extraFree" \in z.fails => surplus + extra > 0
         /\ "leak" \notin z.fails
  <1>1. /\ zone \in Zone /\ zone.held \in SUBSET Items /\ surplus \in Nat
        /\ zone.alloced \in Nat /\ zone.alloced < CountMod
    BY ZoneAssumption, SurplusAssumption DEF IInv, TypeOK, Zone
  <1>2. /\ z.alloced = (zone.alloced - 1) % CountMod /\ z.held = zone.held \ {i}
        /\ z.smashed = zone.smashed
        /\ z.fails = zone.fails \cup (IF zone.alloced > 0 THEN {} ELSE {"extraFree"})
                                \cup (IF i \in zone.smashed THEN {"redzone"} ELSE {})
    BY <1>1, ZfreeFields
  <1>3. Cardinality(z.held) = Cardinality(zone.held) - (1 - extra) /\ Cardinality(zone.held) \in Nat
    <2>1. CASE i \in zone.held
      BY <2>1, <1>1, <1>2, HeldSize
    <2>2. CASE i \notin zone.held
      <3>1. z.held = zone.held /\ extra # 0
        BY <1>2, <2>2
      <3>2. extra = 1
        BY <3>1
      <3>3. Cardinality(zone.held) \in Nat
        BY <1>1, HeldSize
      <3> QED BY <3>1, <3>2, <3>3
    <2> QED BY <2>1, <2>2
  <1>4. "extraFree" \notin z.fails => z.alloced = Cardinality(z.held) - (surplus + extra)
    <2> SUFFICES ASSUME "extraFree" \notin z.fails
                 PROVE  z.alloced = Cardinality(z.held) - (surplus + extra)
      OBVIOUS
    <2>1. "extraFree" \notin zone.fails /\ zone.alloced > 0
      BY <1>2
    <2>2. z.alloced = zone.alloced - 1
      BY <1>1, <1>2, <2>1, CountDown
    <2>3. zone.alloced = Cardinality(zone.held) - surplus
      BY <2>1 DEF IInv, Counted
    <2> QED BY <1>1, <1>3, <2>2, <2>3
  <1>5. "redzone" \notin z.fails => overrun \subseteq z.held \cap z.smashed
    <2> SUFFICES ASSUME "redzone" \notin z.fails
                 PROVE  overrun \subseteq z.held \cap z.smashed
      OBVIOUS
    <2>1. "redzone" \notin zone.fails /\ i \notin zone.smashed
      BY <1>2
    <2> QED BY <1>2, <2>1 DEF IInv, Watched
  <1>6. "redzone" \in z.fails => overrun # {}
    BY <1>2 DEF IInv, Blamed
  <1>7. "extraFree" \in z.fails => surplus + extra > 0
    <2>1. CASE "extraFree" \in zone.fails
      BY <1>1, <2>1 DEF IInv, Blamed
    <2>2. CASE "extraFree" \notin zone.fails /\ zone.alloced = 0
      <3>1. Cardinality(zone.held) = surplus
        BY <1>1, <1>3, <2>2 DEF IInv, Counted
      <3>2. CASE extra = 0
        BY <1>1, <3>1, <3>2, HeldSize
      <3> QED BY <1>1, <3>2
    <2>3. CASE "extraFree" \notin zone.fails /\ zone.alloced # 0
      BY <1>1, <1>2, <2>3
    <2> QED BY <2>1, <2>2, <2>3
  <1>8. "leak" \notin z.fails /\ z.smashed \subseteq overrun
    BY <1>2 DEF IInv, Blamed
  <1> QED BY <1>4, <1>5, <1>6, <1>7, <1>8

LEMMA NextInv == IInv /\ [Next]_vars => IInv'
  <1> SUFFICES ASSUME IInv, [Next]_vars PROVE IInv'
    OBVIOUS
  <1>0. /\ zone \in Zone /\ zone.held \in SUBSET Items /\ surplus \in Nat
        /\ zone.alloced \in Nat /\ zone.alloced < CountMod
    BY ZoneAssumption, SurplusAssumption DEF IInv, TypeOK, Zone
  <1>1. CASE Create
    <2>1. TypeOK'
      BY <1>1, NewZoneType, SurplusAssumption DEF Create, TypeOK
    <2> QED BY <1>1, <2>1, FreshZone DEF Create
  <1>2. ASSUME NEW i \in Items, Alloc(i) PROVE IInv'
    <2>0. up /\ up' = up /\ surplus' = surplus /\ overrun' = overrun /\ i \notin zone.held
      BY <1>2 DEF Alloc, Running
    <2>1. /\ zone' \in Zone
          /\ zone'.alloced = (zone.alloced + 1) % CountMod /\ zone'.held = zone.held \cup {i}
          /\ zone'.smashed = zone.smashed \ {i} /\ zone'.fails = zone.fails
          /\ zone'.dead = zone.dead
      BY <1>0, <1>2, ZallocFields DEF Alloc
    <2>2. TypeOK'
      BY <1>2, <2>1 DEF IInv, TypeOK, Alloc
    <2>3. Counted'
      <3> SUFFICES ASSUME "extraFree" \notin zone'.fails
                   PROVE  zone'.alloced = Cardinality(zone'.held) - surplus'
        BY DEF Counted
      <3>1. zone.alloced = Cardinality(zone.held) - surplus
        BY <2>1 DEF IInv, Counted
      <3>2. /\ Cardinality(zone.held) \in Nat /\ Cardinality(zone'.held) < CountMod
            /\ Cardinality(zone'.held) = Cardinality(zone.held) + 1
        BY <1>0, <2>0, <2>1, HeldSize
      <3>3. zone'.alloced = zone.alloced + 1
        BY <1>0, <2>1, <3>1, <3>2, CountUp, ZoneAssumption
      <3> QED BY <1>0, <2>0, <3>1, <3>2, <3>3
    <2>4. Watched' /\ Blamed' /\ Judged'
      BY <2>0, <2>1 DEF IInv, Watched, Blamed, Judged
    <2> QED BY <2>2, <2>3, <2>4 DEF IInv
  <1>3. ASSUME NEW i \in Items, Free(i) PROVE IInv'
    <2>0. up /\ up' = up /\ surplus' = surplus /\ overrun' = overrun /\ i \in zone.held
          /\ zone' = uma_zfree_arg(zone, i)
      BY <1>3 DEF Free, Running
    <2>1. zone' \in Zone /\ zone'.dead = zone.dead
      BY <1>0, <2>0, ZfreeFields
    <2>2. TypeOK'
      BY <1>3, <2>1 DEF IInv, TypeOK, Free
    <2>3. /\ "extraFree" \notin zone'.fails =>
               zone'.alloced = Cardinality(zone'.held) - (surplus + 0)
          /\ "redzone" \notin zone'.fails => overrun \subseteq zone'.held \cap zone'.smashed
          /\ zone'.smashed \subseteq overrun
          /\ "redzone" \in zone'.fails => overrun # {}
          /\ "extraFree" \in zone'.fails => surplus + 0 > 0
          /\ "leak" \notin zone'.fails
      BY <2>0, <2>1, FreeStep
    <2> QED BY <1>0, <2>0, <2>1, <2>2, <2>3 DEF IInv, Counted, Watched, Blamed, Judged
  <1>4. ASSUME NEW i \in Items, FreeAgain(i) PROVE IInv'
    <2>0. up /\ up' = up /\ surplus' = surplus + 1 /\ overrun' = overrun /\ i \notin zone.held
          /\ surplus < MaxSurplus
      BY <1>4 DEF FreeAgain, Running
    <2> DEFINE r == uma_zfree_arg(zone, i)
    <2>1. PICK aborts \in BOOLEAN : zone' = [r EXCEPT !.dead = r.dead \/ aborts]
      BY <1>4 DEF FreeAgain
    <2>2. r \in Zone
      BY <1>0, ZfreeFields
    <2>3. zone' \in Zone /\ zone'.alloced = r.alloced /\ zone'.held = r.held
          /\ zone'.smashed = r.smashed /\ zone'.fails = r.fails
      <3> HIDE DEF r
      <3> QED BY <2>1, <2>2 DEF Zone
    <2>4. TypeOK'
      BY <1>0, <1>4, <2>0, <2>3, SurplusAssumption DEF IInv, TypeOK, FreeAgain
    <2>5. /\ "extraFree" \notin zone'.fails =>
               zone'.alloced = Cardinality(zone'.held) - (surplus + 1)
          /\ "redzone" \notin zone'.fails => overrun \subseteq zone'.held \cap zone'.smashed
          /\ zone'.smashed \subseteq overrun
          /\ "redzone" \in zone'.fails => overrun # {}
          /\ "leak" \notin zone'.fails
      BY <2>0, <2>3, FreeStep
    <2> QED BY <1>0, <2>0, <2>4, <2>5 DEF IInv, Counted, Watched, Blamed, Judged
  <1>5. ASSUME NEW i \in Items, Overrun(i) PROVE IInv'
    <2>0. up /\ up' = up /\ surplus' = surplus /\ overrun' = overrun \cup {i} /\ i \in zone.held
          /\ zone' = [zone EXCEPT !.smashed = @ \cup {i}]
      BY <1>5 DEF Overrun, Running
    <2>1. /\ zone' \in Zone /\ zone'.alloced = zone.alloced /\ zone'.held = zone.held
          /\ zone'.smashed = zone.smashed \cup {i} /\ zone'.fails = zone.fails
          /\ zone'.dead = zone.dead
      BY <1>0, <2>0 DEF Zone
    <2>2. TypeOK'
      BY <1>5, <2>1 DEF IInv, TypeOK, Overrun
    <2> QED BY <2>0, <2>1, <2>2 DEF IInv, Counted, Watched, Blamed, Judged
  <1>6. ASSUME NEW i \in Items, WriteAfterFree(i) PROVE IInv'
    <2>0. up /\ up' = up /\ surplus' = surplus /\ overrun' = overrun
          /\ zone' = [zone EXCEPT !.junk = @ \ {i}]
      BY <1>6 DEF WriteAfterFree, Running
    <2>1. /\ zone' \in Zone /\ zone'.alloced = zone.alloced /\ zone'.held = zone.held
          /\ zone'.smashed = zone.smashed /\ zone'.fails = zone.fails
          /\ zone'.dead = zone.dead
      BY <1>0, <2>0 DEF Zone
    <2>2. TypeOK'
      BY <1>6, <2>1 DEF IInv, TypeOK, WriteAfterFree
    <2> QED BY <2>0, <2>1, <2>2 DEF IInv, Counted, Watched, Blamed, Judged
  <1>7. CASE Destroy
    <2>0. up /\ up' = FALSE /\ surplus' = surplus /\ overrun' = overrun
          /\ zone' = uma_zdestroy(zone)
      BY <1>7 DEF Destroy, Running
    <2>1. /\ zone' \in Zone /\ zone'.alloced = zone.alloced /\ zone'.held = zone.held
          /\ zone'.smashed = zone.smashed /\ zone'.dead = zone.dead
          /\ zone'.fails = zone.fails \cup (IF zone.alloced = 0 THEN {} ELSE {"leak"})
      BY <1>0, <2>0, ZdestroyFields
    <2>2. TypeOK'
      BY <1>7, <2>1 DEF IInv, TypeOK, Destroy
    <2> QED BY <2>0, <2>1, <2>2 DEF IInv, Counted, Watched, Blamed, Judged
  <1>8. CASE UNCHANGED vars
    BY <1>8 DEF vars, IInv, TypeOK, Counted, Watched, Blamed, Judged
  <1> QED BY <1>1, <1>2, <1>3, <1>4, <1>5, <1>6, <1>7, <1>8 DEF Next

\* The invariant holds of every behaviour.
THEOREM Invariance == Spec => []IInv
  BY InitInv, NextInv, PTL DEF Spec

\* Every variable keeps its type; in particular the counter never leaves size_t.
THEOREM TypeCorrect == Spec => []TypeOK
  <1>1. IInv => TypeOK
    BY DEF IInv
  <1> QED BY <1>1, Invariance, PTL

\* A failure or an abort is always the test's own doing: the zone's checks never
\* fail a test that keeps the rules.
THEOREM FalseAlarmFree == Spec => []NoFalseAlarm
  <1>1. IInv => NoFalseAlarm
    <2> SUFFICES ASSUME IInv, zone.fails # {} \/ zone.dead PROVE Misused
      BY DEF NoFalseAlarm
    <2>1. /\ zone.fails \subseteq Failures /\ zone.held \in SUBSET Items /\ surplus \in Nat
      BY SurplusAssumption DEF IInv, TypeOK, Zone
    <2>2. CASE zone.dead \/ "extraFree" \in zone.fails
      BY <2>2 DEF IInv, Blamed, Misused
    <2>3. CASE "redzone" \in zone.fails
      BY <2>3 DEF IInv, Blamed, Misused
    <2>4. CASE "leak" \in zone.fails /\ "extraFree" \notin zone.fails
      <3>1. ~up /\ Cardinality(zone.held) - surplus # 0
        BY <2>4 DEF IInv, Blamed, Counted
      <3>2. CASE surplus = 0
        <4>1. Cardinality(zone.held) # 0
          BY <2>1, <3>1, <3>2, HeldSize
        <4> QED BY <2>1, <3>1, <4>1, HeldSize DEF Misused
      <3>3. CASE surplus # 0
        BY <2>1, <3>3 DEF Misused
      <3> QED BY <3>2, <3>3
    <2> QED BY <2>1, <2>2, <2>3, <2>4 DEF Failures
  <1> QED BY <1>1, Invariance, PTL

\* A clean verdict means that leaks and extra frees cancel out and that no block
\* was freed with its redzone overwritten.
THEOREM Verdicts == Spec => []CleanVerdict
  <1>1. IInv => CleanVerdict
    <2> SUFFICES ASSUME IInv, ~up, zone.fails = {}
                 PROVE  Cardinality(zone.held) = surplus /\ overrun \subseteq zone.held
      BY DEF CleanVerdict
    <2>1. zone.held \in SUBSET Items /\ surplus \in Nat
      BY SurplusAssumption DEF IInv, TypeOK, Zone
    <2>2. zone.alloced = 0 /\ zone.alloced = Cardinality(zone.held) - surplus
      BY DEF IInv, Counted, Judged
    <2>3. Cardinality(zone.held) \in Nat
      BY <2>1, HeldSize
    <2> QED BY <2>1, <2>2, <2>3 DEF IInv, Watched
  <1> QED BY <1>1, Invariance, PTL
=============================================================================
