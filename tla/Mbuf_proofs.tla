------------------------------ MODULE Mbuf_proofs ------------------------------
(* Proofs about Mbuf: exact counters, no dangling holder, one release of every *)
(* buffer, and an exact leak check.                                            *)
EXTENDS Mbuf, UmaZone_proofs

\* The zone has seen no misuse while it is up.
ZoneSound == zone \in Zone /\ (up => Sound(zone))

\* Nobody holds an mbuf that m_freem is freeing.
Apart == owned \cap chain = {} /\ (~up => chain = {})

\* An mbuf with storage knows where its counter is: with the buffer, or in an
\* mbuf that has the same buffer and is its own holder.
Linked ==
  \A m \in Alive :
    \/ ext_buf[m] = None /\ ext_cnt[m] = None
    \/ /\ ext_buf[m] \in bufs
       /\ \/ ext_cnt[m] = ext_buf[m]
          \/ /\ ext_cnt[m] \in Items
             /\ ext_buf[ext_cnt[m]] = ext_buf[m] /\ ext_cnt[ext_cnt[m]] = ext_cnt[m]

\* A buffer has one counter.
OneCounter ==
  \A m, n \in Alive : ext_buf[m] = ext_buf[n] => ext_cnt[m] = ext_cnt[n]

\* An allocated buffer is referred to.
InUse == \A b \in bufs : \E m \in Alive : ext_buf[m] = b

\* The zone has handed out the mbufs somebody counts on and the holders of
\* their counters.
HeldExact == zone.held = Alive \cup {i \in Items : \E m \in Alive : ext_cnt[m] = i}

IInv == TypeOK /\ ZoneSound /\ Apart /\ Linked /\ OneCounter /\ InUse /\ HeldExact
        /\ RefcountExact

\* What the actions need to know of the state, in one place.
LEMMA Facts ==
  ASSUME IInv
  PROVE  /\ Alive \subseteq Items /\ Alive \subseteq zone.held /\ zone.held \subseteq Items
         /\ \A b : Refs(b) \subseteq Alive /\ IsFiniteSet(Refs(b))
         /\ \A m \in Alive : ext_cnt[m] \in Items => ext_cnt[m] \in zone.held
         /\ \A m \in Alive, b \in Bufs : ext_cnt[m] = b => ext_buf[m] = b /\ b \in bufs
         /\ \A m, n \in Alive : ext_cnt[m] = n => ext_buf[m] = ext_buf[n] /\ ext_buf[n] \in bufs
         /\ \A m \in Items \ zone.held, n \in Alive : ext_cnt[n] # m
  <1>1. Alive \subseteq Items /\ zone.held \subseteq Items /\ Alive \subseteq zone.held
    BY DEF IInv, TypeOK, Alive, HeldExact, ZoneSound, Zone
  <1>2. ASSUME NEW b PROVE Refs(b) \subseteq Alive /\ IsFiniteSet(Refs(b))
    <2>1. Refs(b) \subseteq Alive
      BY DEF Refs
    <2> QED BY <1>1, <2>1, FS_Subset, ZoneAssumption
  <1>3. \A m \in Alive : ext_cnt[m] \in Items => ext_cnt[m] \in zone.held
    BY DEF IInv, HeldExact
  <1>4. \A m \in Alive, b \in Bufs : ext_cnt[m] = b => ext_buf[m] = b /\ b \in bufs
    BY MbufAssumption DEF IInv, Linked
  <1>5. \A m, n \in Alive : ext_cnt[m] = n => ext_buf[m] = ext_buf[n] /\ ext_buf[n] \in bufs
    BY <1>1, MbufAssumption DEF IInv, Linked, TypeOK
  <1>6. \A m \in Items \ zone.held, n \in Alive : ext_cnt[n] # m
    BY <1>3
  <1> QED BY <1>1, <1>2, <1>3, <1>4, <1>5, <1>6

\* A state without mbufs.
Empty ==
  /\ zone = NewZone /\ up \in BOOLEAN /\ owned = {} /\ chain = {} /\ bufs = {}
  /\ ext_buf = [m \in Items |-> None] /\ ext_cnt = [m \in Items |-> None]
  /\ ext_count = [h \in Holders |-> 0]

LEMMA EmptyInv == Empty => IInv
  <1> SUFFICES ASSUME Empty PROVE IInv
    OBVIOUS
  <1>1. Sound(zone) /\ zone \in Zone /\ zone.held = {}
    BY NewZoneSound, NewZoneType DEF Empty
  <1>2. Alive = {}
    BY DEF Alive, Empty
  <1>3. TypeOK
    <2>1. Cardinality(Items) \in Nat
      BY ZoneAssumption, FS_CardinalityType
    <2> QED BY <1>1, <2>1 DEF TypeOK, Empty
  <1>4. RefcountExact
    BY <1>2 DEF RefcountExact, Refs
  <1> QED BY <1>1, <1>2, <1>3, <1>4 DEF Empty, IInv, ZoneSound, Apart, Linked, OneCounter,
                                        InUse, HeldExact

LEMMA InitInv == Init => IInv
  <1>1. Init => Empty
    BY DEF Init, Empty
  <1> QED BY <1>1, EmptyInv

LEMMA SetUpInv == SetUp => IInv'
  <1>1. SetUp => Empty'
    BY DEF SetUp, NoExt, Empty
  <1> QED BY <1>1, EmptyInv, PTL

LEMMA TearDownInv == ASSUME IInv, TearDown PROVE IInv'
  <1>1. zone' \in Zone /\ zone'.held = zone.held /\ up' = FALSE
    BY ZdestroySound DEF TearDown, IInv, ZoneSound
  <1>2. UNCHANGED <<ext_buf, ext_cnt, ext_count, bufs, owned, chain>> /\ chain = {}
    BY DEF TearDown, ext
  <1>3. Alive' = Alive /\ \A b : Refs(b)' = Refs(b)
    BY <1>2 DEF Alive, Refs
  <1>4. TypeOK'
    BY <1>1, <1>2 DEF IInv, TypeOK
  <1>5. ZoneSound' /\ Apart' /\ HeldExact'
    BY <1>1, <1>2, <1>3 DEF IInv, ZoneSound, Apart, HeldExact
  <1>6. Linked' /\ OneCounter' /\ InUse'
    BY <1>2, <1>3 DEF IInv, Linked, OneCounter, InUse
  <1>7. RefcountExact'
    <2>1. ASSUME NEW b \in Bufs, NEW k \in Refs(b)'
          PROVE  ext_count'[ext_cnt'[k]] = Cardinality(Refs(b)')
      <3>1. Refs(b)' = Refs(b) /\ ext_count' = ext_count /\ ext_cnt' = ext_cnt
        BY <1>2, <1>3
      <3> QED BY <2>1, <3>1 DEF IInv, RefcountExact
    <2> QED BY <2>1 DEF RefcountExact
  <1> QED BY <1>4, <1>5, <1>6, <1>7 DEF IInv
-----------------------------------------------------------------------------
(* Allocation.                                                             *)

\* What every allocation of an mbuf has in common.
LEMMA NewMbuf ==
  ASSUME IInv, up, chain = {}, NEW m \in Items, m \notin zone.held,
         zone' = uma_zalloc_arg(zone, m), owned' = owned \cup {m}, up' = up, chain' = chain
  PROVE  /\ Alive' = Alive \cup {m} /\ m \notin Alive
         /\ ZoneSound' /\ Apart' /\ zone'.held = zone.held \cup {m}
         /\ owned' \subseteq Items /\ chain' \subseteq Items
  <1>1. Sound(zone) /\ m \notin Alive
    BY Facts DEF IInv, ZoneSound
  <1>2. Sound(zone') /\ zone'.held = zone.held \cup {m}
    BY <1>1, ZallocSound
  <1>3. ZoneSound'
    BY <1>2 DEF ZoneSound, Sound
  <1>4. Alive' = Alive \cup {m} /\ Apart'
    BY DEF Alive, Apart, IInv
  <1> QED BY <1>1, <1>2, <1>3, <1>4 DEF IInv, TypeOK

LEMMA AllocSmallInv == ASSUME IInv, NEW m \in Items, AllocSmall(m) PROVE IInv'
  <1>0. /\ up /\ chain = {} /\ m \notin zone.held /\ up' = up /\ chain' = chain
        /\ zone' = uma_zalloc_arg(zone, m) /\ owned' = owned \cup {m}
        /\ ext_count' = ext_count /\ bufs' = bufs
        /\ ext_buf' = [ext_buf EXCEPT ![m] = None] /\ ext_cnt' = [ext_cnt EXCEPT ![m] = None]
    BY DEF AllocSmall
  <1>1. /\ Alive' = Alive \cup {m} /\ m \notin Alive
        /\ ZoneSound' /\ Apart' /\ zone'.held = zone.held \cup {m}
        /\ owned' \subseteq Items /\ chain' \subseteq Items
    BY <1>0, NewMbuf
  <1>2. /\ \A k \in Items \ {m} : ext_buf'[k] = ext_buf[k] /\ ext_cnt'[k] = ext_cnt[k]
        /\ ext_buf'[m] = None /\ ext_cnt'[m] = None
    BY <1>0 DEF IInv, TypeOK
  <1>3. \A k \in Alive : k \in Items /\ k # m /\ ext_cnt[k] # m
    BY <1>0, Facts
  <1>4. TypeOK'
    BY <1>0, <1>1 DEF IInv, TypeOK, ZoneSound
  <1>5. Linked'
    BY <1>0, <1>1, <1>2, <1>3 DEF IInv, Linked
  <1>6. OneCounter'
    BY <1>1, <1>2, <1>3, MbufAssumption DEF IInv, OneCounter, Linked, TypeOK
  <1>7. InUse'
    BY <1>0, <1>1, <1>2, <1>3 DEF IInv, InUse
  <1>8. HeldExact'
    BY <1>1, <1>2, <1>3, MbufAssumption DEF IInv, HeldExact
  <1>9. RefcountExact'
    <2>1. \A b \in Bufs : Refs(b)' = Refs(b)
      BY <1>1, <1>2, <1>3, MbufAssumption DEF Refs
    <2>2. \A b \in Bufs : \A k \in Refs(b) : ext_cnt'[k] = ext_cnt[k]
      BY <1>2, <1>3 DEF Refs
    <2> QED BY <1>0, <2>1, <2>2 DEF IInv, RefcountExact
  <1> QED BY <1>1, <1>4, <1>5, <1>6, <1>7, <1>8, <1>9 DEF IInv

\* A buffer that is attached to mbuf m, which had none and keeps no counter,
\* with its counter in h.
LEMMA ExtaddInv ==
  ASSUME IInv, NEW m \in Items, NEW b \in Bufs, NEW h \in {m, b}, b \notin bufs,
         m_extadd(m, b, h), Alive' = Alive \cup {m}, m \in Alive => ext_buf[m] = None,
         \A k \in Alive : ext_cnt[k] # m,
         ZoneSound', Apart', owned' \subseteq Items, chain' \subseteq Items,
         up' \in BOOLEAN, zone'.held = zone.held \cup {m}
  PROVE  IInv'
  <1>0. /\ ext_buf' = [ext_buf EXCEPT ![m] = b] /\ ext_cnt' = [ext_cnt EXCEPT ![m] = h]
        /\ ext_count' = [ext_count EXCEPT ![h] = 1] /\ bufs' = bufs \cup {b}
    BY DEF m_extadd
  <1>1. Alive \subseteq Items /\ h \in Holders /\ b # None
    BY Facts, MbufAssumption DEF Holders
  <1>2. /\ \A k \in Items \ {m} : ext_buf'[k] = ext_buf[k] /\ ext_cnt'[k] = ext_cnt[k]
        /\ ext_buf'[m] = b /\ ext_cnt'[m] = h
        /\ \A g \in Holders \ {h} : ext_count'[g] = ext_count[g]
        /\ ext_count'[h] = 1
    BY <1>0, <1>1 DEF IInv, TypeOK
  <1>3. \A k \in Alive : k \in Items /\ ext_buf[k] # b /\ ext_cnt[k] # h
    BY <1>1, Facts, MbufAssumption DEF IInv, Linked
  <1>4. TypeOK'
    <2>1. 1 \in 0..Cardinality(Items)
      BY HeldSize, ZoneAssumption
    <2> QED BY <1>0, <1>1, <2>1 DEF IInv, TypeOK, ZoneSound
  <1>5. Linked'
    <2> SUFFICES ASSUME NEW k \in Alive'
                 PROVE  \/ ext_buf'[k] = None /\ ext_cnt'[k] = None
                        \/ /\ ext_buf'[k] \in bufs'
                           /\ \/ ext_cnt'[k] = ext_buf'[k]
                              \/ /\ ext_cnt'[k] \in Items
                                 /\ ext_buf'[ext_cnt'[k]] = ext_buf'[k]
                                 /\ ext_cnt'[ext_cnt'[k]] = ext_cnt'[k]
      BY DEF Linked
    <2>1. CASE k = m
      BY <1>0, <1>2, <2>1
    <2>2. CASE k # m
      BY <1>0, <1>2, <1>3, <2>2 DEF IInv, Linked
    <2> QED BY <2>1, <2>2
  <1>6. OneCounter'
    BY <1>2, <1>3 DEF IInv, OneCounter
  <1>7. InUse'
    <2>1. b \in bufs' => \E k \in Alive' : ext_buf'[k] = b
      BY <1>2
    <2>2. ASSUME NEW c \in bufs PROVE \E k \in Alive' : ext_buf'[k] = c
      <3>1. PICK k \in Alive : ext_buf[k] = c
        BY DEF IInv, InUse
      <3>2. k # m
        BY <3>1, MbufAssumption DEF IInv, TypeOK
      <3> QED BY <1>1, <1>2, <3>1, <3>2
    <2> QED BY <1>0, <2>1, <2>2 DEF InUse
  <1>8. HeldExact'
    <2>1. m \in Alive => ext_cnt[m] \notin Items
      BY <1>1, MbufAssumption DEF IInv, Linked, TypeOK
    <2>2. \A i \in Items : (\E k \in Alive : ext_cnt[k] = i) => \E k \in Alive' : ext_cnt'[k] = i
      BY <1>1, <1>2, <2>1
    <2>3. \A i \in Items : (\E k \in Alive' : ext_cnt'[k] = i) =>
                              i = m \/ \E k \in Alive : ext_cnt[k] = i
      BY <1>1, <1>2, MbufAssumption
    <2> QED BY <2>2, <2>3 DEF IInv, HeldExact
  <1>9. RefcountExact'
    <2>1. Refs(b)' = {m}
      BY <1>1, <1>2, <1>3 DEF Refs
    <2>2. \A c \in Bufs \ {b} : Refs(c)' = Refs(c)
      BY <1>1, <1>2, <1>3, MbufAssumption DEF Refs
    <2>3. Cardinality({m}) = 1
      BY FS_Singleton
    <2>4. \A c \in Bufs \ {b} : \A k \in Refs(c) : ext_count'[ext_cnt'[k]] = ext_count[ext_cnt[k]]
      <3> SUFFICES ASSUME NEW c \in Bufs \ {b}, NEW k \in Refs(c)
                   PROVE  ext_count'[ext_cnt'[k]] = ext_count[ext_cnt[k]]
        OBVIOUS
      <3>1. k \in Alive /\ ext_buf[k] = c /\ c # None /\ k # m
        BY MbufAssumption DEF Refs
      <3>2. ext_cnt'[k] = ext_cnt[k] /\ ext_cnt[k] # h
        BY <1>1, <1>2, <1>3, <3>1
      <3>3. ext_cnt[k] \in Holders
        BY <3>1 DEF IInv, Linked, TypeOK, Holders
      <3> QED BY <1>2, <3>2, <3>3
    <2>5. ASSUME NEW c \in Bufs, NEW k \in Refs(c)'
          PROVE  ext_count'[ext_cnt'[k]] = Cardinality(Refs(c)')
      <3>1. CASE c = b
        BY <1>2, <2>1, <2>3, <2>5, <3>1
      <3>2. CASE c # b
        BY <2>2, <2>4, <2>5, <3>2 DEF IInv, RefcountExact
      <3> QED BY <3>1, <3>2
    <2> QED BY <2>5 DEF RefcountExact
  <1> QED BY <1>4, <1>5, <1>6, <1>7, <1>8, <1>9 DEF IInv

LEMMA AllocLargeInv ==
  ASSUME IInv, NEW m \in Items, NEW b \in Bufs, AllocLarge(m, b) PROVE IInv'
  <1>1. /\ up /\ chain = {} /\ m \notin zone.held /\ up' = up /\ chain' = chain
        /\ zone' = uma_zalloc_arg(zone, m) /\ owned' = owned \cup {m}
        /\ m_extadd(m, b, m) /\ b \notin bufs
    BY DEF AllocLarge
  <1>2. /\ Alive' = Alive \cup {m} /\ m \notin Alive
        /\ ZoneSound' /\ Apart' /\ zone'.held = zone.held \cup {m}
        /\ owned' \subseteq Items /\ chain' \subseteq Items
    BY <1>1, NewMbuf
  <1>3. \A k \in Alive : ext_cnt[k] # m
    BY <1>1, Facts
  <1>4. up' \in BOOLEAN
    BY <1>1 DEF IInv, TypeOK
  <1> QED BY <1>1, <1>2, <1>3, <1>4, ExtaddInv

LEMMA AttachInv ==
  ASSUME IInv, NEW m \in Items, NEW b \in Bufs, NEW h \in {m, b}, Attach(m, b, h)
  PROVE  IInv'
  <1>1. /\ m \in owned /\ ext_buf[m] = None /\ b \notin bufs /\ m_extadd(m, b, h)
        /\ zone' = zone /\ up' = up /\ owned' = owned /\ chain' = chain
    BY DEF Attach
  <1>2. Alive' = Alive \cup {m} /\ m \in Alive /\ zone'.held = zone.held \cup {m}
    BY <1>1, Facts DEF Alive
  <1>3. \A k \in Alive : ext_cnt[k] # m
    BY <1>1, <1>2, Facts, MbufAssumption DEF IInv, TypeOK
  <1>4. /\ ZoneSound' /\ Apart' /\ owned' \subseteq Items /\ chain' \subseteq Items
        /\ up' \in BOOLEAN
    BY <1>1 DEF IInv, TypeOK, ZoneSound, Apart
  <1> QED BY <1>1, <1>2, <1>3, <1>4, ExtaddInv

LEMMA DuplicateInv ==
  ASSUME IInv, NEW m \in Items, NEW n \in Items, Duplicate(m, n) PROVE IInv'
  <1> DEFINE b == ext_buf[m]
             h == ext_cnt[m]
  <1>0. /\ up /\ chain = {} /\ m \in owned /\ b # None /\ n \notin zone.held
        /\ zone' = uma_zalloc_arg(zone, n) /\ owned' = owned \cup {n}
        /\ ext_buf' = [ext_buf EXCEPT ![n] = b] /\ ext_cnt' = [ext_cnt EXCEPT ![n] = h]
        /\ ext_count' = [ext_count EXCEPT ![h] = @ + 1]
        /\ up' = up /\ bufs' = bufs /\ chain' = chain
    BY DEF Duplicate
  <1>1. /\ Alive' = Alive \cup {n} /\ n \notin Alive
        /\ ZoneSound' /\ Apart' /\ zone'.held = zone.held \cup {n}
        /\ owned' \subseteq Items /\ chain' \subseteq Items
    BY <1>0, NewMbuf
  <1>2. m \in Alive /\ b \in Bufs /\ b \in bufs /\ h \in Holders /\ h # n /\ m # n
    BY <1>0, <1>1, Facts DEF Alive, IInv, Linked, TypeOK, Holders
  <1>3. \A k \in Alive : k \in Items /\ k # n /\ ext_cnt[k] # n
    BY <1>0, <1>1, Facts
  <1>4. /\ \A k \in Items \ {n} : ext_buf'[k] = ext_buf[k] /\ ext_cnt'[k] = ext_cnt[k]
        /\ ext_buf'[n] = b /\ ext_cnt'[n] = h
        /\ \A g \in Holders \ {h} : ext_count'[g] = ext_count[g]
        /\ ext_count'[h] = ext_count[h] + 1
    BY <1>0, <1>2 DEF IInv, TypeOK
  <1>5. Refs(b)' = Refs(b) \cup {n} /\ \A c \in Bufs \ {b} : Refs(c)' = Refs(c)
    BY <1>1, <1>3, <1>4 DEF Refs
  <1>6. m \in Refs(b) /\ n \notin Refs(b)
    BY <1>1, <1>2 DEF Refs
  <1>7. /\ ext_count[h] = Cardinality(Refs(b)) /\ ext_count[h] \in Nat
        /\ Cardinality(Refs(b)') = ext_count[h] + 1 /\ Cardinality(Refs(b)') <= Cardinality(Items)
    <2>1. ext_count[h] = Cardinality(Refs(b))
      BY <1>2, <1>6 DEF IInv, RefcountExact
    <2>2. IsFiniteSet(Refs(b)) /\ Refs(b) \subseteq Items
      BY Facts
    <2>3. Cardinality(Refs(b)) \in Nat /\ Cardinality(Refs(b) \cup {n}) = Cardinality(Refs(b)) + 1
      BY <1>6, <2>2, FS_AddElement, FS_CardinalityType
    <2>4. Cardinality(Refs(b) \cup {n}) <= Cardinality(Items)
      BY <2>2, FS_Subset, ZoneAssumption
    <2> QED BY <1>5, <2>1, <2>3, <2>4
  <1>8. TypeOK'
    <2>1. ext_count[h] + 1 \in 0..Cardinality(Items)
      BY <1>7, ZoneAssumption, FS_CardinalityType
    <2>2. ext_count' = [ext_count EXCEPT ![h] = ext_count[h] + 1]
      BY <1>0
    <2> HIDE DEF b, h
    <2> QED BY <1>0, <1>1, <1>2, <2>1, <2>2 DEF IInv, TypeOK, ZoneSound, Holders
  <1>9. Linked'
    <2> SUFFICES ASSUME NEW k \in Alive'
                 PROVE  \/ ext_buf'[k] = None /\ ext_cnt'[k] = None
                        \/ /\ ext_buf'[k] \in bufs
                           /\ \/ ext_cnt'[k] = ext_buf'[k]
                              \/ /\ ext_cnt'[k] \in Items
                                 /\ ext_buf'[ext_cnt'[k]] = ext_buf'[k]
                                 /\ ext_cnt'[ext_cnt'[k]] = ext_cnt'[k]
      BY <1>0 DEF Linked
    <2>1. CASE k = n
      BY <1>0, <1>2, <1>4, <2>1 DEF IInv, Linked
    <2>2. CASE k # n
      BY <1>1, <1>3, <1>4, <2>2 DEF IInv, Linked
    <2> QED BY <2>1, <2>2
  <1>10. OneCounter'
    BY <1>1, <1>2, <1>3, <1>4 DEF IInv, OneCounter
  <1>11. InUse'
    BY <1>0, <1>1, <1>3, <1>4 DEF IInv, InUse
  <1>12. HeldExact'
    <2>1. \A i \in Items : (\E k \in Alive' : ext_cnt'[k] = i) <=> \E k \in Alive : ext_cnt[k] = i
      BY <1>1, <1>2, <1>3, <1>4
    <2> QED BY <1>1, <2>1 DEF IInv, HeldExact
  <1>13. RefcountExact'
    <2>1. ASSUME NEW c \in Bufs, NEW k \in Refs(c)'
          PROVE  ext_count'[ext_cnt'[k]] = Cardinality(Refs(c)')
      <3>1. CASE c = b
        <4>1. ext_cnt'[k] = h
          BY <1>2, <1>3, <1>4, <1>5, <2>1, <3>1 DEF Refs, IInv, OneCounter
        <4> QED BY <1>4, <1>7, <3>1, <4>1
      <3>2. CASE c # b
        <4>1. k \in Refs(c) /\ Refs(c)' = Refs(c)
          BY <1>5, <2>1, <3>2
        <4>2. k \in Alive /\ ext_buf[k] = c /\ c # None
          BY <4>1, MbufAssumption DEF Refs
        <4>3. ext_cnt[k] \in Holders /\ ext_cnt[k] # h
          BY <1>2, <3>2, <4>2, MbufAssumption DEF IInv, Linked, TypeOK, Holders
        <4>4. ext_count'[ext_cnt'[k]] = ext_count[ext_cnt[k]]
          BY <1>3, <1>4, <4>2, <4>3
        <4> QED BY <4>1, <4>4 DEF IInv, RefcountExact
      <3> QED BY <3>1, <3>2
    <2> QED BY <2>1 DEF RefcountExact
  <1> QED BY <1>1, <1>8, <1>9, <1>10, <1>11, <1>12, <1>13 DEF IInv
-----------------------------------------------------------------------------
(* Freeing.                                                                *)

LEMMA FreemInv == ASSUME IInv, NEW S \in SUBSET Items, m_freem(S) PROVE IInv'
  <1>1. /\ up /\ chain = {} /\ S \subseteq owned /\ chain' = S /\ owned' = owned \ S
        /\ UNCHANGED <<zone, up, ext_buf, ext_cnt, ext_count, bufs>>
    BY DEF m_freem, ext
  <1>2. Alive' = Alive
    BY <1>1 DEF Alive
  <1>3. TypeOK' /\ ZoneSound' /\ Apart' /\ HeldExact'
    BY <1>1, <1>2 DEF IInv, TypeOK, ZoneSound, Apart, HeldExact
  <1>4. Linked' /\ OneCounter' /\ InUse'
    BY <1>1, <1>2 DEF IInv, Linked, OneCounter, InUse
  <1>5. RefcountExact'
    <2>1. ASSUME NEW b \in Bufs, NEW k \in Refs(b)'
          PROVE  ext_count'[ext_cnt'[k]] = Cardinality(Refs(b)')
      <3>1. Refs(b)' = Refs(b) /\ ext_count' = ext_count /\ ext_cnt' = ext_cnt
        BY <1>1, <1>2 DEF Refs
      <3> QED BY <2>1, <3>1 DEF IInv, RefcountExact
    <2> QED BY <2>1 DEF RefcountExact
  <1> QED BY <1>3, <1>4, <1>5 DEF IInv

\* An mbuf with storage lets go of it: what mb_free_ext leaves behind.
LEMMA FreeExtFacts ==
  ASSUME IInv, NEW m \in chain, ext_buf[m] # None, mb_free_ext(m)
  PROVE  LET b == ext_buf[m]
             h == ext_cnt[m]
             last == Refs(b) = {m}
         IN  /\ b \in Bufs /\ b \in bufs /\ h \in Holders /\ m \in Refs(b)
             /\ Last(m) <=> last
             /\ bufs' = IF last THEN bufs \ {b} ELSE bufs
             /\ ext_count' = [ext_count EXCEPT ![h] = Cardinality(Refs(b)) - (IF last THEN 0 ELSE 1)]
             /\ Cardinality(Refs(b)) \in 1..Cardinality(Items)
             /\ ~last => Cardinality(Refs(b) \ {m}) = Cardinality(Refs(b)) - 1
             /\ ~last => Cardinality(Refs(b)) > 1
             /\ Sound(zone')
             /\ zone'.held = zone.held \ ((IF last THEN {h} ELSE {}) \cup (IF m # h THEN {m} ELSE {}))
  <1> DEFINE b == ext_buf[m]
             h == ext_cnt[m]
             last == Refs(b) = {m}
  <1>1. /\ m \in Alive /\ m \in Items /\ m \in zone.held
        /\ b \in Bufs /\ b \in bufs /\ h \in Holders
        /\ h \in Items => h \in zone.held /\ ext_buf[h] = b
    <2>1. m \in Alive /\ m \in Items /\ m \in zone.held
      BY Facts DEF Alive
    <2>2. b \in bufs /\ b \in Bufs
      BY <2>1 DEF IInv, Linked, TypeOK
    <2>3. h = b \/ (h \in Items /\ ext_buf[h] = b)
      BY <2>1 DEF IInv, Linked
    <2>4. h \in Items => h \in zone.held /\ ext_buf[h] = b
      BY <2>1, <2>2, <2>3, Facts, MbufAssumption
    <2> QED BY <2>1, <2>2, <2>3, <2>4 DEF Holders
  <1>2. m \in Refs(b)
    BY <1>1 DEF Refs
  <1>3. /\ ext_count[h] = Cardinality(Refs(b))
        /\ Cardinality(Refs(b)) \in 1..Cardinality(Items)
        /\ Cardinality(Refs(b) \ {m}) = Cardinality(Refs(b)) - 1
        /\ Cardinality(Refs(b)) = 1 <=> last
    <2>1. ext_count[h] = Cardinality(Refs(b))
      BY <1>1, <1>2 DEF IInv, RefcountExact
    <2>2. IsFiniteSet(Refs(b)) /\ Refs(b) \subseteq Items /\ Refs(b) \ {m} \in SUBSET Items
      BY Facts
    <2>3. Cardinality(Refs(b)) \in Nat /\ Cardinality(Refs(b)) <= Cardinality(Items)
          /\ Cardinality(Items) \in Nat
      BY <2>2, FS_Subset, FS_CardinalityType, ZoneAssumption
    <2>4. Cardinality(Refs(b) \ {m}) = Cardinality(Refs(b)) - 1
      BY <1>2, <2>2, FS_RemoveElement
    <2>5. Cardinality(Refs(b) \ {m}) \in Nat
          /\ (Cardinality(Refs(b) \ {m}) = 0 <=> Refs(b) \ {m} = {})
      BY <2>2, HeldSize
    <2>6. Refs(b) \ {m} = {} <=> last
      BY <1>2
    <2> QED BY <2>1, <2>3, <2>4, <2>5, <2>6
  <1>4. Last(m) <=> last
    BY <1>3 DEF Last
  <1>5. bufs' = IF last THEN bufs \ {b} ELSE bufs
    BY <1>1, <1>4 DEF mb_free_ext
  <1>6. ext_count' = [ext_count EXCEPT ![h] = Cardinality(Refs(b)) - (IF last THEN 0 ELSE 1)]
    <2>1. ext_count' = [ext_count EXCEPT ![h] = CountAfter(m)]
      BY DEF mb_free_ext
    <2>2. CountAfter(m) = Cardinality(Refs(b)) - (IF last THEN 0 ELSE 1)
      BY <1>3, <1>4 DEF CountAfter
    <2> QED BY <2>1, <2>2
  <1>7. /\ Sound(zone')
        /\ zone'.held = zone.held \ ((IF last THEN {h} ELSE {}) \cup (IF m # h THEN {m} ELSE {}))
    <2> DEFINE z == IF FreesHolder(m) THEN uma_zfree_arg(zone, h) ELSE zone
    <2>1. zone' = IF m # h THEN uma_zfree_arg(z, m) ELSE z
      BY DEF mb_free_ext, FreesMbuf
    <2>2. Sound(zone)
      BY <1>1 DEF IInv, ZoneSound, Apart
    <2>3. FreesHolder(m) <=> last /\ h \in Items
      BY <1>4 DEF FreesHolder
    <2>4. Sound(z) /\ z.held = zone.held \ (IF last THEN {h} ELSE {})
      <3>1. CASE FreesHolder(m)
        BY <1>1, <2>2, <2>3, <3>1, ZfreeSound
      <3>2. CASE ~FreesHolder(m)
        <4>1. z = zone /\ (last => h \notin zone.held)
          BY <1>1, <2>3, <3>2, Facts
        <4> QED BY <2>2, <4>1
      <3> QED BY <3>1, <3>2
    <2> HIDE DEF z
    <2>5. CASE m # h
      <3>1. m \in z.held
        BY <1>1, <2>4, <2>5
      <3>2. Sound(zone') /\ zone'.held = z.held \ {m}
        BY <2>1, <2>4, <2>5, <3>1, ZfreeSound
      <3> QED BY <2>4, <2>5, <3>2
    <2>6. CASE m = h
      BY <2>1, <2>4, <2>6
    <2> QED BY <2>5, <2>6
  <1>8. ~last => Cardinality(Refs(b)) > 1
    BY <1>3
  <1> QED BY <1>1, <1>2, <1>3, <1>4, <1>5, <1>6, <1>7, <1>8

LEMMA FreePlainInv ==
  ASSUME IInv, NEW m \in chain, m_free(m), ext_buf[m] = None PROVE IInv'
  <1>1. /\ m \in Alive /\ m \in Items /\ m \in zone.held
        /\ \A k \in Alive : k \in Items /\ ext_cnt[k] # m
    <2>1. m \in Alive
      BY DEF Alive
    <2> QED BY <2>1, Facts, MbufAssumption DEF IInv, TypeOK
  <1>2. /\ chain' = chain \ {m} /\ owned' = owned /\ up' = up /\ up
        /\ ext_buf' = ext_buf /\ ext_cnt' = ext_cnt /\ ext_count' = ext_count /\ bufs' = bufs
        /\ zone' = uma_zfree_arg(zone, m)
    BY DEF m_free, IInv, Apart
  <1>3. Sound(zone') /\ zone'.held = zone.held \ {m}
    BY <1>1, <1>2, ZfreeSound DEF IInv, ZoneSound
  <1>4. Alive' = Alive \ {m}
    BY <1>2 DEF Alive, IInv, Apart
  <1>5. TypeOK' /\ ZoneSound' /\ Apart'
    BY <1>2, <1>3 DEF IInv, TypeOK, ZoneSound, Apart, Sound
  <1>6. Linked' /\ OneCounter'
    BY <1>2, <1>4 DEF IInv, Linked, OneCounter
  <1>7. InUse'
    <2>1. None \notin bufs
      BY MbufAssumption DEF IInv, TypeOK
    <2> QED BY <1>2, <1>4, <2>1 DEF IInv, InUse
  <1>8. HeldExact'
    <2>1. \A i \in Items : (\E k \in Alive' : ext_cnt'[k] = i) <=> \E k \in Alive : ext_cnt[k] = i
      <3>1. ext_cnt[m] \notin Items
        BY <1>1, MbufAssumption DEF IInv, Linked, TypeOK
      <3> QED BY <1>2, <1>4, <3>1
    <2>2. ~ \E k \in Alive : ext_cnt[k] = m
      BY <1>1
    <2> QED BY <1>3, <1>4, <2>1, <2>2 DEF IInv, HeldExact
  <1>9. RefcountExact'
    <2>1. ASSUME NEW b \in Bufs, NEW k \in Refs(b)'
          PROVE  ext_count'[ext_cnt'[k]] = Cardinality(Refs(b)')
      <3>1. Refs(b)' = Refs(b)
        BY <1>2, <1>4, MbufAssumption DEF Refs
      <3> QED BY <1>2, <2>1, <3>1 DEF IInv, RefcountExact
    <2> QED BY <2>1 DEF RefcountExact
  <1> QED BY <1>5, <1>6, <1>7, <1>8, <1>9 DEF IInv

LEMMA FreeExtInv ==
  ASSUME IInv, NEW m \in chain, NEW b \in Bufs, NEW h \in Holders,
         b = ext_buf[m], h = ext_cnt[m], m_free(m)
  PROVE  IInv'
  <1> DEFINE last == Refs(b) = {m}
  <1>0. ext_buf[m] # None
    BY MbufAssumption
  <1>1. /\ chain' = chain \ {m} /\ owned' = owned /\ up' = up /\ up
        /\ ext_buf' = ext_buf /\ ext_cnt' = ext_cnt /\ mb_free_ext(m)
    BY <1>0 DEF m_free, IInv, Apart
  <1>2. /\ b \in Bufs /\ b \in bufs /\ h \in Holders /\ m \in Refs(b)
        /\ bufs' = IF last THEN bufs \ {b} ELSE bufs
        /\ ext_count' = [ext_count EXCEPT ![h] = Cardinality(Refs(b)) - (IF last THEN 0 ELSE 1)]
        /\ Cardinality(Refs(b)) \in 1..Cardinality(Items)
        /\ ~last => Cardinality(Refs(b) \ {m}) = Cardinality(Refs(b)) - 1
        /\ ~last => Cardinality(Refs(b)) > 1
        /\ Sound(zone')
        /\ zone'.held = zone.held \ ((IF last THEN {h} ELSE {}) \cup (IF m # h THEN {m} ELSE {}))
    BY <1>0, <1>1, FreeExtFacts
  <1>3. Alive' = Alive \ {m} /\ m \in Alive
    BY <1>1 DEF Alive, IInv, Apart
  <1>4. /\ \A k \in Alive : k \in Items
        /\ \A k \in Alive : ext_buf[k] = b <=> k \in Refs(b)
        /\ \A k \in Refs(b) : ext_cnt[k] = h
        /\ \A k \in Alive : ext_cnt[k] = h => k \in Refs(b)
        /\ \A k \in Alive : ext_cnt[k] = m => k \in Refs(b)
        /\ h \in Alive => h \in Refs(b)
    <2>1. \A k \in Alive : k \in Items /\ (ext_buf[k] = b <=> k \in Refs(b))
      BY Facts DEF Refs
    <2>2. \A k \in Refs(b) : ext_cnt[k] = h
      BY <1>3 DEF IInv, OneCounter, Refs
    <2>3. h = b \/ (h \in Items /\ ext_buf[h] = b)
      BY <1>3, <1>2 DEF IInv, Linked
    <2>4. \A k \in Alive : ext_cnt[k] = h => ext_buf[k] = b
      BY <1>2, <1>3, <2>3, MbufAssumption DEF IInv, Linked, TypeOK
    <2>5. \A k \in Alive : ext_cnt[k] = m => ext_buf[k] = b
      BY <1>3, Facts
    <2>6. h \in Alive => ext_buf[h] = b
      BY <1>2, <2>1, <2>3, MbufAssumption
    <2> QED BY <2>1, <2>2, <2>4, <2>5, <2>6
  <1>5. \E k \in Refs(b) : ~last => k # m
    BY <1>2
  <1>6. Refs(b)' = Refs(b) \ {m} /\ \A c \in Bufs \ {b} : Refs(c)' = Refs(c)
    BY <1>1, <1>3 DEF Refs
  <1>7. TypeOK' /\ ZoneSound' /\ Apart'
    <2>1. Cardinality(Refs(b)) - (IF last THEN 0 ELSE 1) \in 0..Cardinality(Items)
      BY <1>2, ZoneAssumption, FS_CardinalityType
    <2> HIDE DEF last
    <2>2. ext_count' \in [Holders -> 0..Cardinality(Items)]
      BY <1>2, <2>1 DEF IInv, TypeOK
    <2>3. bufs' \subseteq Bufs
      BY <1>2 DEF IInv, TypeOK
    <2> QED BY <1>1, <1>2, <2>2, <2>3 DEF IInv, TypeOK, ZoneSound, Apart, Sound
  <1>8. Linked'
    <2>1. ASSUME NEW k \in Alive \ {m}, ext_buf[k] \in bufs
          PROVE  ext_buf[k] \in bufs'
      <3>1. last => ext_buf[k] # b
        BY <1>4
      <3> QED BY <1>2, <2>1, <3>1
    <2> HIDE DEF last
    <2> QED BY <1>1, <1>3, <2>1 DEF IInv, Linked
  <1>9. OneCounter'
    BY <1>1, <1>3 DEF IInv, OneCounter
  <1>10. InUse'
    <2> SUFFICES ASSUME NEW c \in bufs' PROVE \E k \in Alive \ {m} : ext_buf[k] = c
      BY <1>1, <1>3 DEF InUse
    <2>1. CASE c = b
      <3>1. ~last
        BY <1>2, <2>1
      <3> QED BY <1>5, <2>1, <3>1 DEF Refs
    <2>2. CASE c # b
      BY <1>2, <2>2 DEF IInv, InUse
    <2> QED BY <2>1, <2>2
  <1>11. HeldExact'
    <2>1. CASE last
      <3>1. zone'.held = zone.held \ {h, m}
        BY <1>2, <2>1
      <3>2. \A k \in Alive \ {m} : k # h /\ ext_cnt[k] # h /\ ext_cnt[k] # m
        BY <1>4, <2>1
      <3>3. \A i \in Items \ {h, m} : (\E k \in Alive : ext_cnt[k] = i) <=>
                                      \E k \in Alive \ {m} : ext_cnt[k] = i
        OBVIOUS
      <3> HIDE DEF last
      <3> QED BY <1>1, <1>3, <3>1, <3>2, <3>3 DEF IInv, HeldExact
    <2>2. CASE ~last
      <3>1. zone'.held = zone.held \ (IF m # h THEN {m} ELSE {})
        BY <1>2, <2>2
      <3>2. PICK k \in Alive \ {m} : ext_cnt[k] = h
        BY <1>4, <1>5, <2>2 DEF Refs
      <3>3. \A i \in Items : (\E n \in Alive : ext_cnt[n] = i) <=>
                             \E n \in Alive \ {m} : ext_cnt[n] = i
        BY <3>2
      <3>4. m # h => ~ \E n \in Alive : ext_cnt[n] = m
        BY <1>4
      <3> HIDE DEF last
      <3>5. zone.held = Alive \cup {i \in Items : \E n \in Alive : ext_cnt[n] = i}
        BY DEF IInv, HeldExact
      <3>6. m = h => m \in {i \in Items : \E n \in Alive \ {m} : ext_cnt[n] = i}
        BY <1>3, <1>4, <3>2
      <3>7. zone'.held = (Alive \ {m}) \cup {i \in Items : \E n \in Alive \ {m} : ext_cnt[n] = i}
        BY <1>3, <3>1, <3>3, <3>4, <3>5, <3>6
      <3> QED BY <1>1, <1>3, <3>7 DEF HeldExact
    <2> QED BY <2>1, <2>2
  <1>12. RefcountExact'
    <2>1. ASSUME NEW c \in Bufs, NEW k \in Refs(c)'
          PROVE  ext_count'[ext_cnt'[k]] = Cardinality(Refs(c)')
      <3>1. CASE c = b
        <4>1. k \in Refs(b) /\ k # m /\ ~last
          BY <1>6, <2>1, <3>1
        <4>2. ext_count'[h] = Cardinality(Refs(b)) - 1
          BY <1>2, <4>1 DEF IInv, TypeOK
        <4> QED BY <1>1, <1>2, <1>4, <1>6, <3>1, <4>1, <4>2
      <3>2. CASE c # b
        <4>1. k \in Refs(c) /\ Refs(c)' = Refs(c)
          BY <1>6, <2>1, <3>2
        <4>2. k \in Alive /\ ext_buf[k] = c /\ k \notin Refs(b)
          BY <3>2, <4>1 DEF Refs
        <4>3. ext_cnt[k] # h
          BY <1>4, <4>2
        <4>4. ext_cnt[k] \in Holders
          BY <4>2, MbufAssumption DEF IInv, Linked, TypeOK, Holders
        <4>5. ext_count'[ext_cnt[k]] = ext_count[ext_cnt[k]]
          BY <1>2, <4>3, <4>4 DEF IInv, TypeOK
        <4> QED BY <1>1, <4>1, <4>5 DEF IInv, RefcountExact
      <3> QED BY <3>1, <3>2
    <2> QED BY <2>1 DEF RefcountExact
  <1> QED BY <1>7, <1>8, <1>9, <1>10, <1>11, <1>12 DEF IInv

LEMMA NextInv == IInv /\ [Next]_vars => IInv'
  <1> SUFFICES ASSUME IInv, [Next]_vars PROVE IInv'
    OBVIOUS
  <1>1. CASE SetUp
    BY <1>1, SetUpInv
  <1>2. CASE TearDown
    BY <1>2, TearDownInv
  <1>3. ASSUME NEW m \in Items, AllocSmall(m) PROVE IInv'
    BY <1>3, AllocSmallInv
  <1>4. ASSUME NEW m \in Items, NEW b \in Bufs, AllocLarge(m, b) PROVE IInv'
    BY <1>4, AllocLargeInv
  <1>5. ASSUME NEW m \in Items, NEW b \in Bufs, NEW h \in {m, b}, Attach(m, b, h) PROVE IInv'
    BY <1>5, AttachInv
  <1>6. ASSUME NEW m \in Items, NEW n \in Items, Duplicate(m, n) PROVE IInv'
    BY <1>6, DuplicateInv
  <1>7. ASSUME NEW S \in SUBSET Items, m_freem(S) PROVE IInv'
    BY <1>7, FreemInv
  <1>8. ASSUME NEW m \in Items, m_free(m) PROVE IInv'
    <2>1. m \in chain /\ m \in Alive
      BY <1>8 DEF m_free, Alive
    <2>2. CASE ext_buf[m] = None
      BY <1>8, <2>1, <2>2, FreePlainInv
    <2>3. CASE ext_buf[m] # None
      <3>1. ext_buf[m] \in Bufs /\ ext_cnt[m] \in Holders
        BY <2>1, <2>3 DEF IInv, Linked, TypeOK, Holders
      <3> QED BY <1>8, <2>1, <3>1, FreeExtInv
    <2> QED BY <2>2, <2>3
  <1>9. CASE UNCHANGED vars
    <2>1. \A b : Refs(b)' = Refs(b)
      BY <1>9 DEF vars, Refs, Alive
    <2>2. RefcountExact'
      <3>1. ASSUME NEW b \in Bufs, NEW k \in Refs(b)'
            PROVE  ext_count'[ext_cnt'[k]] = Cardinality(Refs(b)')
        <4>1. Refs(b)' = Refs(b) /\ ext_count' = ext_count /\ ext_cnt' = ext_cnt
          BY <1>9, <2>1 DEF vars
        <4> QED BY <3>1, <4>1 DEF IInv, RefcountExact
      <3> QED BY <3>1 DEF RefcountExact
    <2> QED BY <1>9, <2>2 DEF vars, IInv, TypeOK, ZoneSound, Apart, Linked, OneCounter, InUse,
                              HeldExact, Alive
  <1> QED BY <1>1, <1>2, <1>3, <1>4, <1>5, <1>6, <1>7, <1>8, <1>9 DEF Next

-----------------------------------------------------------------------------
(* The theorems.                                                           *)

\* The invariant holds of every behaviour.
THEOREM Invariance == Spec => []IInv
  BY InitInv, NextInv, PTL DEF Spec

\* Every variable keeps its type; in particular no counter passes the number of
\* mbufs, and none wraps around.
THEOREM TypeCorrect == Spec => []TypeOK
  <1>1. IInv => TypeOK
    BY DEF IInv
  <1> QED BY <1>1, Invariance, PTL

\* A counter is the number of mbufs that refer to its buffer.
THEOREM ExactCounters == Spec => []RefcountExact
  <1>1. IInv => RefcountExact
    BY DEF IInv
  <1> QED BY <1>1, Invariance, PTL

\* The mbuf that keeps a counter is in the zone as long as the counter is used.
THEOREM HoldersStay == Spec => []HolderAlive
  <1>1. IInv => HolderAlive
    <2> SUFFICES ASSUME IInv, NEW m \in Alive
                 PROVE  m \in zone.held /\ ext_cnt[m] \in zone.held \cup Bufs \cup {None}
      BY DEF HolderAlive
    <2>1. m \in zone.held /\ m \in Items /\ (ext_cnt[m] \in Items => ext_cnt[m] \in zone.held)
      BY Facts
    <2>2. ext_cnt[m] \in Items \cup Bufs \cup {None}
      BY <2>1 DEF IInv, TypeOK, Holders
    <2> QED BY <2>1, <2>2
  <1> QED BY <1>1, Invariance, PTL

\* The leak check at the end of a test fails it exactly when an mbuf is still
\* held.
THEOREM ExactLeakCheck == Spec => TeardownVerdict
  <1>1. IInv /\ [Next]_vars => [TearDown => (zone'.fails = {} <=> owned = {})]_vars
    <2> SUFFICES ASSUME IInv, TearDown PROVE zone'.fails = {} <=> owned = {}
      OBVIOUS
    <2>1. Sound(zone) /\ zone' = uma_zdestroy(zone) /\ Alive = owned
      BY DEF TearDown, IInv, ZoneSound, Alive
    <2>2. zone'.fails = {} <=> zone.held = {}
      BY <2>1, ZdestroySound
    <2>3. zone.held = {} <=> owned = {}
      BY <2>1 DEF IInv, HeldExact
    <2> QED BY <2>2, <2>3
  <1> QED BY <1>1, Invariance, PTL DEF Spec, TeardownVerdict
-----------------------------------------------------------------------------
(* Refinement: the step of the buffer that an action attaches, shares or   *)
(* drops, and a stutter otherwise.                                         *)

LEMMA SharingAttach ==
  ASSUME IInv, NEW m \in Items, NEW b \in Bufs, NEW h \in {m, b}, b \notin bufs,
         m_extadd(m, b, h), Alive' = Alive \cup {m}, m \in Alive => ext_buf[m] = None
  PROVE  Sharing!Attach(b, m)
  <1>1. /\ bufs' = bufs \cup {b} /\ ext_buf'[m] = b
        /\ \A k \in Items \ {m} : ext_buf'[k] = ext_buf[k]
    BY DEF m_extadd, IInv, TypeOK
  <1>2. \A k \in Alive : k \in Items /\ ext_buf[k] # b
    BY Facts, MbufAssumption DEF IInv, Linked
  <1>3. ASSUME NEW c \in Bufs PROVE Refs(c)' = IF c = b THEN {m} ELSE Refs(c)
    BY <1>1, <1>2, MbufAssumption DEF Refs
  <1>4. [c \in Bufs |-> Refs(c)]' = [[c \in Bufs |-> Refs(c)] EXCEPT ![b] = {m}]
    BY <1>3
  <1> QED BY <1>1, <1>4 DEF Sharing!Attach

LEMMA SharingStep == IInv /\ [Next]_vars => [Sharing!Next]_(Sharing!vars)
  <1> SUFFICES ASSUME IInv, [Next]_vars PROVE [Sharing!Next]_(Sharing!vars)
    OBVIOUS
  <1>0. ASSUME \A c \in Bufs : Refs(c)' = Refs(c), bufs' = bufs
        PROVE  UNCHANGED Sharing!vars
    <2>1. [c \in Bufs |-> Refs(c)]' = [c \in Bufs |-> Refs(c)]
      BY <1>0
    <2> QED BY <1>0, <2>1 DEF Sharing!vars
  <1>1. CASE SetUp
    <2>1. bufs' = {} /\ Alive' = {}
      BY <1>1 DEF SetUp, NoExt, Alive
    <2>2. \A c \in Bufs : Refs(c)' = {}
      BY <2>1 DEF Refs
    <2>3. [c \in Bufs |-> Refs(c)]' = [c \in Bufs |-> {}]
      BY <2>2
    <2> QED BY <2>1, <2>3 DEF Sharing!Next, Sharing!Abandon
  <1>2. CASE TearDown
    <2>1. bufs' = bufs /\ \A c \in Bufs : Refs(c)' = Refs(c)
      BY <1>2 DEF TearDown, ext, Refs, Alive
    <2> QED BY <1>0, <2>1
  <1>3. ASSUME NEW m \in Items, AllocSmall(m) PROVE UNCHANGED Sharing!vars
    <2>1. /\ bufs' = bufs /\ m \notin Alive /\ Alive' = Alive \cup {m} /\ ext_buf'[m] = None
          /\ \A k \in Items \ {m} : ext_buf'[k] = ext_buf[k]
          /\ \A k \in Alive : k \in Items
      BY <1>3, Facts DEF AllocSmall, IInv, TypeOK, Alive
    <2>2. \A c \in Bufs : Refs(c)' = Refs(c)
      BY <2>1, MbufAssumption DEF Refs
    <2> QED BY <1>0, <2>1, <2>2
  <1>4. ASSUME NEW m \in Items, NEW b \in Bufs, AllocLarge(m, b) PROVE Sharing!Attach(b, m)
    <2>1. m_extadd(m, b, m) /\ b \notin bufs /\ Alive' = Alive \cup {m} /\ m \notin Alive
      BY <1>4, Facts DEF AllocLarge, Alive
    <2> QED BY <2>1, SharingAttach
  <1>5. ASSUME NEW m \in Items, NEW b \in Bufs, NEW h \in {m, b}, Attach(m, b, h)
        PROVE  Sharing!Attach(b, m)
    <2>1. /\ m_extadd(m, b, h) /\ b \notin bufs /\ Alive' = Alive \cup {m}
          /\ m \in Alive => ext_buf[m] = None
      BY <1>5 DEF Attach, Alive
    <2> QED BY <2>1, SharingAttach
  <1>6. ASSUME NEW m \in Items, NEW n \in Items, Duplicate(m, n)
        PROVE  \E b \in Bufs : Sharing!Share(b, n)
    <2>1. PICK b \in Bufs : b = ext_buf[m] /\ b \in bufs
      BY <1>6, Facts DEF Duplicate, Alive, IInv, Linked, TypeOK
    <2>2. /\ bufs' = bufs /\ n \notin Alive /\ Alive' = Alive \cup {n} /\ ext_buf'[n] = b
          /\ \A k \in Items \ {n} : ext_buf'[k] = ext_buf[k]
          /\ \A k \in Alive : k \in Items
      BY <1>6, <2>1, Facts DEF Duplicate, IInv, TypeOK, Alive
    <2>3. ASSUME NEW c \in Bufs
          PROVE  Refs(c)' = IF c = b THEN Refs(c) \cup {n} ELSE Refs(c)
      BY <2>2 DEF Refs
    <2>4. [c \in Bufs |-> Refs(c)]' =
            [[c \in Bufs |-> Refs(c)] EXCEPT ![b] = Refs(b) \cup {n}]
      BY <2>3
    <2> QED BY <2>1, <2>2, <2>4 DEF Sharing!Share
  <1>7. ASSUME NEW S \in SUBSET Items, m_freem(S) PROVE UNCHANGED Sharing!vars
    <2>1. bufs' = bufs /\ Alive' = Alive /\ ext_buf' = ext_buf
      BY <1>7 DEF m_freem, ext, Alive
    <2>2. \A c \in Bufs : Refs(c)' = Refs(c)
      BY <2>1 DEF Refs
    <2> QED BY <1>0, <2>1, <2>2
  <1>8. ASSUME NEW m \in Items, m_free(m) PROVE [Sharing!Next]_(Sharing!vars)
    <2>1. /\ m \in chain /\ m \in Alive /\ ext_buf' = ext_buf
          /\ Alive' = Alive \ {m}
      BY <1>8 DEF m_free, Alive, IInv, Apart
    <2>2. CASE ext_buf[m] = None
      <3>1. bufs' = bufs
        BY <1>8, <2>2 DEF m_free
      <3>2. \A c \in Bufs : Refs(c)' = Refs(c)
        BY <2>1, <2>2, MbufAssumption DEF Refs
      <3> QED BY <1>0, <3>1, <3>2
    <2>3. CASE ext_buf[m] # None
      <3>1. PICK b \in Bufs : b = ext_buf[m]
        BY <2>1, <2>3 DEF IInv, Linked, TypeOK
      <3>2. mb_free_ext(m)
        BY <1>8, <2>3 DEF m_free
      <3>3. m \in Refs(b) /\ bufs' = IF Refs(b) = {m} THEN bufs \ {b} ELSE bufs
        BY <2>1, <2>3, <3>1, <3>2, FreeExtFacts
      <3>4. ASSUME NEW c \in Bufs
            PROVE  Refs(c)' = IF c = b THEN Refs(c) \ {m} ELSE Refs(c)
        BY <2>1, <3>1 DEF Refs
      <3>5. [c \in Bufs |-> Refs(c)]' =
              [[c \in Bufs |-> Refs(c)] EXCEPT ![b] = Refs(b) \ {m}]
        BY <3>4
      <3>6. Sharing!Drop(b, m)
        BY <3>3, <3>5 DEF Sharing!Drop
      <3>7. m \in Items
        BY <2>1, Facts
      <3> QED BY <3>6, <3>7 DEF Sharing!Next
    <2> QED BY <2>2, <2>3
  <1>9. CASE UNCHANGED vars
    <2>1. bufs' = bufs /\ \A c \in Bufs : Refs(c)' = Refs(c)
      BY <1>9 DEF vars, Refs, Alive
    <2> QED BY <1>0, <2>1
  <1> QED BY <1>1, <1>2, <1>3, <1>4, <1>5, <1>6, <1>7, <1>8, <1>9 DEF Next, Sharing!Next

\* Sharing with counters implements sharing without: a buffer is released once,
\* in the step that drops its last reference.
THEOREM Refinement == Spec => ImplementsSharedStorage
  <1>1. Init => Sharing!Init
    <2> SUFFICES ASSUME Init PROVE Sharing!Init
      OBVIOUS
    <2>1. \A c \in Bufs : Refs(c) = {}
      BY DEF Init, Refs, Alive
    <2>2. [c \in Bufs |-> Refs(c)] = [c \in Bufs |-> {}]
      BY <2>1
    <2> QED BY <2>2 DEF Init, Sharing!Init
  <1> QED BY <1>1, SharingStep, Invariance, PTL DEF Spec, ImplementsSharedStorage, Sharing!Spec
=============================================================================
