-------------------------------- MODULE Mbuf ---------------------------------
(***************************************************************************)
(* The mbuf fake on top of the zone: alloc_mbuf, m_extadd, m_freem and     *)
(* mb_free_ext of fakes/mbuf/mbuf.c, between the SetUp and the TearDown of *)
(* MbufInit. The code under test shares external storage with FreeBSD's    *)
(* own mb_dupcl, and frees its mbufs in any order.                         *)
(*                                                                         *)
(* The reference counter of a buffer sits in the mbuf the buffer was       *)
(* attached to (EXT_FLAG_EMBREF), or with the buffer (EXT_EXTREF). An      *)
(* embedded counter must outlive the mbuf's owner: the mbuf stays in the   *)
(* zone until the last mbuf that shares its buffer is freed. The cluster,  *)
(* packet and jumbo zones do not exist in this fake, and M_NOFREE mbufs    *)
(* come from sendfile alone; neither is here.                              *)
(***************************************************************************)
EXTENDS UmaZone

CONSTANTS
  Bufs,  \* external buffers
  None   \* no buffer, no counter

ASSUME MbufAssumption == /\ Bufs \cap Items = {}
                         /\ None \notin Bufs \cup Items

VARIABLES
  zone,       \* zone_mbuf
  up,         \* zone_mbuf # NULL
  ext_buf,    \* by mbuf: its external buffer; None when M_EXT is not set
  ext_cnt,    \* by mbuf: the mbuf or the buffer that holds the counter
  ext_count,  \* the counters
  bufs,       \* the buffers that are allocated
  owned,      \* mbufs the test and the code under test hold
  chain       \* mbufs that m_freem has still to free

ext  == <<ext_buf, ext_cnt, ext_count, bufs>>
vars == <<zone, up, ext_buf, ext_cnt, ext_count, bufs, owned, chain>>

Holders == Items \cup Bufs

TypeOK ==
  /\ zone \in Zone
  /\ up \in BOOLEAN
  /\ ext_buf \in [Items -> Bufs \cup {None}]
  /\ ext_cnt \in [Items -> Holders \cup {None}]
  /\ ext_count \in [Holders -> 0..Cardinality(Items)]
  /\ bufs \subseteq Bufs
  /\ owned \subseteq Items /\ chain \subseteq Items

NoExt == /\ ext_buf' = [m \in Items |-> None]
         /\ ext_cnt' = [m \in Items |-> None]
         /\ ext_count' = [h \in Holders |-> 0]
         /\ bufs' = {}

Init ==
  /\ zone = NewZone /\ up = FALSE
  /\ ext_buf = [m \in Items |-> None] /\ ext_cnt = [m \in Items |-> None]
  /\ ext_count = [h \in Holders |-> 0] /\ bufs = {}
  /\ owned = {} /\ chain = {}
-----------------------------------------------------------------------------
(* MbufInit. What an earlier test leaked is out of reach of the next one.  *)

SetUp ==
  /\ ~up
  /\ zone' = NewZone /\ up' = TRUE
  /\ owned' = {} /\ chain' = {}
  /\ NoExt

\* Nothing runs between the last call of m_free in an m_freem and its return.
TearDown ==
  /\ up /\ chain = {}
  /\ zone' = uma_zdestroy(zone) /\ up' = FALSE
  /\ UNCHANGED <<ext, owned, chain>>
-----------------------------------------------------------------------------
(* Allocation.                                                             *)

\* The counter of a new buffer is in h: the mbuf itself, or the buffer. With
\* EXT_EXTREF m_extadd leaves the counter and its place to the caller
\* (mbuf.c:179), who sets them here to what an embedded one is set to.
m_extadd(m, b, h) ==
  /\ ext_buf' = [ext_buf EXCEPT ![m] = b]
  /\ ext_cnt' = [ext_cnt EXCEPT ![m] = h]
  /\ ext_count' = [ext_count EXCEPT ![h] = 1]
  /\ bufs' = bufs \cup {b}

\* An mbuf without external storage: m_get, m_gethdr, alloc_mbuf(len <= MHLEN).
AllocSmall(m) ==
  /\ up /\ chain = {} /\ m \notin zone.held
  /\ zone' = uma_zalloc_arg(zone, m)
  /\ owned' = owned \cup {m}
  /\ ext_buf' = [ext_buf EXCEPT ![m] = None]
  /\ ext_cnt' = [ext_cnt EXCEPT ![m] = None]
  /\ UNCHANGED <<up, ext_count, bufs, chain>>

\* alloc_mbuf(len > MHLEN): EXT_MOD_TYPE storage from malloc.
AllocLarge(m, b) ==
  /\ up /\ chain = {} /\ m \notin zone.held /\ b \notin bufs
  /\ zone' = uma_zalloc_arg(zone, m)
  /\ m_extadd(m, b, m)
  /\ owned' = owned \cup {m}
  /\ UNCHANGED <<up, chain>>

\* The code under test attaches a buffer of its own, EXT_EXTREF or not.
Attach(m, b, h) ==
  /\ up /\ chain = {} /\ m \in owned /\ ext_buf[m] = None /\ b \notin bufs
  /\ m_extadd(m, b, h)
  /\ UNCHANGED <<zone, up, owned, chain>>

\* A new mbuf n that shares the storage of m: m_get and mb_dupcl.
Duplicate(m, n) ==
  /\ up /\ chain = {} /\ m \in owned /\ ext_buf[m] # None /\ n \notin zone.held
  /\ zone' = uma_zalloc_arg(zone, n)
  /\ owned' = owned \cup {n}
  /\ ext_buf' = [ext_buf EXCEPT ![n] = ext_buf[m]]
  /\ ext_cnt' = [ext_cnt EXCEPT ![n] = ext_cnt[m]]
  /\ ext_count' = [ext_count EXCEPT ![ext_cnt[m]] = @ + 1]
  /\ UNCHANGED <<up, bufs, chain>>
-----------------------------------------------------------------------------
(* Freeing.                                                                *)

\* Mutant: a counter that has come down to two is taken for one.
LastByTwo(m) == ext_count[ext_cnt[m]] \in {1, 2}

\* This mbuf is the only reference to its storage.
Last(m) == ext_count[ext_cnt[m]] = 1

\* Mutant: the counter is left alone.
CountKept(m) == ext_count[ext_cnt[m]]

\* Mutant: the result of the atomic decrement is decremented again.
DroppedTwice(m) == IF Last(m) THEN 1 ELSE ext_count[ext_cnt[m]] - 2

\* The shortcut for a counter of one does not bring it down to zero.
CountAfter(m) == IF Last(m) THEN 1 ELSE ext_count[ext_cnt[m]] - 1

\* Mutant: the mbuf that kept the counter is forgotten.
HolderKept(m) == FALSE

\* The storage is freed, and with it the mbuf that kept the counter.
FreesHolder(m) == Last(m) /\ ext_cnt[m] \in Items

\* Mutant: the mbuf goes whether it keeps the counter or not.
FreedAlways(m) == TRUE

\* freembuf && m != mref
FreesMbuf(m) == m # ext_cnt[m]

\* The destructor trashes a freed mbuf; its fields keep their last value here,
\* and HolderAlive says that nobody reads them.
mb_free_ext(m) ==
  LET mref  == ext_cnt[m]
      z     == IF FreesHolder(m) THEN uma_zfree_arg(zone, mref) ELSE zone
      owner == IF mref \in Items THEN mref ELSE m
  IN  /\ ext_count' = [ext_count EXCEPT ![mref] = CountAfter(m)]
      /\ bufs' = IF Last(m) THEN bufs \ {ext_buf[owner]} ELSE bufs
      /\ zone' = IF FreesMbuf(m) THEN uma_zfree_arg(z, m) ELSE z

\* m_freem of a chain. Its m_next links are left out: the mbufs of the chain are
\* freed one after the other in an order that the chain had all along.
m_freem(S) ==
  /\ up /\ chain = {} /\ S \subseteq owned /\ S # {}
  /\ chain' = S /\ owned' = owned \ S
  /\ UNCHANGED <<zone, up, ext>>

m_free(m) ==
  /\ m \in chain
  /\ chain' = chain \ {m}
  /\ \/ ext_buf[m] # None /\ mb_free_ext(m)
     \/ /\ ext_buf[m] = None
        /\ zone' = uma_zfree_arg(zone, m)
        /\ UNCHANGED <<ext_count, bufs>>
  /\ UNCHANGED <<up, ext_buf, ext_cnt, owned>>

Next ==
  \/ SetUp
  \/ TearDown
  \/ \E m \in Items : AllocSmall(m)
  \/ \E m \in Items, b \in Bufs : AllocLarge(m, b)
  \/ \E m \in Items, b \in Bufs : \E h \in {m, b} : Attach(m, b, h)
  \/ \E m, n \in Items : Duplicate(m, n)
  \/ \E S \in SUBSET Items : m_freem(S)
  \/ \E m \in Items : m_free(m)

Spec == Init /\ [][Next]_vars
-----------------------------------------------------------------------------
(* Correctness.                                                            *)

\* The mbufs somebody still counts on.
Alive == owned \cup chain

Refs(b) == {m \in Alive : ext_buf[m] = b}

\* The counter of a buffer is the number of mbufs that refer to it, wherever the
\* counter is kept and whichever of them have been freed.
RefcountExact ==
  \A b \in Bufs : \A m \in Refs(b) : ext_count[ext_cnt[m]] = Cardinality(Refs(b))

\* mb_free_ext never touches an mbuf that has gone back to the zone: the mbuf
\* that keeps a counter stays in the zone as long as anyone needs the counter,
\* even when its owner freed it long ago.
HolderAlive ==
  \A m \in Alive : m \in zone.held /\ ext_cnt[m] \in zone.held \cup Bufs \cup {None}

\* A buffer is freed once, with its last reference, and never earlier.
Sharing == INSTANCE SharedStorage WITH
  Mbufs <- Items, refs <- [b \in Bufs |-> Refs(b)], storage <- bufs

ImplementsSharedStorage == Sharing!Spec

\* The leak check of uma_zdestroy at the end of a test is exact: it fails the
\* test if somebody still holds an mbuf and not otherwise, although the zone
\* counts mbufs that linger for their counter as well.
TeardownVerdict ==
  [][TearDown => (zone'.fails = {} <=> owned = {})]_vars
=============================================================================
