# A formal model of sysunit

sysunit is a unit-test framework for FreeBSD kernel code. A test program links
a piece of the kernel (`tcp_lro.c`, say) with *fakes* of the kernel services it
calls (zone allocator, mbufs, mutexes, malloc, panic), *mocks* of its callers and
callees (an `ifnet`, the clock), and **pktgen**, a library that describes a
packet by a template and generates it, its successor or a retransmission as an
mbuf, or matches an mbuf against it. googletest and googlemock drive the test.

The program is sequential. What makes it hard is not concurrency but derived
state: lengths and MTUs that are copied from header to header, reference counters
that live inside the objects they count, checks that report a wrong verdict when
the calls come in an unusual order, a fixture that must survive a test that
throws half-way, and mbufs whose owner changes with every call through a raw pointer.

The sources are cited without their `src/` prefix.

## 1. Inventory

| component | state it keeps | operations | what makes it hard | what makes it correct |
|---|---|---|---|---|
| packet templates (`include/pktgen/Packet.h`, `FieldPropagator.h`) | an immutable tuple of headers | construct, `With`, `WithHeader().Fields`, `Next`, `Retransmission`, `Generate` | each construction recomputes derived fields: MTUs inwards, then lengths outwards | one pass settles everything; the packet has the length it says it has and exceeds no MTU |
| payload template (`PacketPayloadTemplate.h`) | bytes, index, local and outer MTU | `SetPayload`, `AppendPayload`, `SetLength`, `SetMtu`, `Next` | three expressions for the size of a segment; bytes cut below the index; unsigned wrap-around | segments neither overlap nor leave a gap; the index stays inside |
| header templates (`EthernetHeader.h`, `Ipv4Header.h`, `Ipv6Header.h`, `TcpHeader.h`) | fields, MTUs, payload length | setters, `Next`, `FillPacket` | 16-bit length fields; the IPv4 one counts its header, the IPv6 one does not; TCP must advance with the payload | agreement with the payload |
| uma fake (`fakes/uma/uma.cpp`, `fakes/panic`) | counter, redzones, trash pattern | `uma_zcreate`, `uma_zalloc_arg`, `uma_zfree_arg`, `uma_zdestroy` | checks that depend on the order of dtor, fini and redzone; a counter that wraps around | no false alarm; what a clean verdict means |
| mbuf fake (`fakes/mbuf`) | mbufs, external storage, counters inside mbufs | `alloc_mbuf`, `m_extadd`, `m_freem`, `mb_free_ext` | the counter's mbuf may be freed first | storage freed once; counter never read from a freed mbuf; exact leak check |
| test fixture (`sysunit/sysunit_init`, `include/sysunit`) | registry, `initialized`, one resource per initializer | registration, `SetUp`, `TearDown` | each of them may throw; `TearDown` runs after a failed `SetUp`; unstable sort | each body starts from fresh resources; one bad test does not spoil the rest |
| packet matchers (`PacketMatcher.h`, `sysunit/pktgen/*Matcher.cpp`) | none | match an mbuf against a template | offsets and lengths of an advanced template; fields that are written and read by different code | a template matches the packet it generates |
| mock time (`mock/time`, `include/mock/time.h`) | expectations in gmock | `ExpectGetMicrotime`, `getmicrotime`, `timevaladd/sub` | gmock matches the newest expectation first | where ages matter the clock runs forwards; sums and differences are exact |
| layers (`Layer.h`, `FindLayer` in `Packet.h`) | none (compile time) | `WithHeader(layer.outer/inner(n))` | negative nesting counts from the inside | selects the header one means |
| mock ifnet, mbuf ownership (`mock/ifnet`, `MbufUniquePtr.h`) | an `ifnet`, owned mbufs | `IfInput`, `Generate`, `GenerateRawMbuf` | ownership passes through raw pointers; a failed `ASSERT_` interrupts it | each mbuf in the zone has one owner and is freed exactly once |
| LRO tests (`netinet/*.gtest.cpp`) | an `lro_ctrl`, a mock interface, two global switches | 27 tests for IPv4 and IPv6, three samples | what a test expects is checked in tear-down, by other components | they do not contradict each other; a green test has lost no byte and no mbuf |
| other fakes (mutex, malloc, atomic, mib, csum), address classes, printing | little or none | | | unit tests cover them |

Who calls whom: a test (in a `TestSuite`) builds templates and calls `Generate`,
which calls `alloc_mbuf`, which allocates from `zone_mbuf` of the uma fake; the code
under test frees with `m_freem`, which ends in `mb_free_ext` and `uma_zfree_arg`.
`zone_mbuf` exists between `MbufInit::SetUp` and `TearDown`, which `TestSuite` calls
through the registry of `Initializer`s, as it does for every `GlobalMock`. An LRO
test hands mbufs to `tcp_lro_rx`, which reads the mock clock and passes merged
packets to `MockUpperIfnet::IfInput`, where gmock compares them with the templates
the test expects and the mock frees them.

The hazards of each part, with the line where they bite and the property that
would catch them, are listed in `PROJECT.json` under `hazards`.

## 2. Modules

| module | models | kind |
|---|---|---|
| `ByteStream` | what a template promises: a buffer handed out segment after segment | abstract |
| `PktStream` | templates of the stack Ethernet/IP/TCP/payload | detailed, implements `ByteStream` |
| `Stack` | templates of any headers, tunnels included, and the selection of a header by layer | general; `PktStream` implements it |
| `PktMatch` | what `FillPacket` writes, what the matchers compare | extends `PktStream` |
| `UmaZone` | the functions of `uma.cpp` on a zone, as operators on a record | operators, used by `Uma` and `Mbuf` |
| `Uma` | a test that uses a zone, correctly or not | composes `UmaZone` with a careless user |
| `SharedStorage` | storage that lives until the last reference is dropped | abstract |
| `Mbuf` | the mbuf fake between `MbufInit`'s `SetUp` and `TearDown` | composes `UmaZone` with counters; implements `SharedStorage` |
| `Lifecycle` | registry, `SetUp` and `TearDown`, mocks and zones as resources | detailed |
| `Timeval` | `timevaladd`, `timevalsub`, `timevalfix` | operators, used by `TcpLro` |
| `Gmock` | which expectation handles a call, and what is reported (external) | operators, used by `LroHarness` |
| `LroTests` | the tests of both LRO suites as sequences of steps | definitions, used by `LroHarness` |
| `TcpLro` | what the tests say `tcp_lro.c` does (external) | operators, used by `LroHarness` |
| `LroHarness` | the LRO tests on the fixture, the mock interface, the mock clock and the mbufs | composes the four above with `UmaZone` |
| `MC*` | instances for TLC | |
| `PktStream_proofs`, `PktMatch_proofs`, `UmaZone_proofs`, `Uma_proofs`, `Mbuf_proofs`, `Lifecycle_proofs`, `Stack_proofs`, `LroHarness_proofs` | theorems and proofs | |

### PktStream

The state is one variable, the template `tmpl` a test holds. An operation of the
C++ class copies the tuple, edits the copy and constructs a new template; so each
action is `tmpl' = Propagate(edited tmpl)`: `NextSegment` (`Next`), `Retransmission`,
`With*Mtu` (`mtu(..)` on each header), `WithSeq` (`seq`, `incrSeq`), `WithPayload`,
`WithAppend`, `WithLength`. `Propagate` is `PropagateFields`: `PropagateInwards`, then
`PropagateOutwards`. `GeneratedFrom` is the packet that `Generate()` would return.
An operation that throws (an MTU too large for the IP header, `length` beyond the
payload) leaves the test's template as it was: it is a disabled action.

`size_t`, `uint16_t` and `uint32_t` are integers modulo `SizeMod`, `U16` and `SeqMod`, and
every subtraction in the code that may wrap around wraps around in the model.
A payload byte is its offset. Header fields that no length depends on are left
out.

### Stack

A template as a sequence of headers, outermost first. `Init` and `AddInner`/`AddOuter`
are `PacketTemplate(..)` of fresh headers and of a template and one more header;
`MayHold` says which of them compile. `WithHeader` edits the header that
`FindLayer` selects, `WithMtu`, `WithType` and `WithPayload` are the fields that
propagation touches, and `With(..)`, which edits the innermost header, is
`WithHeader` of its layer with nesting -1. The two propagations are recursive
functions over the tuple, as they are recursive templates in the code. A
selection that a `static_assert` refuses is not an action. Where `Stack` and
`PktStream` describe the same thing they were written separately, from
`Packet.h` and from the headers, and `ImplementsStack` compares them.

A payload right inside IP or Ethernet does not know TCP's rule that the length
passed outwards is cut to the MTU: it announces more than it fills when an outer
header has a smaller MTU. `LengthsNest` has the hypothesis `Segments` for that; no
test or document of the repository says what should happen.

### PktMatch

`attr` holds the attributes of headers that `PktStream` leaves out and that are
not just stored, written and compared: VLAN tag, checksum flags, traffic class
and flow label. `Filled` is the packet that all `FillPacket`s together write, field
by field, with its payload as a chain of mbufs; `Matches` and the operators above it
are the matchers. All other fields of a header (addresses, ports, ...) are one flag:
`other` names the headers in which one of them differs. Bytes of the IPv6 flow word
keep their places: the matcher reads them in another order than `FillPacket` writes
them, and four bits are `Nibble` values instead of 16. The code under test is
external; `Tampered` are the packets it may hand on: one field, flag or byte
changed, the payload cut or one byte longer, each with correct length fields, and
`Split` two mbufs instead of one. IP and TCP checksums are not compared
by the code (`if (0)`) and not modelled.

### UmaZone and Uma

A zone is a record: the counter `alloced`, which blocks are handed out, which
bodies hold the trash pattern and which redzones were overwritten, the failures
reported, and whether the process has aborted. Each C++ function is an operator
of the same name, with the constructor, destructor, init and fini that `MbufInit`
passes to `uma_zcreate` called where the code calls them. In `Uma` a test may
free a block twice, leak it, write beyond its end or write to it after freeing
it. Its history variables `freed`, `surplus`, `overrun` and `stale` are not in the
code; the properties use them to say what the test did wrong. After a second
free `operator delete` may notice and abort or not: both are allowed. That the
memory of a block freed twice may be handed out to two owners is left out.

### Mbuf

`ext_buf`, `ext_cnt`, `ext_count` are the fields of `m_ext`; `ext_cnt` is the place of the
counter, an mbuf (`EXT_FLAG_EMBREF`, the counter is in that mbuf) or the buffer
(`EXT_EXTREF`). `bufs` are the buffers that are allocated. `owned` and `chain` are the
mbufs that somebody will still free: `m_freem` takes a set of owned mbufs into
`chain` and `m_free` frees them one by one, so that all orders are explored.
`m_free` and `mb_dupcl` are FreeBSD's own (an inline function of `mbuf.h` and
`uipc_mbuf.c`), modelled from how the fake is called: they are external.
Cluster, packet and jumbo storage and `M_NOFREE` mbufs are not modelled: the
zones for them are never created by this fake.

### Lifecycle

`initList`, `initialized` are the registry; `phase` and `pos` are where googletest and
the loops of `SetUp` and `TearDown` are; `res` tells for each initializer whether its
resource exists and whether this test made it (`fresh`) or an earlier one
(`stale`). There are two kinds of initializers, as in the code: `Guarded` ones
behave as `MbufInit` (refuse to set up twice, dereference in `TearDown`), the others
as `GlobalMock` (replace, reset). `SetUp` sorts, in any order that the keys allow,
since `std::sort` is not stable. `TestCaseSetUp`, the body and `TestCaseTearDown` may throw. googletest
(external) catches that, skips the body if `SetUp` failed and always calls
`TearDown`. A `GlobalMock`'s `SetUp` can fail only by running out of memory, and this
is left out; so is an initializer that is constructed by another one's `SetUp`,
which nothing in the repository does.

### LroTests, TcpLro and Gmock

A test is data: the functions it consists of, the body and the helper it calls,
each a sequence of steps (an expectation, a packet for `tcp_lro_rx` and the result
that is asserted, a flush, ...). Its packets are computed from templates as the
C++ code does, with `payload`, `appendPayload`, `Next`, `Retransmission` and `mtu`; a
template is here what `ByteStream` says of it, with the few fields the tests change.
Addresses and ports are a flow number, and lengths, sequence numbers and windows are
smaller than in the tests, in the same order.

`tcp_lro.c` is FreeBSD's and not in the repository. `TcpLro` is one set of rules
inferred from all tests together: what is merged, when an entry is flushed, when it is
full, when it has expired, which error is returned. It is not a model of
FreeBSD's file. `AllTestsPass` says that such an LRO exists.

`Gmock` has what decides the verdict of a strict mock: a call is handled by the
newest expectation that matches it, has not retired and whose predecessors in its
sequences are satisfied; the predecessors retire then; a second call of a `Times(1)`
expectation is an excess call, unless it retires on saturation, and the expectation is satisfied
no longer; what was not called is reported when the mock object is destroyed.

### LroHarness

`test`, `phase` and `at` say which test runs and where; `gm` and `failed` are gmock's
expectations and everything reported so far; `zone` is `zone_mbuf`; `kept`, `arg` and `queue`
are the three owners of an mbuf: the `MbufUniquePtr`, the call of `tcp_lro_rx` in
progress, and the `lro_ctrl`. `SetUp`, `Return` (the end of a C++ function, with the
destructor of its pointer), `TestCaseTearDown` and `TearDown` are the fixture;
`SetExpectation`, `CallMockSequence`, `EnableForwardingStep`, `SetIfMtuStep`, `FreeStep`, `Generate`
and `Assert` the steps of a test; `Rx*`, `ReadClock`, `FlushOne` and `FlushDone` what the code
under test does. Tests follow each other in any order, each for both versions.

The code under test may also make *one mistake*, at any time, of a finite list (`RxErr`,
`EntryErr`, `FreeErr`, `FlushErr`): refuse or take the wrong packet, pass on an entry early,
late or not at all, drop it, forget it or one of its mbufs, change a byte, free an mbuf that is
not its own. Not in the list are a merged packet with a wrong acknowledgement or window, a
`getmicrotime` call too many or too few and a wrong error code. `wrong` says that it has made its mistake. This is what a test is for, and the `Green...`
properties say which mistakes a test that reports nothing may have missed.

An uninitialised `timeval` (a `getmicrotime` that no expectation handles stores nothing) is
the constant `Garbage`, later than all times of the tests. That a second free of an mbuf may crash is left
out: the program goes on, which is what may hide the mistake.

## 3. Runs

`stack` takes a minute and a half, `lro` most of a minute, every other run less than half a minute.

| run | config | question | result |
|---|---|---|---|
| `pkt_v4` | `PktStream_v4.cfg` | do all templates keep their fields consistent, under every sequence of operations, with and without an overflow of the length field? | holds |
| `pkt_send` | `PktStream_send.cfg` | does a loop over `Next()` send everything (IPv6)? is its template a special case of the general stack? | holds, if there is room for a byte; yes |
| `stack` | `Stack.cfg` | are lengths, types and selection right in tunnels and partial stacks? | holds, with TCP around the payload |
| `match_v4` | `PktMatch_v4.cfg` | what does an IPv4 template match? | its own packet, if its checksum flags are coherent; nothing else, if not advanced |
| `match_v6` | `PktMatch_v6.cfg` | the same for IPv6; lengths and byte stream with a length field that excludes its header | holds; the verdict on its own packet with class and label 0 |
| `match_advanced` | `PktMatch_advanced.cfg` | are other bytes refused by the template of a later segment? | no: finding 2 |
| `match_flow` | `PktMatch_flow.cfg` | does an IPv6 template with class or label match its packet? | no: finding 3 |
| `uma` | `Uma.cfg` | what do the zone's checks report? | no false alarm; a clean verdict has a precise meaning |
| `uma_trash` | `Uma_trash.cfg` | is a write after a free caught at the next allocation? | no: finding 1 |
| `mbuf` | `Mbuf.cfg` | is shared storage freed once and on time, and is the leak check exact? | holds |
| `lro` | `Lro.cfg` | do the LRO tests agree with each other, and what does a green one prove? | they do; no byte and no mbuf lost, no flush at the wrong time |
| `lifecycle` | `Lifecycle.cfg` | does a test that throws spoil others? | at most the next one |

**Properties.** *Templates*: `TypeOK` (with `payloadIndex` inside the payload);
`PropagationSettled`: a template is a fixpoint of propagation; `SegmentAgrees`: TCP and
the payload compute the same segment size by different expressions;
`LengthsExact`: what `Generate` allocates is what the headers fill and what the IP
header says if that fits 16 bits, and both are too small if it does not (`FitsIp`; an MTU on the IP header
that holds the headers makes it fit); `MtuRespected`: no packet is larger than any MTU of its headers, if the MTUs
hold the headers inside them (`MtusHoldHeaders`; a smaller one wraps around and is exceeded, where `SegmentAgrees` still
holds) and the packet fits; `RetransmissionRepeats`;
`ImplementsByteStream`; `Drains`; `ImplementsStack`. *Stacks*: `SelectsTheNth`: the search
through the tuple against the definition of "n-th from outside, from inside";
`TypesNameInner`: ethertype and protocol are those of the header inside, whatever the
test or an earlier composition left there; `LengthsNest`: the exactness of lengths and
the MTUs at every depth. *Matchers*: `OwnPacketMatches`: the round trip, at every
segment, under every MTU: a template matches its own packet if and only if no header has `checksumPassed`
without `checksumVerified` (with class and label 0); `OnlyOwnMatches`: no other packet matches a template
that was not advanced, in IPv6 (with class and label 0) not one whose class or label was changed either; `SplitsAlike`: the verdict depends on the payload and not on mbuf
boundaries. *Zone*: `NoFalseAlarm`; `CleanVerdict`: when nothing was
reported, leaks and extra frees are equally many (they may both be there: the
counter cannot tell), and no redzone of a freed block was overwritten. *Mbufs*: `RefcountExact`,
`HolderAlive`, `ImplementsSharedStorage`, `TeardownVerdict`. *Fixture*: `BodyIsFresh`, `Nested` (a
resource exists only together with those of smaller keys), `NeverDestroysNothing`,
`StaleBlame` ("Previous testcase did not TearDown" is never said without cause),
`Recovers`. *LRO tests*: `AllTestsPass`: one LRO passes all tests, in every order and after
tests that failed; `GreenIsClean`: after a test that reports nothing every mbuf was freed
exactly once, although the zone only counts; `GreenLosesNothing`: every byte that LRO took went
up the stack, once and in order; `FlushedOnTime`: an early or a late flush is reported, although no
test looks at the mock between two calls; `OneOwner`: while LRO behaves and no `ASSERT_`
failed, each mbuf in the zone has exactly one owner, each other one was freed once, none is left when
the test is over and the zone reports nothing; `AgesAreReal`: in a test of ages the clock does
not run backwards.

Each property has a mutant in `PROJECT.json`: a plausible bug in a modelled
function that makes TLC report the property violated.

**Bounds.** Templates: header sizes 1, 2 and 1, payloads up to 3 bytes, MTUs below
the headers, exactly the headers, and a few bytes more, `U16` = 6 and `SizeMod` = 64 so
that truncation and wrap-around are both reachable (IPv6, which does not count its header, has payloads up to 5 bytes for that), two initial sequence
numbers one of which wraps around (`match_*`: one of each, with MTUs that segment from outside,
from inside, and that do not hold the headers; two classes with half a byte each and a
label that overflows its 20 bits). Stacks: five headers, enough for a tunnel with
two Ethernet and two IP headers or for IP, Ethernet, IP, TCP and payload; one or
two MTUs, a length field of 8 values that nested headers overflow. The state is the template, so the length of a
sequence of operations is not bounded. Zone: three blocks, two extra frees (enough for a leak
and an extra free to cancel out, and for the counter to go through zero), a
counter modulo 5 that wraps around; blocks are symmetric. Mbufs: three mbufs
and two buffers: a counter that goes from three to zero with its holder freed first,
second and last, while another buffer is in use. Fixture: two initializers of
each kind with three keys, one of them a tie of both kinds; any number of tests. LRO: all tests of both suites for both
versions, any number of them; header lengths 1, 2 and 1, `IP_MAXPACKET` 31 and an interface MTU of 11,
which fill a merged packet with the third segment for either version (the test's own numbers: `AutoFlushHolds`); four mbufs, the most that a test uses
at once; one mistake per test.

**Deadlock** is checked except in the two runs of `Uma`, where the process may
really abort.

**Fairness.** `pkt_send` assumes weak fairness of `NextSegment` only: the tests'
segmentation loop (`sysunit/pktgen/PacketPayload.gtest.cpp:477-480`) calls `Next` in each turn, while
resending and changing an MTU is up to the test. `Drains` has the hypothesis that
the payload's MTU leaves room for a byte; without it the loop never ends.
`lifecycle` assumes weak fairness of the steps of googletest, which runs one test
after another without waiting for anything; `--gtest_repeat` makes the program as
long as one likes. No throw is assumed to happen or not to happen; `Recovers` has the
hypothesis that from some moment on none does.

## 4. Proofs

`tlapm` checks the theorems in the eight proof modules from nothing, for all values
of the constants that satisfy the `ASSUME`s: any header sizes, MTUs, widths and
payload bounds (`ConstAssumption`: headers are not empty, they fit the 16-bit length
field, and `size_t` is wide enough for a packet with a full length field); stacks of any depth
(`StackAssumption`: the length field is no wider than `size_t` and counts at least IPv4's own header); any
finite number of blocks below the counter's modulus (`ZoneAssumption`); any number of
extra frees (`SurplusAssumption`); any disjoint mbufs and buffers (`MbufAssumption`); any finite
set of initializers with any keys; any number of mbufs and any set of LRO tests of a certain form
(`HarnessAssumption`): steps pair `GenerateRawMbuf` with success and `Generate` with an error; a test
has no more packets than there are mbufs; the times it states are times, and if it calls
`tcp_lro_flush_inactive` they are in order and in one sequence; the packet it expects to be refused is not one it
waits for, unless it repeats an earlier one (`RefusedStay`); before `if_input` it waits for as many calls of `MockSequence` as its
steps make, and if it calls `tcp_lro_flush_inactive` for as many of `getmicrotime` as its steps may make
(`FlushAwaits`); a sample frees its `lro_ctrl` in its last step; payloads are sequences of bytes; any two packets of one flow
that it expects share a sequence (`InputsInOrder`); and the bytes it expects to go up the stack are, flow by flow and in the order
of its steps, those of the packets it wants LRO to take (`BytesStated`). TLC evaluates all this on the tests of the repository.

* **Templates.** None of the properties is inductive: each follows from the
  template having just been propagated. The invariant says that `tmpl` has its type
  and is *settled*: outer MTUs are those of the header outside, lengths are
  those of the header inside, written out as equations. Lemmas show that
  `Propagate` establishes the equations whatever it is given, so each action needs
  only its types. `Agreement` then is arithmetic: with MTUs that wrap around, both
  sides are the minimum of the same terms. `ExactLengths` needs for a packet that overflows the length field that both the field and what
`Generate` allocates are then less than what is filled (`OverflowShort`). `Refinement` maps each action to a step of
  `ByteStream` (`NextSegment` to `Advance`, by `Agreement`; a change of an MTU to `Repack`).
  `StackRefinement` does the same for `Stack`: on a stack of these four headers its recursive
  propagations are what `PktStream` writes out (`Stack_proofs` is not used: each recursive function is
  compared with an explicit one of four values), a header's position is what `FindLayer` selects,
  and `Retransmission` and `WithSeq` change nothing that `Stack` sees.
* **Stacks.** The invariant says that the stack compiles (`MayHold` between neighbours, payload innermost) and is settled:
  every field that propagation writes has the value that its neighbour gives it. `Inwards` and
  `Outwards` prove that the two recursive functions exist and are what their equations say, at any depth;
  `PropagateSettles` that one pass each way settles every field, whatever was there before: the pass
  outwards does not disturb the MTUs. `SelectionCorrect` compares the search with counting: by
  induction the search from an index returns the index before which there are as many headers of the layer as it
  still has to skip (`FindsFromOuter`). `LengthsCorrect` needs that what is filled from a header inwards is the sum of the
  headers and the payload (`FilledFromInside`), that every header's MTU has room for it because TCP's and the
  payload's have (`MtusHold`, `FilledFits`), and that each length field then counts it (`LengthsCount`).
* **Matchers.** The attributes are no part of the template, so the templates' invariant carries over
  and only the type of `attr` is added. `MatchesOwn`: `FillPacket` and the matcher count the same bytes
  (`SameFill`), and the packet's length is exact by `FitExact`; flags that are not coherent are not those the packet has
(`IncoherentSums`). `MatchesOnlyOwn`: a changed flow word has another class or label (`WordFound`), and while `payloadIndex` is 0
  every byte is compared (`ForeignFound`), and the IP length field refuses a payload of another length
  (`Carries`). `MatchesSplits`: the bytes tested in two mbufs are as many as are tested in one
  (`SplitTested`). The recursive function over the mbufs is unfolded for one and two of them (`Tested`).
* **Zone.** The invariant `Sound` of `UmaZone_proofs` relates the counter to the held
  blocks and the extra frees modulo the counter's width, says that an unreported redzone belongs to
  a block somebody overwrote, and that a held or fresh block has the trash state
  its next check expects. Each operator of `UmaZone` has a lemma that preserves it;
  `Uma_proofs` and `Mbuf_proofs` cite them.
* **Mbufs.** Beyond `RefcountExact` the invariant needs to know which mbufs are in the
  zone: those somebody holds, and for each buffer that is still referred to the
  mbuf that keeps its counter, and no other. All references to a buffer agree on
  the place of the counter, and no two buffers share one. From this follow
  `HolderAlive`, the exact leak check and the step simulation of `SharedStorage`.

* **Fixture.** The invariant says that no initializer is registered twice, that the list is sorted as soon
  as a test runs, and which resources exist in each phase: between tests none or, after a `TearDown` that
  was cut short, all of them; during `SetUp` fresh ones below `pos` and from there on none or stale ones; in the
  body fresh ones only; during `TearDown` those up to `pos`. `Nested` follows from the list being sorted;
  `StaleBlame`, an action property, from the same invariant.
* **Times.** `Fixing`: one correction up and one down is enough for a sum or a difference of two
  normal times, so `timevaladd` and `timevalsub` return the one normal representation of the exact
  result (`AddExact`, `SubExact`), negative differences included: the comment at
  `mock/time/timeval.cpp:13-15` that the subtraction "gets very confused" is too cautious.
* **TestAutoFlush.** `lro` has smaller numbers than the test. `AutoFlushCount` shows for all numbers that LRO, by the rule
  `Full`, is full after `IP_MAXPACKET / maxPayload` packets and not before, as the test expects (`tcp_lro.gtest.cpp:865`),
  if the remainder of that division has room for two packets' headers; with a smaller remainder it is full a packet earlier.
  `AutoFlushHolds` is the test with 1500 and 65535: 44 packets over IPv4, 45 over IPv6.
* **Ownership.** `SingleOwner` proves `OneOwner` for all tests of the assumed form. Its invariant `IInv` has four parts:
  the shape of the state, where the test is when a call is in progress, which of the
  steps own `arg`, and `Owned`, that the pointer, the call and the entries partition the zone while `wrong` is false and no
  assertion failed. A call in progress has to be split by what it has returned: an mbuf it took is
  in the queue or freed, an mbuf it refused is the pointer's. `AInv` adds the account: an mbuf that is not in the zone was
  freed once, the zone's counter is the number of mbufs in it and its checks have found nothing (`Sound`, from
  `UmaZone_proofs`), and each owner has given up what it had by the phase in which the fixture ends it (`Swept`); for
  a sample, which has no `tcp_lro_free` in its tear-down, this is the last step of its script.
* **Types of the harness.** `TypeOK` says that an mbuf is freed at most three times although LRO makes a mistake.
  The invariant `TInv` has a budget for each mbuf: the times it was freed, plus one for each owner that may
  still free it (the pointer, the call, the queue), plus one if the mistake has not been made yet, never exceed three
  (`Loaded`). Every step of the code under test moves mbufs between these owners in one of a few ways
  (`Moves`). That a test does not run out of mbufs follows by counting its packet steps that are behind it (`Counted`).
* **Clock.** `ClockRuns` proves `AgesAreReal`. `Ages` says that the expectations of times are each in the sequence
  of the one before, with times in order (`InOrder`), and, as long as nothing was reported, that those called
  are the oldest ones, each called once, the last of which stored the last time read (`Answered`). A call that is not reported
  takes the newest expectation whose predecessors have been called: this is the next one (`CalledInTime`).
* **Where expectations come from.** `Asked`: the expectations are those of the `expect` steps behind the test, in their
  order, one for each unless an `ASSERT_` failed. `Linked`: an expectation waits for those before it that share a sequence.
* **A green test frees every mbuf once.** `GreenFreesOnce` proves `GreenIsClean` whatever the one mistake is and whenever it is made. After
  the mistake the zone is no longer what the owners think it is; `Books` says how far off it can be while nothing was
  reported. Either nothing was freed that was not owned (`Covered`: the zone holds what is owned and what was
  forgotten), or one mbuf was freed too early and the count is short of it or will be once its owner frees it too (`Short`).
  When the test is over nobody owns anything: in the first case what was forgotten is a leak, in the second the counter went
  below zero or the leak check finds a difference. The one mistake that would get past this is that LRO passes on the packet
  that it refuses, which the pointer frees as well: it is reported because nobody waits for that packet
  (`NotRefused`, from `Asked`, `Sent` and the hypothesis `Distinct`).
* **A green test flushes on time.** `GreenFlushesOnTime` proves `FlushedOnTime`. `Paid` counts: a call of `MockSequence` or `getmicrotime`
  that met an expectation was made in a step of its own, each step makes one at most. When `if_input` meets its
  expectation, those it waits for were met; there are as many of them as the test has such steps, so all
  these steps are behind (`AllBehind`), and a flush before the moment that the test marks would be `unexpected`.

* **A green test loses nothing.** `GreenKeepsBytes` proves `GreenLosesNothing`. The bytes that a test
  expects and the bytes of the packets it injects are stated apart, so the argument meets in the middle. `BytesUp`: as long as
  nothing is reported, the bytes of a flow that went up are those of the expectations of `if_input` that were
  met, in their order; a call can only add to the end because an expectation that is met has no earlier one of its flow that
  is still open (`MetInOrder`, from `AskedInOrder`), and with nothing reported none is met twice. `Verified`: what the mock finds when it
  is destroyed is that all of them were met. `Ran`, `AskedAll` and `Given`: when the body is over the test has run all of its
  steps, so its expectations are those of every `expect` step and its packets those of every `rx` step, in the order in which the
  steps run (`OrderIs`: that is `Sorted`), and LRO took exactly the packets that the test wants it to take, because a return value
  that the test does not want is reported. `BytesStated` then equates the two. The flattening of sequences is handled by
  four lemmas: it exists as a sequence of partial results (`RunExists`, `JoinedIs`), and how it grows at
  the end (`JoinedAppend`) and in the last place that is not empty (`JoinedLate`).

Only model-checked: `Drains` and `Recovers`, since liveness is out of the prover's reach; and
`AllTestsPass` of `LroHarness`, which says of the very tests of the repository that one LRO passes them: a proof would
go through the steps of every script.

Induction: the library's theorems take the predicate as an operator parameter and cannot be instantiated here.
The proofs use instead that a set of numbers that is not empty has a least element
(`LeastElement`, `GreatestElement`, from the well-foundedness of < on the naturals) and state what is to be shown
as a set of indices (`Induction`, `UpTo`, `DownFrom`); that a recursive function exists is proved by the same means
(`Ascending`, `Descending`).

## 5. Findings

1. `uma.cpp:83`: `trash_init` runs immediately before the constructor's `trash_ctor`, so
   the check that an item was not "overwritten since it was freed, prior to
   subsequent reallocation" (`uma.cpp:115`) compares what was written one line
   before. In `uma_zfree_arg` `trash_fini` likewise follows `trash_dtor`.
2. `PayloadMatcher.cpp:58`: the loop ends when the payload *index* reaches the *number*
   of bytes to compare, but it starts at the template's index. The template of a later
   segment compares too few bytes or none, and matches packets with other payload;
   `netinet/tcp_lro_sample.gtest.cpp:110` says that such a packet fails the test.
   `OnlyOwnMatches` shows that before the first `Next()` all bytes are compared.
3. `Ipv6Matcher.cpp:61`: the traffic class is compared with the low four bits of the
   first byte, the upper half of the class, and the flow label (line 63) with
   the word in network byte order, class included. A template with either set does
   not match its own packet, although `netinet/tcp_lro_sample.gtest.cpp:133` takes the
   matcher for a check that a packet was not modified.

Two more things a reader of the code should know, which are not counted as findings of a run:

* `Ipv4Header.h:238` and `Ipv6Header.h` keep 16 bits of the length. A packet of 64 KB or more gets a
  truncated length, `Generate` allocates from it, and `FillPacket` copies the whole
  payload. An MTU on the IP header prevents it; `LengthsExact` says all three.
* `ExpectGetMicrotime` retires on saturation and is not in a sequence, so two of them are handed out newest
  first: in `TestMerge2Tcp` the second call comes 250us *before* the first, not after it as
  `netinet/tcp_lro.gtest.cpp:202-204` says. No test but `TestFlushInactive` depends on the order, and that
  one uses an `InSequence` (`AgesAreReal`).

A mistake that no test can see was found as a counterexample and is now the hypothesis `Distinct` of
`GreenIsClean`: in the IPv6 variant of `TestOoODupSeq` the retransmission is the very same
packet, and an LRO that frees one of the two mbufs twice and the other never stays green.

## 6. Not modelled

* `tcp_lro.c`, the kernel headers and googletest are not in the repository; they are external, modelled
  from how they are used.
* Address classes and printing: stateless, and covered by unit tests.
* The mutex, malloc, atomic, mib and scope fakes: one-liners or symbols to link.
* Cluster, packet and jumbo storage of mbufs: the zones for it are never created.
* Header fields that are only stored, written and compared, and their setters.
* The build rules.

What is left to prove: the matcher's verdict on more than two mbufs, an induction over the chain; and `AllTestsPass`.
