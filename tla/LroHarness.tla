------------------------------ MODULE LroHarness ------------------------------
(***************************************************************************)
(* The LRO tests on the machine they run on: the mock interface, the mock  *)
(* clock, the mbufs and who owns them, and the fixture. The steps of a     *)
(* test come from LroTests, what gmock does from Gmock, the zone from      *)
(* UmaZone. A packet of these tests is one mbuf, which frees the external  *)
(* storage of a large packet with itself; LRO links the mbufs to chains.   *)
(* That a second free of an mbuf may also crash is left out: the program   *)
(* goes on, which is what may hide the mistake.                            *)
(*                                                                         *)
(* The code under test behaves as in TcpLro, or it makes one mistake of    *)
(* the kinds that `Errs` lists, at any time: `wrong` says that it has.     *)
(* Tests follow each other in any order; each zone and each mock belongs   *)
(* to one test.                                                            *)
(***************************************************************************)
EXTENDS TcpLro, Gmock, UmaZone

Seqs == INSTANCE SequencesExt

CONSTANTS
  MaxMbufs,  \* the mbufs of a test
  Scripts,   \* the tests, by IP version and name: those of LroTests
  Garbage    \* a time nobody set: what an uninitialised timeval may hold

\* A function is a sequence of steps. A test gives its mbuf away exactly when it
\* expects that LRO takes it. A payload is a sequence of bytes.
IsFunction(f) ==
  /\ Len(f) \in Nat /\ DOMAIN f = 1..Len(f)
  /\ \A j \in DOMAIN f :
       /\ f[j].op = "rx" => (f[j].raw <=> f[j].ret = Taken) /\ f[j].pkt.pay \in Seq(Int)
       /\ f[j].op = "expect" /\ f[j].fn = "if_input" => f[j].arg.pay \in Seq(Int)

\* The steps of a test with this op, and the order in which steps run.
StepsIn(fs, op) ==
  {x \in UNION {{[fn |-> i, pc |-> j] : j \in 1..Len(fs[i])} : i \in 1..Len(fs)} :
     fs[x.fn][x.pc].op = op}

Precedes(x, y) == x.fn < y.fn \/ (x.fn = y.fn /\ x.pc < y.pc)

\* The times a test states. A test whose outcome depends on them states them in
\* their order and all in one sequence.
ClockSteps(fs) == {x \in StepsIn(fs, "expect") : fs[x.fn][x.pc].fn = "getmicrotime"}

TimesInSequence(fs) ==
  \A x, y \in ClockSteps(fs) :
    LET a == fs[x.fn][x.pc]
        b == fs[y.fn][y.pc]
    IN  Precedes(x, y) => a.seqs \cap b.seqs # {} /\ NotBefore(b.arg, a.arg)

\* The packet that a test expects to be refused is not one that is to go up the
\* stack, unless it repeats one that was sent before.
RefusedStay(fs) ==
  \A x \in StepsIn(fs, "rx"), y \in StepsIn(fs, "expect") :
    LET a == fs[x.fn][x.pc]
        b == fs[y.fn][y.pc]
    IN  a.ret # Taken /\ b.fn = "if_input" /\ b.arg = a.pkt =>
          \E z \in StepsIn(fs, "rx") : Precedes(z, x) /\ fs[z.fn][z.pc].pkt = a.pkt

\* The expectations of fn that have to be met before the one of step y.
Awaited(fs, y, fn) ==
  {x \in StepsIn(fs, "expect") :
     LET a == fs[x.fn][x.pc]
     IN  a.fn = fn /\ Precedes(x, y) /\ a.seqs \cap fs[y.fn][y.pc].seqs # {}}

\* A test that marks the moment of a flush lets if_input wait for as many calls as
\* its steps may make until then: one of MockSequence in each step of that name,
\* one of getmicrotime in each call of tcp_lro_rx and tcp_lro_flush_inactive.
FlushAwaits(fs) ==
  \A y \in StepsIn(fs, "expect") :
    fs[y.fn][y.pc].fn = "if_input" =>
      /\ Cardinality(Awaited(fs, y, "MockSequence")) >= Cardinality(StepsIn(fs, "MockSequence"))
      /\ StepsIn(fs, "flush_inactive") # {} =>
           Cardinality(Awaited(fs, y, "getmicrotime"))
             >= Cardinality(StepsIn(fs, "rx")) + Cardinality(StepsIn(fs, "flush_inactive"))

\* The packets of one flow that are to go up the stack do so in a certain order.
InputsInOrder(fs) ==
  \A x, y \in StepsIn(fs, "expect") :
    LET a == fs[x.fn][x.pc]
        b == fs[y.fn][y.pc]
    IN  /\ Precedes(x, y) /\ a.fn = "if_input" /\ b.fn = "if_input"
        /\ FlowOf(a.arg) = FlowOf(b.arg)
        => a.seqs \cap b.seqs # {}

\* A set of steps in the order in which they run.
Sorted(S) ==
  [i \in 1..Cardinality(S) |->
     CHOOSE x \in S : Cardinality({z \in S : Precedes(z, x)}) = i - 1]

\* The bytes of flow f in packet p; those that a step wants to go up the stack, and
\* those that a step wants LRO to take.
BytesOf(p, f)    == IF FlowOf(p) = f THEN p.pay ELSE <<>>
BytesAsked(s, f) == IF s.fn = "if_input" THEN BytesOf(s.arg, f) ELSE <<>>
BytesGiven(s, f) == IF s.ret = Taken THEN BytesOf(s.pkt, f) ELSE <<>>

\* They are the same, flow by flow.
BytesStated(fs) ==
  LET asked == Sorted(StepsIn(fs, "expect"))
      given == Sorted(StepsIn(fs, "rx"))
  IN  \A x \in StepsIn(fs, "rx") :
        LET f == FlowOf(fs[x.fn][x.pc].pkt) IN
          Seqs!FlattenSeq([i \in DOMAIN asked |-> BytesAsked(fs[asked[i].fn][asked[i].pc], f)])
            = Seqs!FlattenSeq([i \in DOMAIN given |-> BytesGiven(fs[given[i].fn][given[i].pc], f)])

IsTest(fs) ==
  /\ Len(fs) \in Nat \ {0} /\ DOMAIN fs = 1..Len(fs)
  /\ \A i \in DOMAIN fs : IsFunction(fs[i])
  /\ Cardinality(StepsIn(fs, "rx")) <= MaxMbufs
  /\ \A x \in ClockSteps(fs) : fs[x.fn][x.pc].arg \in Timeval
  /\ StepsIn(fs, "flush_inactive") # {} => TimesInSequence(fs)
  /\ RefusedStay(fs) /\ FlushAwaits(fs) /\ InputsInOrder(fs) /\ BytesStated(fs)

\* A sample frees its lro_ctrl in its last step.
FreesLast(fs) ==
  LET f == fs[Len(fs)] IN Len(f) > 0 /\ f[Len(f)].op = "free"

ASSUME HarnessAssumption ==
  /\ Items = 1..MaxMbufs /\ MaxMbufs \in Nat /\ Garbage \in Timeval
  /\ \A v \in DOMAIN Scripts : \A name \in DOMAIN Scripts[v] :
       /\ IsTest(Scripts[v][name])
       /\ name \in Samples => FreesLast(Scripts[v][name])

VARIABLES
  test,      \* the test that runs: its name, and the IP version
  phase,     \* where the fixture is
  at,        \* the function of the test and the step in it
  gm,        \* the expectations
  failed,    \* what was reported so far
  zone,      \* zone_mbuf
  kept,      \* the mbuf in the MbufUniquePtr; 0 is null
  arg,       \* the mbuf that tcp_lro_rx was called with; 0 outside the call
  ret,       \* what it has returned
  now,       \* the time that tcp_lro_flush_inactive read, once it has
  queue,     \* the entries of the lro_ctrl
  forwarding, ifMtu, \* ip_forwarding and if_mtu
  wrong,     \* the code under test has made its mistake
  pkts,      \* history: the packets generated, by mbuf
  took,      \* history: the mbufs that tcp_lro_rx said it took
  delivered, \* history: what if_input was called with, and during which step
  reads,     \* history: the times that getmicrotime stored
  frees      \* history: how often each mbuf was freed

mocks   == <<gm, failed, delivered, reads>>
memory  == <<zone, frees>>
lro     == <<queue, wrong>>
call    == <<arg, ret, pkts, took>>
program == <<test, phase, forwarding>>
vars    == <<mocks, memory, lro, call, program, at, kept, now, ifMtu>>

Function == Scripts[test.version][test.name][at.fn]
Step     == Function[at.pc]
InBody   == phase = "body" /\ at.pc <= Len(Function)
At(op)   == InBody /\ Step.op = op

Advance == at' = [at EXCEPT !.pc = @ + 1]
-----------------------------------------------------------------------------
(* Memory.                                                                 *)

\* Mutant: the counter is allowed to go below zero.
FreedBelowZero(S) ==
  /\ zone' = [zone EXCEPT !.alloced = @ - Cardinality(S), !.held = @ \ S, !.junk = @ \cup S]
  /\ frees' = [m \in Items |-> frees[m] + (IF m \in S THEN 1 ELSE 0)]

\* uma_zfree_arg on each mbuf of S, one after the other.
m_freem(S) ==
  /\ zone' = [zone EXCEPT
       !.fails   = IF zone.alloced >= Cardinality(S) THEN @ ELSE @ \cup {"extraFree"},
       !.alloced = (@ - Cardinality(S)) % CountMod,
       !.held    = @ \ S,
       !.junk    = @ \cup S]
  /\ frees' = [m \in Items |-> frees[m] + (IF m \in S THEN 1 ELSE 0)]

\* The destructor of MbufUniquePtr, and its assignment operator.
KeptSet == {kept} \ {0}

\* What a matcher reads from a chain: junk, if one of its mbufs was freed.
Read(p, S) == IF S \subseteq zone.held THEN p ELSE [p EXCEPT !.pay = <<-1>>]
-----------------------------------------------------------------------------
(* Mocks.                                                                  *)

IfnetFns == {"if_input", "MockSequence"}
TimeFns  == {"getmicrotime"}

\* Mutant: the mock only looks at the packet.
IfInputKeeps(es, p, S) ==
  /\ gm' = Called(es, "if_input", p)
  /\ failed' = failed \cup CallFailures(es, "if_input", p)
  /\ delivered' = Append(delivered, [pkt |-> p, at |-> at])
  /\ UNCHANGED memory

\* MockUpperIfnet::IfInput: the mock looks at the packet, which is then freed.
IfInput(es, p, S) ==
  /\ gm' = Called(es, "if_input", p)
  /\ failed' = failed \cup CallFailures(es, "if_input", p)
  /\ delivered' = Append(delivered, [pkt |-> p, at |-> at])
  /\ m_freem(S)

\* The times getmicrotime may store: that of the expectation, or none at all.
Times ==
  IF Handling(gm, "getmicrotime", 0) = {} THEN {Garbage}
  ELSE {gm[Handler(gm, "getmicrotime", 0)].arg}

getmicrotime(tv) ==
  /\ tv \in Times
  /\ gm' = Called(gm, "getmicrotime", 0)
  /\ failed' = failed \cup CallFailures(gm, "getmicrotime", 0)
  /\ reads' = Append(reads, tv)
-----------------------------------------------------------------------------
(* The fixture.                                                            *)

\* No test has run yet; the name is of no account.
Init ==
  /\ test = [name |-> "TestSyn", version |-> "v4"] /\ phase = "start"
  /\ at = [fn |-> 1, pc |-> 1]
  /\ gm = <<>> /\ failed = {} /\ delivered = <<>> /\ reads = <<>>
  /\ zone = NewZone /\ frees = [m \in Items |-> 0]
  /\ kept = 0 /\ arg = 0 /\ ret = "none" /\ now = <<>>
  /\ queue = {} /\ forwarding = FALSE /\ ifMtu = 0 /\ wrong = FALSE
  /\ pkts = <<>> /\ took = {}

\* Mutant: the globals keep what the last test wrote.
ForwardingKept(name) == IF name \in Samples THEN FALSE ELSE forwarding

\* The samples are a program of their own; its globals were never written.
ForwardingAtStart(name) == FALSE

\* TestSuite::SetUp: a new zone, new mocks (if_mtu is cleared), an empty lro_ctrl.
SetUp(name, version) ==
  /\ phase \in {"start", "over"}
  /\ test' = [name |-> name, version |-> version] /\ phase' = "body"
  /\ at' = [fn |-> 1, pc |-> 1]
  /\ gm' = <<>> /\ failed' = {} /\ delivered' = <<>> /\ reads' = <<>>
  /\ zone' = NewZone /\ frees' = [m \in Items |-> 0]
  /\ kept' = 0 /\ arg' = 0 /\ ret' = "none" /\ now' = <<>>
  /\ queue' = {} /\ forwarding' = ForwardingAtStart(name) /\ ifMtu' = 0 /\ wrong' = FALSE
  /\ pkts' = <<>> /\ took' = {}

\* The end of a function: the destructor of its MbufUniquePtr runs.
Return ==
  /\ phase = "body" /\ ~InBody
  /\ m_freem(KeptSet) /\ kept' = 0
  /\ \/ /\ at.fn < Len(Scripts[test.version][test.name])
        /\ at' = [fn |-> at.fn + 1, pc |-> 1] /\ UNCHANGED phase
     \/ /\ at.fn = Len(Scripts[test.version][test.name])
        /\ phase' = "caseTearDown" /\ UNCHANGED at
  /\ UNCHANGED <<mocks, lro, call, test, forwarding, now, ifMtu>>

\* Mutant: a single entry that is still queued is passed on, as by
\* tcp_lro_flush_all.
QueueFlushed ==
  /\ queue' = {}
  /\ \/ /\ Cardinality(queue) = 1 /\ UNCHANGED reads
        /\ \E e \in queue : IfInput(gm, Read(e.pkt, e.mbufs), e.mbufs)
     \/ /\ Cardinality(queue) # 1 /\ UNCHANGED mocks
        /\ m_freem(UNION {e.mbufs : e \in queue})

\* tcp_lro_free frees what is still queued, and does not pass it on.
tcp_lro_free ==
  /\ m_freem(UNION {e.mbufs : e \in queue}) /\ queue' = {}
  /\ UNCHANGED mocks

\* The samples destroy their interface at the end of the body, and their
\* lro_ctrl only if they get there.
TestCaseTearDown ==
  /\ phase = "caseTearDown"
  /\ \/ test.name \notin Samples /\ tcp_lro_free
     \/ test.name \in Samples /\ UNCHANGED <<queue, mocks, memory>>
  /\ phase' = "mockTearDown"
  /\ UNCHANGED <<wrong, call, test, forwarding, at, kept, now, ifMtu>>

\* Mutant: the static UniquePtr still holds the mock when the test is over.
MockIfpKept ==
  /\ phase = "mockTearDown" /\ phase' = "over"
  /\ zone' = uma_zdestroy(zone)
  /\ failed' = failed \cup Verify(gm, TimeFns) \cup zone'.fails
  /\ UNCHANGED <<gm, delivered, reads, frees, lro, call, test, forwarding, at, kept, now,
                 ifMtu>>

\* mockIfp.reset(), then the initializers in any order.
TearDown ==
  /\ phase = "mockTearDown" /\ phase' = "over"
  /\ zone' = uma_zdestroy(zone)
  /\ failed' = failed \cup Verify(gm, IfnetFns) \cup Verify(gm, TimeFns) \cup zone'.fails
  /\ UNCHANGED <<gm, delivered, reads, frees, lro, call, test, forwarding, at, kept, now,
                 ifMtu>>
-----------------------------------------------------------------------------
(* The steps of a test.                                                    *)

\* Mutant: getmicrotime is expected outside the scope of the InSequence.
TimeOutsideSequence ==
  /\ At("expect") /\ Advance
  /\ gm' = Append(gm, Expectation(gm, Step.fn, Step.arg,
                                 IF Step.fn = "getmicrotime" THEN {} ELSE Step.seqs))
  /\ UNCHANGED <<failed, delivered, reads, memory, lro, call, program, kept, now, ifMtu>>

SetExpectation ==
  /\ At("expect") /\ Advance
  /\ gm' = Append(gm, Expectation(gm, Step.fn, Step.arg, Step.seqs))
  /\ UNCHANGED <<failed, delivered, reads, memory, lro, call, program, kept, now, ifMtu>>

CallMockSequence ==
  /\ At("MockSequence") /\ Advance
  /\ gm' = Called(gm, "MockSequence", 1)
  /\ failed' = failed \cup CallFailures(gm, "MockSequence", 1)
  /\ UNCHANGED <<delivered, reads, memory, lro, call, program, kept, now, ifMtu>>

EnableForwardingStep ==
  /\ At("forwarding") /\ Advance /\ forwarding' = TRUE
  /\ UNCHANGED <<mocks, memory, lro, call, test, phase, kept, now, ifMtu>>

SetIfMtuStep ==
  /\ At("if_mtu") /\ Advance /\ ifMtu' = Step.mtu
  /\ UNCHANGED <<mocks, memory, lro, call, program, kept, now>>

FreeStep ==
  /\ At("free") /\ Advance /\ tcp_lro_free
  /\ UNCHANGED <<wrong, call, program, kept, now, ifMtu>>

\* Generate() or GenerateRawMbuf(), and the call. The mbuf that the pointer held
\* is freed after the new one is there.
Generate ==
  LET m == Len(pkts) + 1
      z == uma_zalloc_arg(zone, m)
  IN  /\ At("rx") /\ arg = 0
      /\ pkts' = Append(pkts, Step.pkt) /\ arg' = m
      /\ \/ Step.raw /\ zone' = z /\ UNCHANGED <<kept, frees>>
         \/ /\ ~Step.raw /\ kept' = m
            /\ zone' = IF kept = 0 THEN z ELSE uma_zfree_arg(z, kept)
            /\ frees' = [i \in Items |-> frees[i] + (IF i = kept THEN 1 ELSE 0)]
      /\ UNCHANGED <<mocks, lro, program, at, now, ifMtu, ret, took>>

\* ASSERT_EQ: a failure leaves the function.
Assert ==
  /\ ret # "none"
  /\ \/ ret = Step.ret /\ Advance /\ UNCHANGED failed
     \/ /\ ret # Step.ret
        /\ failed' = failed \cup {"assert"}
        /\ at' = [at EXCEPT !.pc = Len(Function) + 1]
  /\ arg' = 0 /\ ret' = "none"
  /\ UNCHANGED <<gm, delivered, reads, memory, lro, program, kept, now, ifMtu, pkts, took>>
-----------------------------------------------------------------------------
(* tcp_lro_rx.                                                             *)

Calling == At("rx") /\ arg # 0 /\ ret = "none"
Pkt     == pkts[arg]

Returns(r) ==
  /\ ret' = r
  /\ took' = IF r = Taken THEN took \cup {arg} ELSE took
  /\ UNCHANGED <<arg, pkts, program, at, kept, now, ifMtu>>

RxRefuse ==
  /\ Calling /\ Returns(ErrorOf(Pkt, forwarding))
  /\ \/ Unreadable(Pkt, forwarding)
     \/ Pkt.flags # {"ACK"} /\ EntriesOf(queue, Pkt) = {}
  /\ UNCHANGED <<mocks, memory, lro>>

\* The packet cannot be merged with what is queued of its flow.
RxFlush ==
  /\ Calling /\ Returns(TCP_LRO_CANNOT) /\ ~Unreadable(Pkt, forwarding)
  /\ \E e \in EntriesOf(queue, Pkt) :
       /\ ~Continues(e, Pkt)
       /\ IfInput(gm, Read(e.pkt, e.mbufs), e.mbufs)
       /\ queue' = queue \ {e}
  /\ UNCHANGED <<wrong, reads>>

RxQueue ==
  /\ Calling /\ Returns(Taken) /\ ~Unreadable(Pkt, forwarding)
  /\ Pkt.flags = {"ACK"} /\ EntriesOf(queue, Pkt) = {}
  /\ \E tv \in Times :
       /\ getmicrotime(tv)
       /\ queue' = queue \cup {[pkt |-> Pkt, mbufs |-> {arg}, mtime |-> tv]}
  /\ UNCHANGED <<delivered, memory, wrong>>

\* A pure ACK leaves its numbers behind.
RxAbsorb ==
  /\ Calling /\ Returns(Taken) /\ ~Unreadable(Pkt, forwarding) /\ Pkt.pay = <<>>
  /\ \E e \in EntriesOf(queue, Pkt) :
       /\ Continues(e, Pkt)
       /\ queue' = (queue \ {e}) \cup
            {[pkt |-> Acknowledged(e.pkt, Pkt), mbufs |-> e.mbufs, mtime |-> e.mtime]}
  /\ m_freem({arg})
  /\ UNCHANGED <<mocks, wrong>>

RxAppend ==
  /\ Calling /\ Returns(Taken) /\ ~Unreadable(Pkt, forwarding) /\ Pkt.pay # <<>>
  /\ \E e \in EntriesOf(queue, Pkt) :
       /\ Continues(e, Pkt) /\ ~Full(Merged(e.pkt, Pkt), ifMtu)
       /\ \E tv \in Times :
            /\ getmicrotime(tv)
            /\ queue' = (queue \ {e}) \cup
                 {[pkt |-> Merged(e.pkt, Pkt), mbufs |-> e.mbufs \cup {arg}, mtime |-> tv]}
  /\ UNCHANGED <<delivered, memory, wrong>>

\* The merged packet is passed on before it grows too large.
RxFill ==
  /\ Calling /\ Returns(Taken) /\ ~Unreadable(Pkt, forwarding) /\ Pkt.pay # <<>>
  /\ \E e \in EntriesOf(queue, Pkt) :
       /\ Continues(e, Pkt) /\ Full(Merged(e.pkt, Pkt), ifMtu)
       /\ LET S == e.mbufs \cup {arg} IN IfInput(gm, Read(Merged(e.pkt, Pkt), S), S)
       /\ queue' = queue \ {e}
  /\ UNCHANGED <<wrong, reads>>

Rx == RxRefuse \/ RxFlush \/ RxQueue \/ RxAbsorb \/ RxAppend \/ RxFill
-----------------------------------------------------------------------------
(* tcp_lro_flush_all and tcp_lro_flush_inactive.                           *)

ReadClock ==
  /\ At("flush_inactive") /\ now = <<>>
  /\ \E tv \in Times : getmicrotime(tv) /\ now' = <<tv>>
  /\ UNCHANGED <<delivered, memory, lro, call, program, at, kept, ifMtu>>

Flushing == At("flush_all") \/ (At("flush_inactive") /\ now # <<>>)

Due == IF Step.op = "flush_all" THEN queue ELSE Expired(queue, now[1], Step.timeout)

PassOn(e) == IfInput(gm, Read(e.pkt, e.mbufs), e.mbufs) /\ queue' = queue \ {e}

\* The entries are flushed in the order of a list that the tests do not know.
FlushOne ==
  /\ Flushing /\ \E e \in Due : PassOn(e)
  /\ UNCHANGED <<wrong, reads, call, program, at, kept, now, ifMtu>>

FlushDone ==
  /\ Flushing /\ Due = {} /\ Advance /\ now' = <<>>
  /\ UNCHANGED <<mocks, memory, lro, call, program, kept, ifMtu>>
-----------------------------------------------------------------------------
(* The one mistake of the code under test.                                 *)

Err == ~wrong /\ wrong' = TRUE

\* tcp_lro_rx refuses a packet without a flush, or passes on the packet in place
\* of what it has queued, or takes a packet that it should refuse.
RxErr ==
  /\ Calling /\ Err
  /\ \/ Returns(TCP_LRO_CANNOT) /\ UNCHANGED <<mocks, memory, queue>>
     \/ /\ Returns(TCP_LRO_CANNOT) /\ IfInput(gm, Read(Pkt, {arg}), {arg})
        /\ \E e \in EntriesOf(queue, Pkt) : queue' = queue \ {e}
        /\ UNCHANGED reads
     \/ /\ Returns(Taken) /\ UNCHANGED <<mocks, memory>>
        /\ queue' = queue \cup {[pkt |-> Pkt, mbufs |-> {arg}, mtime |-> Garbage]}

\* In any call it may pass on an entry early, drop it, forget it or one of its
\* mbufs, or change its payload ...
InLro == Flushing \/ (arg # 0 /\ ret # "none")

EntryErr ==
  /\ InLro /\ Err
  /\ \E e \in queue :
       \/ PassOn(e) /\ UNCHANGED reads
       \/ m_freem(e.mbufs) /\ queue' = queue \ {e} /\ UNCHANGED mocks
       \/ queue' = queue \ {e} /\ UNCHANGED <<mocks, memory>>
       \/ /\ UNCHANGED <<mocks, memory>>
          /\ \E m \in e.mbufs : queue' = (queue \ {e}) \cup {[e EXCEPT !.mbufs = @ \ {m}]}
       \/ /\ e.pkt.pay # <<>> /\ UNCHANGED <<mocks, memory>>
          /\ queue' = (queue \ {e}) \cup {[e EXCEPT !.pkt.pay = Tail(@) \o <<-2>>]}
  /\ UNCHANGED <<call, program, at, kept, now, ifMtu>>

\* ... or free an mbuf that is not its own, or no longer.
FreeErr ==
  /\ InLro /\ Err
  /\ \E m \in 1..Len(pkts) : m_freem({m})
  /\ UNCHANGED <<mocks, queue, call, program, at, kept, now, ifMtu>>

\* It may return before everything is flushed.
FlushErr ==
  /\ Flushing /\ Due # {} /\ Err /\ Advance /\ now' = <<>>
  /\ UNCHANGED <<mocks, memory, queue, call, program, kept, ifMtu>>

Run ==
  \/ Return \/ TestCaseTearDown \/ TearDown
  \/ SetExpectation \/ CallMockSequence \/ EnableForwardingStep \/ SetIfMtuStep \/ FreeStep
  \/ Generate \/ Rx \/ Assert \/ ReadClock \/ FlushOne \/ FlushDone

Errs == RxErr \/ EntryErr \/ FreeErr \/ FlushErr

Next ==
  \/ Run \/ Errs
  \/ \E v \in DOMAIN Scripts : \E name \in DOMAIN Scripts[v] : SetUp(name, v)

Spec == Init /\ [][Next]_vars
-----------------------------------------------------------------------------
(* Correctness.                                                            *)

TypeOK ==
  /\ phase \in {"start", "body", "caseTearDown", "mockTearDown", "over"}
  /\ failed \subseteq {"unexpected", "excess", "unmet", "assert"} \cup Failures
  /\ zone \in Zone /\ frees \in [Items -> 0..3]
  /\ kept \in 0..Len(pkts) /\ arg \in 0..Len(pkts) /\ Len(pkts) <= MaxMbufs
  /\ ret \in {"none", Taken, TCP_LRO_CANNOT, TCP_LRO_NOT_SUPPORTED}
  /\ \A e \in queue : e.mbufs \subseteq 1..Len(pkts) /\ e.mtime \in Timeval
  /\ took \subseteq 1..Len(pkts)

Over  == phase = "over"
Green == Over /\ failed = {}

\* One and the same LRO passes all of the tests, in every order and after tests
\* that failed: their expectations of calls, times, packets, return values and
\* mbufs do not contradict each other, nor what the mocks do with them.
AllTestsPass == Over /\ ~wrong => failed = {}

\* The packets a test sends are all different on the wire.
Distinct == \A m, n \in 1..Len(pkts) : pkts[m] = pkts[n] => m = n

\* A test that reports nothing has freed every mbuf exactly once, whoever had to:
\* the pointer, the mock interface, LRO or its tear-down. (The zone only counts:
\* a double free and a leak cancel out, when the packets are alike.)
GreenIsClean ==
  Green /\ Distinct => \A m \in 1..Len(pkts) : frees[m] = 1

\* A test that reports nothing shows that every byte that LRO took went up the
\* stack, once and in order, flow by flow.
GreenLosesNothing ==
  Green => \A m \in 1..Len(pkts) :
    LET f == FlowOf(pkts[m]) IN
      Seqs!FlattenSeq([i \in 1..Len(delivered) |-> BytesOf(delivered[i].pkt, f)])
        = Seqs!FlattenSeq([i \in 1..Len(pkts) |-> IF i \in took THEN BytesOf(pkts[i], f) ELSE <<>>])

\* The steps of the test with this op.
StepsOf(op) == StepsIn(Scripts[test.version][test.name], op)

\* A flush at the wrong time is noticed, although only tear-down looks for
\* packets that are missing: a test that marks a moment before which nothing may
\* be passed on, with MockSequence or by the order of its times, sees an early
\* flush; a test that does not flush by hand sees one that comes too late for the
\* last call of tcp_lro_rx.
FlushedOnTime ==
  Green => \A i \in 1..Len(delivered) :
    LET x == delivered[i].at IN
      /\ \A s \in StepsOf("MockSequence") \cup StepsOf("flush_inactive") :
           x.fn = s.fn => x.pc >= s.pc
      /\ x \in StepsOf("rx") \cup StepsOf("flush_all") \cup StepsOf("flush_inactive")

\* While the code under test behaves, every mbuf in the zone has one owner, who
\* will free it: the pointer, the call of tcp_lro_rx, or one entry of the queue;
\* nobody owns an mbuf that is not in the zone, and each of those was freed once.
\* When the test is over none is left, and the zone has nothing to report. Only a
\* failed ASSERT_ lets a test free what LRO has taken, or forget what it has not.
OneOwner ==
  ~wrong /\ "assert" \notin failed /\ ret = "none" =>
    /\ zone.held = KeptSet \cup ({arg} \ {0}) \cup UNION {e.mbufs : e \in queue}
    /\ \A e \in queue : e.mbufs \cap {kept, arg} = {}
    /\ \A e, f \in queue : e # f => e.mbufs \cap f.mbufs = {}
    /\ \A m \in 1..Len(pkts) : frees[m] = IF m \in zone.held THEN 0 ELSE 1
    /\ Over => zone.held = {}
    /\ zone.fails = {} /\ ~zone.dead

\* Times are handed out newest expectation first. In a test whose outcome depends
\* on them the clock nevertheless never runs backwards, as long as the test has
\* reported nothing: an entry is as old as the test means it to be.
AgesAreReal ==
  failed = {} /\ StepsOf("flush_inactive") # {} =>
    \A i \in 2..Len(reads) : NotBefore(reads[i], reads[i - 1])
=============================================================================
