------------------------------ MODULE Lifecycle -------------------------------
(***************************************************************************)
(* The fixture that every test of the framework runs in: the Initializer   *)
(* registry and TestSuite::SetUp and TearDown, with the two kinds of       *)
(* initializer there are. MbufInit refuses to set its zone up twice and    *)
(* dereferences it in TearDown; a GlobalMock replaces whatever mock it     *)
(* finds and resets it in TearDown, there or not.                          *)
(*                                                                         *)
(* googletest (external) drives the fixture: it catches what SetUp, the    *)
(* body or TearDown throws, skips the body after a failed SetUp and calls  *)
(* TearDown in every case. Which tests throw is nondeterministic.          *)
(***************************************************************************)
EXTENDS Integers, Sequences, SequencesExt

CONSTANTS
  Inits,    \* the initializers
  Guarded,  \* those that behave as MbufInit does; the others are mocks
  Key       \* the order of subsystem and order, by initializer

ASSUME LifecycleAssumption == /\ Guarded \subseteq Inits
                              /\ Key \in [Inits -> Int]

VARIABLES
  initList,     \* the registered initializers
  initialized,  \* registration is over
  phase,        \* what the test program is doing
  pos,          \* in a SetUp or TearDown loop: the initializer that is next
  res,          \* by initializer: is its resource there, and of which test
  cut           \* TearDown of the last test did not reach the initializers

vars == <<initList, initialized, phase, pos, res, cut>>

Registered == ToSet(initList)

Phases == {"between", "settingUp", "body", "testTearDown", "tearingDown"}

\* A resource is fresh in the test that set it up, and stale in later ones.
Resource == {"none", "fresh", "stale"}

TypeOK ==
  /\ initList \in Seq(Inits)
  /\ initialized \in BOOLEAN /\ cut \in BOOLEAN
  /\ phase \in Phases
  /\ pos \in 0..(Len(initList) + 1)
  /\ res \in [Inits -> Resource]

Init ==
  /\ initList = <<>> /\ initialized = FALSE
  /\ phase = "between" /\ pos = 0
  /\ res = [i \in Inits |-> "none"]
  /\ cut = FALSE
-----------------------------------------------------------------------------
(* Registration.                                                           *)

\* Mutant: nobody looks at `initialized`.
EnlistAlways(i) == initList' = Append(initList, i) /\ UNCHANGED phase

\* The constructor throws once SetUp has run; a body that builds an initializer
\* then ends there.
Enlist(i) ==
  \/ /\ initialized
     /\ phase' = (IF phase = "body" THEN "testTearDown" ELSE phase)
     /\ UNCHANGED initList
  \/ ~initialized /\ initList' = Append(initList, i) /\ UNCHANGED phase

\* Static constructors run before the first test, in any order of the files;
\* the body of a test may construct an initializer as well.
Construct(i) ==
  /\ phase \in {"between", "body"} /\ i \notin Registered
  /\ Enlist(i)
  /\ UNCHANGED <<initialized, pos, res, cut>>
-----------------------------------------------------------------------------
(* TestSuite::SetUp.                                                       *)

\* std::sort keeps no order among initializers with equal keys.
Sorted ==
  {s \in [1..Len(initList) -> Registered] :
     \A x, y \in 1..Len(initList) : x < y => s[x] # s[y] /\ Key[s[x]] <= Key[s[y]]}

SetUp ==
  /\ phase = "between"
  /\ initList' \in Sorted
  /\ phase' = "settingUp" /\ pos' = 1
  /\ res' = [i \in Inits |-> IF res[i] = "none" THEN "none" ELSE "stale"]
  /\ UNCHANGED <<initialized, cut>>

\* "Previous testcase did not TearDown fake_mbuf"
Refuses(i) == i \in Guarded /\ res[i] # "none"

\* Mutant: MbufInit makes do with the zone it finds.
Reuse(i) ==
  /\ res' = [res EXCEPT ![i] = IF Refuses(i) THEN @ ELSE "fresh"]
  /\ pos' = pos + 1 /\ UNCHANGED phase

SetUpOne(i) ==
  \/ Refuses(i) /\ phase' = "testTearDown" /\ UNCHANGED <<pos, res>>
  \/ /\ ~Refuses(i)
     /\ res' = [res EXCEPT ![i] = "fresh"]
     /\ pos' = pos + 1 /\ UNCHANGED phase

InitSetUp ==
  /\ phase = "settingUp" /\ pos <= Len(initList)
  /\ SetUpOne(initList[pos])
  /\ UNCHANGED <<initList, initialized, cut>>

\* TestCaseSetUp returns, or it throws and the body is skipped.
TestCaseSetUp ==
  /\ phase = "settingUp" /\ pos > Len(initList)
  /\ initialized' = TRUE
  /\ phase' \in {"body", "testTearDown"}
  /\ UNCHANGED <<initList, pos, res, cut>>

\* The body returns or throws.
TestBody ==
  /\ phase = "body"
  /\ phase' = "testTearDown"
  /\ UNCHANGED <<initList, initialized, pos, res, cut>>
-----------------------------------------------------------------------------
(* TestSuite::TearDown, also after a SetUp that threw.                     *)

TestCaseTearDown ==
  /\ phase = "testTearDown"
  /\ phase' = "tearingDown" /\ pos' = Len(initList) /\ cut' = FALSE
  /\ UNCHANGED <<initList, initialized, res>>

\* TestCaseTearDown throws: the loop over the initializers is never entered.
TestCaseTearDownThrows ==
  /\ phase = "testTearDown"
  /\ phase' = "between" /\ pos' = 0 /\ cut' = TRUE
  /\ UNCHANGED <<initList, initialized, res>>

\* Mutant: the initializers are torn down in the order they were set up.
TornDownInOrder == initList[Len(initList) + 1 - pos]

\* rbegin() to rend()
TornDownNext == initList[pos]

\* Mutant: zone_mbuf still points to the zone that was destroyed.
ReleaseMocks(i) == [res EXCEPT ![i] = IF i \in Guarded THEN @ ELSE "none"]

\* Mutant: an initializer only takes down what this test has set up.
ReleaseOwn(i) == [res EXCEPT ![i] = IF @ = "stale" THEN @ ELSE "none"]

\* zone_mbuf = NULL, mockobj.reset()
Release(i) == [res EXCEPT ![i] = "none"]

\* The zone is dereferenced; NeverDestroysNothing says that it is there.
InitTearDown ==
  /\ phase = "tearingDown" /\ pos > 0
  /\ res' = Release(TornDownNext)
  /\ pos' = pos - 1
  /\ UNCHANGED <<initList, initialized, phase, cut>>

TearDownEnds ==
  /\ phase = "tearingDown" /\ pos = 0
  /\ phase' = "between"
  /\ UNCHANGED <<initList, initialized, pos, res, cut>>

Run ==
  \/ SetUp \/ InitSetUp \/ TestCaseSetUp \/ TestBody
  \/ TestCaseTearDown \/ TestCaseTearDownThrows \/ InitTearDown \/ TearDownEnds

Next == (\E i \in Inits : Construct(i)) \/ Run

\* googletest goes on to the next test: --gtest_repeat makes the program as
\* long as one likes.
Spec == Init /\ [][Next]_vars /\ WF_vars(Run)
-----------------------------------------------------------------------------
(* Correctness.                                                            *)

Live == {i \in Inits : res[i] # "none"}

\* A body that runs has every resource to itself: nothing that an earlier test
\* left behind, and MockObj() finds its mock.
BodyIsFresh == phase = "body" => \A i \in Registered : res[i] = "fresh"

\* No resource is ever there without all those of smaller keys, which it may be
\* built on: not while setting up or tearing down, and not after a test that
\* failed half-way, although ties may be sorted otherwise each time.
Nested == \A i \in Live : \A j \in Registered : Key[j] < Key[i] => j \in Live

\* MbufInit::TearDown is never called without a zone, although TearDown runs
\* after a SetUp that threw and goes over every registered initializer.
NeverDestroysNothing ==
  phase = "tearingDown" /\ pos > 0 =>
    (TornDownNext \in Guarded => TornDownNext \in Live)

\* "Previous testcase did not TearDown" is never a false accusation: SetUp
\* throws only when the TearDown of the test before was cut short.
StaleBlame == [][InitSetUp /\ phase' = "testTearDown" => cut]_vars

\* One TearDown that was cut short costs one test its body and no more: when
\* TestCaseTearDown no longer throws, and TestCaseSetUp does not, bodies run.
Throws == TestCaseTearDownThrows \/ (TestCaseSetUp /\ phase' = "testTearDown")

Recovers == <>[][~Throws]_vars => []<>(phase = "body")
=============================================================================
