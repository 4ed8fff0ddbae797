-------------------------- MODULE Lifecycle_proofs ---------------------------
(***************************************************************************)
(* The fixture, for any initializers: every body has fresh resources,      *)
(* resources are always nested, and a SetUp that refuses blames the right  *)
(* test.                                                                   *)
(***************************************************************************)
EXTENDS Lifecycle, FiniteSetTheorems, TLAPS

At(x) == initList[x]
Slots == 1..Len(initList)

\* An initializer is registered once.
Once == \A x, y \in Slots : x # y => At(x) # At(y)

\* The list is in order from the first SetUp of a test on.
Ranked == phase # "between" => \A x, y \in Slots : x < y => Key[At(x)] <= Key[At(y)]

\* Only registered initializers have resources.
Strangers == \A i \in Inits \ Registered : res[i] = "none"

\* The first SetUp finds nothing, so that it reaches the end of its loop.
Early == ~initialized => phase \in {"between", "settingUp"} /\ ~cut

\* Which resources are there. A cut short TearDown leaves all of them.
Between     == phase = "between" => \A x \in Slots : res[At(x)] # "none" <=> cut
SettingUp   == phase = "settingUp" =>
  /\ pos >= 1
  /\ \A x \in Slots : res[At(x)] = IF x < pos THEN "fresh" ELSE IF cut THEN "stale" ELSE "none"
InBody      == phase = "body" => \A x \in Slots : res[At(x)] = "fresh"
Ending      == phase = "testTearDown" => \A x \in Slots : res[At(x)] # "none"
TearingDown == phase = "tearingDown" =>
  ~cut /\ pos <= Len(initList) /\ \A x \in Slots : res[At(x)] # "none" <=> x <= pos

IInv ==
  /\ TypeOK /\ Once /\ Ranked /\ Strangers /\ Early
  /\ Between /\ SettingUp /\ InBody /\ Ending /\ TearingDown

\* The elements of a list without duplicates are as many as it is long.
LEMMA AsMany ==
  ASSUME NEW l \in Seq(Inits), \A x, y \in 1..Len(l) : x # y => l[x] # l[y]
  PROVE  IsFiniteSet(ToSet(l)) /\ Cardinality(ToSet(l)) = Len(l)
<1> DEFINE n == Len(l)
           T == ToSet(l)
<1>1. n \in Nat /\ l \in [1..n -> T] /\ \A t \in T : \E x \in 1..n : l[x] = t
  BY DEF ToSet
<1>2. IsFiniteSet(1..n) /\ Cardinality(1..n) = n
  <2> HIDE DEF n
  <2> QED  BY <1>1, FS_Interval
<1>3. l \in Surjection(1..n, T)  BY <1>1 DEF Surjection
<1>4. l \in Injection(1..n, T)  BY <1>1 DEF Injection, IsInjective
<1> QED  BY <1>2, <1>3, <1>4, FS_Surjection

\* What std::sort makes of a list is a rearrangement of it.
LEMMA Rearranged ==
  ASSUME NEW l \in Seq(Inits), \A x, y \in 1..Len(l) : x # y => l[x] # l[y],
         NEW s \in [1..Len(l) -> ToSet(l)], \A x, y \in 1..Len(l) : x < y => s[x] # s[y]
  PROVE  s \in Seq(Inits) /\ Len(s) = Len(l) /\ ToSet(s) = ToSet(l)
<1> DEFINE n == Len(l)
           T == ToSet(l)
<1>1. n \in Nat /\ T \subseteq Inits  BY DEF ToSet
<1>2. IsFiniteSet(T) /\ Cardinality(T) = n  BY AsMany
<1>3. Cardinality(1..n) = n
  <2> HIDE DEF n
  <2> QED  BY <1>1, FS_Interval
<1>4. s \in Injection(1..n, T)
  <2>1. ASSUME NEW x \in 1..n, NEW y \in 1..n, s[x] = s[y] PROVE x = y
    <3>1. x < y \/ y < x \/ x = y  BY <1>1
    <3> QED  BY <2>1, <3>1
  <2> HIDE DEF n, T
  <2>2. s \in [1..n -> T]  BY DEF n, T
  <2> QED  BY <2>1, <2>2 DEF Injection, IsInjective
<1>5. s \in Surjection(1..n, T)  BY <1>2, <1>3, <1>4, FS_Injection
<1>6. s \in Seq(Inits) /\ Len(s) = n  BY <1>1
<1>7. ToSet(s) = T
  <2> HIDE DEF n, T
  <2>1. s \in [1..n -> T] /\ \A t \in T : \E i \in 1..n : s[i] = t
    BY <1>5 DEF Surjection
  <2>2. DOMAIN s = 1..n  BY <2>1
  <2>3. \A i \in 1..n : s[i] \in T  BY <2>1
  <2>4. ToSet(s) = {s[i] : i \in 1..n}
    <3>1. ToSet(s) = {s[i] : i \in DOMAIN s}  BY DEF ToSet
    <3> QED  BY <2>2, <3>1
  <2>5. {s[i] : i \in 1..n} = T  BY <2>1, <2>3, Zenon
  <2> QED  BY <2>4, <2>5
<1> QED  BY <1>6, <1>7

\* Nothing is registered, and nothing is there.
LEMMA InitInv == Init => IInv
<1> SUFFICES ASSUME Init PROVE IInv  OBVIOUS
<1>1. /\ initList = <<>> /\ Slots = {} /\ phase = "between" /\ ~cut /\ pos = 0
      /\ initialized = FALSE /\ res = [i \in Inits |-> "none"]
  BY DEF Init, Slots
<1>2. TypeOK
  <2>1. initList \in Seq(Inits) /\ Len(initList) = 0  BY <1>1
  <2>2. res \in [Inits -> Resource]  BY <1>1 DEF Resource
  <2>3. pos \in 0..(Len(initList) + 1)  BY <1>1, <2>1
  <2>4. initialized \in BOOLEAN /\ cut \in BOOLEAN  BY Zenon DEF Init
  <2> QED  BY <1>1, <2>1, <2>2, <2>3, <2>4 DEF TypeOK, Phases
<1>3. Once /\ Ranked /\ Strangers /\ Early  BY <1>1 DEF Once, Ranked, Strangers, Early
<1>4. Between /\ SettingUp /\ InBody /\ Ending /\ TearingDown
  BY <1>1 DEF Between, SettingUp, InBody, Ending, TearingDown
<1> QED  BY <1>2, <1>3, <1>4 DEF IInv

\* The elements of the list are the registered initializers.
LEMMA Members ==
  ASSUME TypeOK
  PROVE  /\ Len(initList) \in Nat
         /\ \A x \in Slots : At(x) \in Inits /\ At(x) \in Registered
         /\ \A i \in Registered : i \in Inits /\ \E x \in Slots : i = At(x)
BY DEF TypeOK, Slots, At, Registered, ToSet

\* A new initializer comes last; once SetUp has run there are no new ones.
LEMMA ConstructInv ==
  ASSUME IInv, NEW i \in Inits, Construct(i)
  PROVE  IInv'
<1> USE DEF IInv
<1>1. CASE initialized
  <2>1. /\ UNCHANGED <<initList, initialized, pos, res, cut>>
        /\ phase' = IF phase = "body" THEN "testTearDown" ELSE phase
        /\ phase \in {"between", "body"}
    BY <1>1 DEF Construct, Enlist
  <2>2. Slots' = Slots /\ Registered' = Registered /\ \A x \in Slots : At(x)' = At(x)
    BY <2>1 DEF Slots, Registered, At
  <2>3. TypeOK'  BY <2>1 DEF TypeOK, Phases
  <2>4. Once' /\ Strangers' /\ Early'  BY <1>1, <2>1, <2>2 DEF Once, Strangers, Early
  <2>5. Ranked' /\ Between'  BY <2>1, <2>2 DEF Ranked, Between
  <2>6. SettingUp' /\ InBody' /\ Ending' /\ TearingDown'
    BY <2>1, <2>2 DEF SettingUp, InBody, Ending, TearingDown
  <2> QED  BY <2>3, <2>4, <2>5, <2>6
<1>2. CASE ~initialized
  <2>1. phase = "between" /\ ~cut /\ i \notin Registered  BY <1>2 DEF Construct, Early
  <2>2. /\ initList' = Append(initList, i)
        /\ UNCHANGED <<phase, initialized, pos, res, cut>>
    BY <1>2, <2>1 DEF Construct, Enlist
  <2>3. /\ initList' \in Seq(Inits) /\ Len(initList') = Len(initList) + 1
        /\ Slots' = Slots \cup {Len(initList) + 1}
        /\ \A x \in Slots : At(x)' = At(x)
        /\ initList'[Len(initList) + 1] = i
    BY <2>2 DEF TypeOK, Slots, At
  <2>4. \A x \in Slots : At(x) # i  BY <2>1, Members
  <2>5. Registered \subseteq Registered'  BY <2>2, <2>3 DEF Registered, ToSet, TypeOK, Slots, At
  <2>6. \A x \in Slots' : res[initList'[x]] = "none"
    <3>1. res[i] = "none"  BY <2>1 DEF Strangers
    <3>2. \A x \in Slots : res[At(x)] = "none"
      BY <2>1 DEF Between
    <3> QED  BY <2>3, <3>1, <3>2 DEF At
  <2>7. TypeOK'
    <3>1. pos \in 0..(Len(initList) + 2)  BY Members DEF TypeOK
    <3> QED  BY <2>2, <2>3, <3>1 DEF TypeOK
  <2>8. Once'
    <3> SUFFICES ASSUME NEW x \in Slots', NEW y \in Slots', x # y
                 PROVE  initList'[x] # initList'[y]
      BY DEF Once, At
    <3> QED  BY <2>3, <2>4 DEF Once, At
  <2>9. Strangers' /\ Early' /\ Ranked'
    BY <2>1, <2>2, <2>5 DEF Strangers, Early, Ranked
  <2>10. Between' /\ SettingUp' /\ InBody' /\ Ending' /\ TearingDown'
    BY <2>1, <2>2, <2>6 DEF Between, SettingUp, InBody, Ending, TearingDown, At
  <2> QED  BY <2>7, <2>8, <2>9, <2>10
<1> QED  BY <1>1, <1>2 DEF TypeOK

\* SetUp sorts; what is there is from an earlier test.
LEMMA SetUpInv ==
  ASSUME IInv, SetUp
  PROVE  IInv'
<1> USE DEF IInv
<1>1. /\ phase = "between" /\ phase' = "settingUp" /\ pos' = 1
      /\ UNCHANGED <<initialized, cut>>
      /\ res' = [i \in Inits |-> IF res[i] = "none" THEN "none" ELSE "stale"]
  BY DEF SetUp
<1>2. /\ initList \in Seq(Inits) /\ \A x, y \in 1..Len(initList) : x # y => initList[x] # initList[y]
      /\ initList' \in [1..Len(initList) -> ToSet(initList)]
      /\ \A x, y \in 1..Len(initList) :
            x < y => initList'[x] # initList'[y] /\ Key[initList'[x]] <= Key[initList'[y]]
  BY DEF SetUp, Sorted, TypeOK, Once, Slots, At, Registered
<1>3. initList' \in Seq(Inits) /\ Len(initList') = Len(initList) /\ ToSet(initList') = ToSet(initList)
  BY <1>2, Rearranged
<1>4. Slots' = Slots /\ Registered' = Registered  BY <1>3 DEF Slots, Registered
<1>5. TypeOK'
  <2>1. res' \in [Inits -> Resource]  BY <1>1 DEF Resource
  <2>2. Len(initList') \in Nat  BY <1>3, Members
  <2> QED  BY <1>1, <1>3, <2>1, <2>2 DEF TypeOK, Phases
<1>6. Once' /\ Ranked'
  <2>1. \A x, y \in Slots' : x # y => x < y \/ y < x  BY DEF Slots
  <2> QED  BY <1>2, <1>4, <2>1 DEF Once, Ranked, Slots, At
<1>7. Strangers' /\ Early'  BY <1>1, <1>4 DEF Strangers, Early
<1>8. SettingUp'
  <2> SUFFICES ASSUME NEW x \in Slots' PROVE res'[initList'[x]] = IF cut THEN "stale" ELSE "none"
    BY <1>1 DEF SettingUp, At, Slots
  <2>1. initList'[x] \in Registered  BY <1>2, <1>4 DEF Slots, Registered
  <2>2. PICK y \in Slots : initList'[x] = At(y)  BY <2>1, Members
  <2> QED  BY <1>1, <2>2, Members DEF Between
<1>9. Between' /\ InBody' /\ Ending' /\ TearingDown'
  BY <1>1 DEF Between, InBody, Ending, TearingDown
<1> QED  BY <1>5, <1>6, <1>7, <1>8, <1>9

\* Steps that leave the list alone.
LEMMA SameList ==
  ASSUME IInv, initList' = initList
  PROVE  /\ Slots' = Slots /\ Registered' = Registered
         /\ \A x \in Slots : At(x)' = At(x) /\ At(x) \in Inits
         /\ Once'
         /\ phase # "between" => Ranked'
         /\ res' = res => Strangers'
BY Members DEF Slots, Registered, At, Once, Ranked, Strangers, IInv

\* The loop of SetUp.
LEMMA InitSetUpInv ==
  ASSUME IInv, InitSetUp
  PROVE  IInv'
<1> USE DEF IInv
<1>1. /\ phase = "settingUp" /\ pos <= Len(initList) /\ pos \in Slots
      /\ UNCHANGED <<initList, initialized, cut>>
  BY Members DEF InitSetUp, TypeOK, SettingUp, Slots
<1>2. Once' /\ Ranked' /\ Slots' = Slots /\ Registered' = Registered
      /\ (\A x \in Slots : At(x)' = At(x) /\ At(x) \in Inits)
      /\ (res' = res => Strangers')
  BY <1>1, SameList
<1>3. CASE Refuses(At(pos)) /\ phase' = "testTearDown" /\ UNCHANGED <<pos, res>>
  <2>1. cut
    <3>1. ~(pos < pos) /\ res[At(pos)] # "none"  BY <1>1, <1>3 DEF Slots, Refuses
    <3> QED  BY <1>1, <3>1 DEF SettingUp
  <2>2. \A x \in Slots : res[At(x)] # "none"  BY <1>1, <2>1 DEF SettingUp
  <2>3. TypeOK'  BY <1>1, <1>3 DEF TypeOK, Phases
  <2>4. Early'  BY <1>1, <2>1 DEF Early
  <2>5. Between' /\ SettingUp' /\ InBody' /\ Ending' /\ TearingDown'
    BY <1>2, <1>3, <2>2 DEF Between, SettingUp, InBody, Ending, TearingDown
  <2> QED  BY <1>2, <1>3, <2>3, <2>4, <2>5
<1>4. CASE /\ res' = [res EXCEPT ![At(pos)] = "fresh"]
           /\ pos' = pos + 1 /\ UNCHANGED phase
  <2>1. TypeOK'
    <3>1. pos' \in 0..(Len(initList) + 1)  BY <1>1, <1>4, Members DEF TypeOK
    <3>2. res' \in [Inits -> Resource]  BY <1>4 DEF TypeOK, Resource
    <3> QED  BY <1>1, <1>4, <3>1, <3>2 DEF TypeOK
  <2>2. Strangers'
    <3>1. At(pos) \in Registered  BY <1>1, Members
    <3> QED  BY <1>2, <1>4, <3>1 DEF Strangers, TypeOK
  <2>3. SettingUp'
    <3>1. pos' >= 1  BY <1>1, <1>4 DEF TypeOK, SettingUp
    <3>2. ASSUME NEW x \in Slots
          PROVE  res'[At(x)] = IF x < pos' THEN "fresh" ELSE IF cut THEN "stale" ELSE "none"
      <4>1. x \in Int /\ pos \in Int /\ res[At(x)] = IF x < pos THEN "fresh" ELSE IF cut THEN "stale" ELSE "none"
        BY <1>1 DEF SettingUp, Slots, TypeOK
      <4>2. CASE x = pos  BY <1>2, <1>4, <4>1, <4>2 DEF TypeOK
      <4>3. CASE x # pos
        <5>1. At(x) # At(pos)  BY <1>1, <4>3 DEF Once
        <5>2. res'[At(x)] = res[At(x)]  BY <1>2, <1>4, <5>1 DEF TypeOK
        <5> QED  BY <1>4, <4>1, <4>3, <5>2
      <4> QED  BY <4>2, <4>3
    <3> QED  BY <1>1, <1>2, <3>1, <3>2 DEF SettingUp
  <2>4. Early' /\ Between' /\ InBody' /\ Ending' /\ TearingDown'
    BY <1>1, <1>4 DEF Early, Between, InBody, Ending, TearingDown
  <2> QED  BY <1>2, <2>1, <2>2, <2>3, <2>4
<1> QED  BY <1>3, <1>4 DEF InitSetUp, SetUpOne, At

\* The loop of TearDown.
LEMMA InitTearDownInv ==
  ASSUME IInv, InitTearDown
  PROVE  IInv'
<1> USE DEF IInv
<1>1. /\ phase = "tearingDown" /\ pos \in Slots /\ pos' = pos - 1
      /\ res' = [res EXCEPT ![At(pos)] = "none"]
      /\ UNCHANGED <<initList, initialized, phase, cut>>
  BY Members DEF InitTearDown, Release, TornDownNext, TypeOK, TearingDown, Slots, At
<1>2. Once' /\ Ranked' /\ Slots' = Slots /\ Registered' = Registered
      /\ (\A x \in Slots : At(x)' = At(x) /\ At(x) \in Inits)
  BY <1>1, SameList
<1>3. TypeOK'
  <2>1. pos' \in 0..(Len(initList) + 1)  BY <1>1, Members DEF TypeOK, Slots
  <2>2. res' \in [Inits -> Resource]  BY <1>1 DEF TypeOK, Resource
  <2> QED  BY <1>1, <2>1, <2>2 DEF TypeOK
<1>4. Strangers'  BY <1>1, <1>2 DEF Strangers, TypeOK
<1>5. TearingDown'
  <2>1. ~cut /\ pos' <= Len(initList)  BY <1>1, Members DEF TearingDown, Slots
  <2>2. ASSUME NEW x \in Slots PROVE res'[At(x)] # "none" <=> x <= pos'
    <3>1. x \in Int /\ pos \in Int /\ (res[At(x)] # "none" <=> x <= pos)
      BY <1>1 DEF TearingDown, Slots
    <3>2. CASE x = pos
      <4>1. res'[At(x)] = "none"  BY <1>1, <1>2, <3>2 DEF TypeOK
      <4> QED  BY <1>1, <3>1, <3>2, <4>1
    <3>3. CASE x # pos
      <4>1. At(x) # At(pos)  BY <1>1, <3>3 DEF Once
      <4>2. res'[At(x)] = res[At(x)]  BY <1>1, <1>2, <4>1 DEF TypeOK
      <4> QED  BY <1>1, <3>1, <3>3, <4>2
    <3> QED  BY <3>2, <3>3
  <2> QED  BY <1>1, <1>2, <2>1, <2>2 DEF TearingDown
<1>6. Early' /\ Between' /\ SettingUp' /\ InBody' /\ Ending'
  BY <1>1 DEF Early, Between, SettingUp, InBody, Ending
<1> QED  BY <1>2, <1>3, <1>4, <1>5, <1>6

\* What only moves on to another phase.
LEMMA PhaseInv ==
  ASSUME IInv,
         \/ TestCaseSetUp \/ TestBody \/ TestCaseTearDown \/ TestCaseTearDownThrows
         \/ TearDownEnds \/ UNCHANGED vars
  PROVE  IInv'
<1> USE DEF IInv
<1>1. initList' = initList /\ res' = res
  BY DEF TestCaseSetUp, TestBody, TestCaseTearDown, TestCaseTearDownThrows, TearDownEnds, vars
<1>2. Once' /\ Strangers' /\ Slots' = Slots /\ Registered' = Registered
      /\ (\A x \in Slots : At(x)' = At(x) /\ At(x) \in Inits)
      /\ (phase # "between" => Ranked')
  BY <1>1, SameList
<1>3. CASE TestCaseSetUp
  <2>1. phase = "settingUp" /\ pos > Len(initList) /\ initialized' = TRUE
        /\ phase' \in {"body", "testTearDown"} /\ UNCHANGED <<pos, cut>>
    BY <1>3 DEF TestCaseSetUp
  <2>2. \A x \in Slots : res[At(x)] = "fresh"
    BY <2>1, Members DEF SettingUp, Slots, TypeOK
  <2>3. TypeOK'
    <3>1. initialized' \in BOOLEAN  BY <2>1
    <3> QED  BY <1>1, <2>1, <3>1 DEF TypeOK, Phases
  <2>4. Early'  BY <2>1 DEF Early
  <2>5. Between' /\ SettingUp' /\ InBody' /\ Ending' /\ TearingDown'
    BY <1>1, <1>2, <2>1, <2>2 DEF Between, SettingUp, InBody, Ending, TearingDown
  <2> QED  BY <1>2, <2>1, <2>3, <2>4, <2>5
<1>4. CASE TestBody
  <2>1. phase = "body" /\ phase' = "testTearDown" /\ UNCHANGED <<initialized, pos, cut>>
    BY <1>4 DEF TestBody
  <2>2. TypeOK'  BY <1>1, <2>1 DEF TypeOK, Phases
  <2>3. Early' /\ Between' /\ SettingUp' /\ InBody' /\ Ending' /\ TearingDown'
    BY <1>1, <1>2, <2>1 DEF Early, Between, SettingUp, InBody, Ending, TearingDown
  <2> QED  BY <1>2, <2>1, <2>2, <2>3
<1>5. CASE TestCaseTearDown
  <2>1. phase = "testTearDown" /\ phase' = "tearingDown" /\ pos' = Len(initList)
        /\ ~cut' /\ cut' = FALSE /\ initialized' = initialized
    BY <1>5 DEF TestCaseTearDown
  <2>2. TypeOK'
    <3>1. pos' \in 0..(Len(initList) + 1)  BY <2>1, Members
    <3>2. cut' \in BOOLEAN  BY <2>1
    <3> QED  BY <1>1, <2>1, <3>1, <3>2 DEF TypeOK, Phases
  <2>3. TearingDown'
    BY <1>1, <1>2, <2>1, Members DEF Ending, TearingDown, Slots
  <2>4. Early' /\ Between' /\ SettingUp' /\ InBody' /\ Ending'
    BY <2>1 DEF Early, Between, SettingUp, InBody, Ending
  <2> QED  BY <1>2, <2>1, <2>2, <2>3, <2>4
<1>6. CASE TestCaseTearDownThrows
  <2>1. phase = "testTearDown" /\ phase' = "between" /\ pos' = 0
        /\ cut' /\ cut' = TRUE /\ initialized' = initialized
    BY <1>6 DEF TestCaseTearDownThrows
  <2>2. TypeOK'
    <3>1. pos' \in 0..(Len(initList) + 1)  BY <2>1, Members
    <3>2. cut' \in BOOLEAN  BY <2>1
    <3> QED  BY <1>1, <2>1, <3>1, <3>2 DEF TypeOK, Phases
  <2>3. Ranked' /\ Early' /\ SettingUp' /\ InBody' /\ Ending' /\ TearingDown'
    BY <2>1 DEF Ranked, Early, SettingUp, InBody, Ending, TearingDown
  <2>4. Between'  BY <1>1, <1>2, <2>1 DEF Ending, Between
  <2> QED  BY <1>2, <2>2, <2>3, <2>4
<1>7. CASE TearDownEnds
  <2>1. phase = "tearingDown" /\ pos = 0 /\ phase' = "between"
        /\ UNCHANGED <<initialized, pos, cut>>
    BY <1>7 DEF TearDownEnds
  <2>2. TypeOK'  BY <1>1, <2>1 DEF TypeOK, Phases
  <2>3. Ranked' /\ Early' /\ SettingUp' /\ InBody' /\ Ending' /\ TearingDown'
    BY <2>1 DEF Ranked, Early, SettingUp, InBody, Ending, TearingDown
  <2>4. \A x \in Slots : ~(x <= 0)  BY DEF Slots
  <2>5. Between'  BY <1>1, <1>2, <2>1, <2>4 DEF TearingDown, Between
  <2> QED  BY <1>2, <2>2, <2>3, <2>5
<1>8. CASE UNCHANGED vars
  <2>1. UNCHANGED <<initList, initialized, phase, pos, res, cut>>  BY <1>8 DEF vars
  <2>2. TypeOK' /\ Ranked' /\ Early'  BY <1>2, <2>1 DEF TypeOK, Ranked, Early
  <2>3. Between' /\ SettingUp' /\ InBody' /\ Ending' /\ TearingDown'
    BY <1>2, <2>1 DEF Between, SettingUp, InBody, Ending, TearingDown
  <2> QED  BY <1>2, <2>2, <2>3
<1> QED  BY <1>3, <1>4, <1>5, <1>6, <1>7, <1>8

LEMMA NextInv == IInv /\ [Next]_vars => IInv'
<1> SUFFICES ASSUME IInv, [Next]_vars PROVE IInv'  OBVIOUS
<1>1. ASSUME NEW i \in Inits, Construct(i) PROVE IInv'  BY <1>1, ConstructInv
<1> QED  BY <1>1, SetUpInv, InitSetUpInv, InitTearDownInv, PhaseInv DEF Next, Run

LEMMA Inductive == Spec => []IInv
BY InitInv, NextInv, PTL DEF Spec
-----------------------------------------------------------------------------
\* The variables of the fixture have their types; pos stays in the list.
THEOREM TypeCorrect == Spec => []TypeOK
<1>1. IInv => TypeOK  BY DEF IInv
<1> QED  BY Inductive, <1>1, PTL

\* A body finds exactly what its own SetUp has made (init.cpp:69-76): nothing is
\* missing, and nothing is left from a test whose TearDown was cut short.
THEOREM FreshBodies == Spec => []BodyIsFresh
<1>1. IInv => BodyIsFresh  BY Members DEF IInv, InBody, BodyIsFresh
<1> QED  BY Inductive, <1>1, PTL

\* Resources are nested by their keys in every state, for any keys, with any ties.
THEOREM NestedResources == Spec => []Nested
<1>1. IInv => Nested
  <2> SUFFICES ASSUME IInv, NEW i \in Inits, res[i] # "none", NEW j \in Registered,
                      Key[j] < Key[i]
               PROVE  res[j] # "none"
    BY Members DEF Nested, Live, IInv
  <2> USE DEF IInv
  <2>1. i \in Registered  BY DEF Strangers
  <2>2. PICK x \in Slots : i = At(x)  BY <2>1, Members
  <2>3. PICK y \in Slots : j = At(y)  BY Members
  <2>4. phase # "between" => y < x
    <3> SUFFICES ASSUME phase # "between", ~(y < x) PROVE FALSE  OBVIOUS
    <3>1. x \in Int /\ y \in Int /\ x # y /\ Key[i] \in Int /\ Key[j] \in Int
      BY <2>2, <2>3, Members, LifecycleAssumption DEF Slots
    <3>2. Key[At(x)] <= Key[At(y)]  BY <3>1 DEF Ranked
    <3> QED  BY <2>2, <2>3, <3>1, <3>2
  <2>5. x \in Int /\ y \in Int /\ pos \in Int  BY DEF Slots, TypeOK
  <2>6. CASE phase = "between"  BY <2>2, <2>3, <2>6 DEF Between
  <2>7. CASE phase = "settingUp"  BY <2>2, <2>3, <2>4, <2>5, <2>7 DEF SettingUp
  <2>8. CASE phase \in {"body", "testTearDown"}  BY <2>3, <2>8 DEF InBody, Ending
  <2>9. CASE phase = "tearingDown"  BY <2>2, <2>3, <2>4, <2>5, <2>9 DEF TearingDown
  <2> QED  BY <2>6, <2>7, <2>8, <2>9 DEF TypeOK, Phases
<1> QED  BY Inductive, <1>1, PTL

\* MbufInit::TearDown finds its zone (init.cpp:78-85), also after a SetUp that
\* threw half-way.
THEOREM NothingDestroyed == Spec => []NeverDestroysNothing
<1>1. IInv => NeverDestroysNothing
  <2> SUFFICES ASSUME IInv, phase = "tearingDown", pos > 0 PROVE TornDownNext \in Live
    BY DEF NeverDestroysNothing
  <2>1. pos \in Slots  BY Members DEF IInv, TypeOK, TearingDown, Slots
  <2>2. pos <= pos  BY <2>1 DEF Slots
  <2>3. res[At(pos)] # "none" /\ At(pos) \in Inits  BY <2>1, <2>2, Members DEF IInv, TearingDown
  <2> QED  BY <2>3 DEF TornDownNext, Live, At
<1> QED  BY Inductive, <1>1, PTL

\* A SetUp that refuses has found what a cut short TearDown left (the messages
\* "Previous testcase did not TearDown" in the initializers).
THEOREM RightBlame == Spec => StaleBlame
<1>1. IInv /\ [Next]_vars => [InitSetUp /\ phase' = "testTearDown" => cut]_vars
  <2> SUFFICES ASSUME IInv, InitSetUp, phase' = "testTearDown" PROVE cut  OBVIOUS
  <2>1. phase = "settingUp" /\ pos \in Slots
    BY Members DEF InitSetUp, IInv, TypeOK, SettingUp, Slots
  <2>2. Refuses(At(pos))  BY <2>1 DEF InitSetUp, SetUpOne, At
  <2>3. ~(pos < pos)  BY <2>1 DEF Slots
  <2> QED  BY <2>1, <2>2, <2>3 DEF IInv, SettingUp, Refuses
<1> QED  BY Inductive, <1>1, PTL DEF Spec, StaleBlame
=============================================================================
