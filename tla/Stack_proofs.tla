----------------------------- MODULE Stack_proofs -----------------------------
(***************************************************************************)
(* For stacks of any headers, any depth and any widths: types, the header  *)
(* that a layer and a nesting select, the types that name the header       *)
(* inside, and the lengths that count the bytes inside.                    *)
(*                                                                         *)
(* The invariant IInv says that the stack compiles and that each field     *)
(* propagation writes has the value that its neighbour gives it. The       *)
(* propagations and the search are recursive functions; that such a        *)
(* function exists, and what it returns, is proved by induction over sets  *)
(* of indices, which follows from the well-foundedness of < on Nat.        *)
(***************************************************************************)
EXTENDS Stack, FiniteSetTheorems, WellFoundedInduction, TLAPS

-----------------------------------------------------------------------------
(* Induction.                                                              *)

\* Every set of numbers that is not empty has a least element.
LEMMA LeastElement ==
  ASSUME NEW T \in SUBSET Nat, T # {}
  PROVE  \E n \in T : \A m \in T : n <= m
<1> DEFINE R == OpToRel(<, Nat)
<1>1. IsWellFoundedOn(R, Nat)  BY NatLessThanWellFounded
<1>2. \A x, y \in Nat : <<x, y>> \in R <=> x < y  BY DEF OpToRel
<1> HIDE DEF R
<1>3. PICK n \in T : \A m \in T : ~ (<<m, n>> \in R)  BY <1>1, WFMin
<1>4. \A m \in T : n <= m
  <2> SUFFICES ASSUME NEW m \in T PROVE n <= m  OBVIOUS
  <2>1. m \in Nat /\ n \in Nat /\ ~(m < n)  BY <1>2, <1>3
  <2> QED  BY <2>1
<1> QED  BY <1>4

\* A set with 0 and with the successor of each of its members has all numbers.
LEMMA Induction ==
  ASSUME NEW S \in SUBSET Nat, 0 \in S, \A n \in S : n + 1 \in S
  PROVE  S = Nat
<1> SUFFICES ASSUME S # Nat PROVE FALSE  OBVIOUS
<1>1. PICK n \in Nat \ S : \A m \in Nat \ S : n <= m
  <2>1. Nat \ S # {} /\ Nat \ S \in SUBSET Nat  OBVIOUS
  <2> QED  BY <2>1, LeastElement
<1>2. n - 1 \in Nat /\ ~(n <= n - 1) /\ (n - 1) + 1 = n  BY <1>1
<1>3. n - 1 \in S  BY <1>1, <1>2
<1> QED  BY <1>1, <1>2, <1>3

\* The same from 1 up to n, and from n down to 1.
LEMMA UpTo ==
  ASSUME NEW n \in Nat, NEW S, n # 0 => 1 \in S, \A i \in 1..(n - 1) : i \in S => i + 1 \in S
  PROVE  1..n \subseteq S
<1> DEFINE T == {k \in Nat : k + 1 \in 1..n => k + 1 \in S}
<1>1. 0 \in T  OBVIOUS
<1>2. ASSUME NEW k \in T PROVE k + 1 \in T
  <2> SUFFICES ASSUME (k + 1) + 1 \in 1..n PROVE (k + 1) + 1 \in S  OBVIOUS
  <2>1. k + 1 \in 1..(n - 1)  OBVIOUS
  <2> QED  BY <2>1
<1>3. T = Nat
  <2>1. T \in SUBSET Nat  OBVIOUS
  <2> HIDE DEF T
  <2> QED  BY <1>1, <1>2, <2>1, Induction
<1>4. ASSUME NEW i \in 1..n PROVE i \in S
  <2>1. i - 1 \in T /\ (i - 1) + 1 = i  BY <1>3
  <2> QED  BY <2>1
<1> QED  BY <1>4

LEMMA DownFrom ==
  ASSUME NEW n \in Nat, NEW S, n # 0 => n \in S, \A i \in 1..(n - 1) : i + 1 \in S => i \in S
  PROVE  1..n \subseteq S
<1> DEFINE T == {i \in 1..n : n + 1 - i \in S}
<1>1. n # 0 => 1 \in T  OBVIOUS
<1>2. ASSUME NEW i \in 1..(n - 1), i \in T PROVE i + 1 \in T
  <2>1. n - i \in 1..(n - 1) /\ (n - i) + 1 = n + 1 - i /\ n + 1 - (i + 1) = n - i  OBVIOUS
  <2>2. n - i \in S  BY <1>2, <2>1
  <2> QED  BY <2>1, <2>2
<1>3. 1..n \subseteq T
  <2> HIDE DEF T
  <2> QED  BY <1>1, <1>2, UpTo
<1>4. ASSUME NEW i \in 1..n PROVE i \in S
  <2>1. n + 1 - i \in 1..n /\ n + 1 - (n + 1 - i) = i  OBVIOUS
  <2> QED  BY <1>3, <2>1
<1> QED  BY <1>4

\* f is defined by recursion from 1 up to n, or from n down to 1: c is where it
\* starts, D[i] the step from the neighbour of i to i.
Ascends(f, n, c, D)  == \A i \in 1..n : f[i] = IF i = 1 THEN c ELSE D[i][f[i - 1]]
Descends(f, n, c, D) == \A i \in 1..n : f[i] = IF i = n THEN c ELSE D[i][f[i + 1]]

\* A function defined by recursion upwards exists, and so does one defined downwards,
\* when the steps stay in a set V.
LEMMA Ascending ==
  ASSUME NEW n \in Nat, NEW V, NEW c \in V, NEW D \in [1..n -> [V -> V]]
  PROVE  \E f \in [1..n -> V] : Ascends(f, n, c, D)
<1> DEFINE S == {k \in Nat : k <= n => \E f \in [1..k -> V] : Ascends(f, k, c, D)}
<1>1. 0 \in S
  <2>1. [i \in 1..0 |-> c] \in [1..0 -> V] /\ Ascends([i \in 1..0 |-> c], 0, c, D)
    BY DEF Ascends
  <2> QED  BY <2>1
<1>2. ASSUME NEW k \in S PROVE k + 1 \in S
  <2> SUFFICES ASSUME k + 1 <= n PROVE \E g \in [1..(k + 1) -> V] : Ascends(g, k + 1, c, D)
    OBVIOUS
  <2>1. PICK f \in [1..k -> V] : Ascends(f, k, c, D)  OBVIOUS
  <2> DEFINE last == IF k = 0 THEN c ELSE D[k + 1][f[k]]
             g == [i \in 1..(k + 1) |-> IF i = k + 1 THEN last ELSE f[i]]
  <2>2. last \in V
    <3>1. CASE k = 0  BY <3>1
    <3>2. CASE k # 0
      <4>1. k \in 1..k /\ k + 1 \in 1..n  BY <3>2
      <4>2. f[k] \in V /\ D[k + 1] \in [V -> V]  BY <4>1
      <4> QED  BY <3>2, <4>2
    <3> QED  BY <3>1, <3>2
  <2> HIDE DEF last
  <2>3. g \in [1..(k + 1) -> V]  BY <2>2
  <2>4. ASSUME NEW i \in 1..(k + 1)
        PROVE  g[i] = IF i = 1 THEN c ELSE D[i][g[i - 1]]
    <3>1. CASE i = k + 1 /\ k = 0  BY <3>1 DEF last
    <3>2. CASE i = k + 1 /\ k # 0
      <4>1. i - 1 = k /\ i # 1 /\ k \in 1..(k + 1) /\ k # k + 1  BY <3>2
      <4>2. g[k] = f[k] /\ g[i] = last  BY <3>2, <4>1
      <4> QED  BY <3>2, <4>1, <4>2 DEF last
    <3>3. CASE i # k + 1
      <4>1. i \in 1..k /\ g[i] = f[i]  BY <3>3
      <4>2. f[i] = IF i = 1 THEN c ELSE D[i][f[i - 1]]  BY <2>1, <4>1 DEF Ascends
      <4>3. i # 1 => i - 1 \in 1..(k + 1) /\ i - 1 # k + 1  BY <4>1
      <4>4. i # 1 => g[i - 1] = f[i - 1]  BY <4>3
      <4> QED  BY <4>1, <4>2, <4>4
    <3> QED  BY <3>1, <3>2, <3>3
  <2> HIDE DEF g
  <2>5. Ascends(g, k + 1, c, D)  BY <2>4 DEF Ascends
  <2> QED  BY <2>3, <2>5
<1>3. n \in S
  <2> HIDE DEF S
  <2>1. S \in SUBSET Nat  BY DEF S
  <2> QED  BY <1>1, <1>2, <2>1, Induction
<1> QED  BY <1>3

LEMMA Descending ==
  ASSUME NEW n \in Nat, NEW V, NEW c \in V, NEW D \in [1..n -> [V -> V]]
  PROVE  \E f \in [1..n -> V] : Descends(f, n, c, D)
<1> DEFINE E == [i \in 1..n |-> D[n + 1 - i]]
<1>1. E \in [1..n -> [V -> V]]
  <2>1. \A i \in 1..n : n + 1 - i \in 1..n  OBVIOUS
  <2> QED  BY <2>1
<1>2. PICK g \in [1..n -> V] : Ascends(g, n, c, E)
  <2> HIDE DEF E
  <2> QED  BY <1>1, Ascending
<1> DEFINE f == [i \in 1..n |-> g[n + 1 - i]]
<1>3. f \in [1..n -> V]
  <2>1. \A i \in 1..n : n + 1 - i \in 1..n  OBVIOUS
  <2> QED  BY <2>1
<1>4. ASSUME NEW i \in 1..n PROVE f[i] = IF i = n THEN c ELSE D[i][f[i + 1]]
  <2> DEFINE j == n + 1 - i
  <2>1. j \in 1..n /\ (j = 1 <=> i = n) /\ n + 1 - j = i  OBVIOUS
  <2>2. f[i] = g[j]  OBVIOUS
  <2>3. i # n => i + 1 \in 1..n /\ n + 1 - (i + 1) = j - 1  OBVIOUS
  <2>4. i # n => f[i + 1] = g[j - 1]  BY <2>3
  <2>5. E[j] = D[i]  BY <2>1
  <2> HIDE DEF f, E, j
  <2> QED  BY <1>2, <2>1, <2>2, <2>4, <2>5 DEF Ascends
<1> HIDE DEF f
<1> QED  BY <1>3, <1>4 DEF Descends
-----------------------------------------------------------------------------
(* Propagation.                                                            *)

Size == 0..(SizeMod - 1)

Header ==
  {h \in [kind : Kinds, localMtu : Size, outerMtu : Size, type : Kinds \cup {"none"}, len : Size] :
     LayerOf[h.kind] = "L3" => h.len < U16}

\* What propagation makes of header h, given its neighbour.
Inward(h, outer) == [h EXCEPT !.outerMtu = Wrap(GetMtu(outer) - GetLen(outer))]

\* The kinds of headers, and the range of size_t.
LEMMA KindSet == Kinds = {"eth", "ip4", "ip6", "tcp", "pay"}
  BY DEF Kinds, LayerOf

LEMMA WrapType == \A x \in Int : Wrap(x) \in Size
  BY StackAssumption DEF Wrap, Size

\* The lengths of a header.
LEMMA Lengths ==
  ASSUME NEW h \in Header
  PROVE  GetMtu(h) \in Size /\ GetLen(h) \in Nat /\ GetPayloadLength(h) \in Nat
<1>1. GetMtu(h) \in Size  BY DEF Header, GetMtu, Least
<1>2. GetLen(h) \in Nat
  <2>1. h.kind # "pay" => HdrLen[h.kind] \in Nat
    BY KindSet, StackAssumption DEF Header
  <2> QED  BY <2>1 DEF Header, GetLen, Least, Size
<1>3. GetPayloadLength(h) \in Nat
  <2>1. h.len \in Nat /\ h.kind \in Kinds  BY DEF Header, Size
  <2>2. Wrap(h.len - GetLen(h)) \in Nat /\ Wrap(GetMtu(h) - GetLen(h)) \in Nat
    BY <1>1, <1>2, <2>1, WrapType DEF Size
  <2> QED  BY <2>1, <2>2 DEF GetPayloadLength, Least
<1> QED  BY <1>1, <1>2, <1>3

\* Propagation takes headers to headers, and says what of them it changes.
LEMMA InwardType ==
  ASSUME NEW h \in Header, NEW outer \in Header
  PROVE  Inward(h, outer) \in Header
<1>1. Wrap(GetMtu(outer) - GetLen(outer)) \in Size
  BY Lengths, WrapType DEF Size
<1> QED  BY <1>1 DEF Header, Inward

LEMMA OutwardType ==
  ASSUME NEW outer \in Header, NEW inner \in Header
  PROVE  LET e == Encapsulates(outer, inner)
             n == Wrap(GetLen(inner) + GetPayloadLength(inner))
         IN  /\ e \in Header /\ n \in Size
             /\ e.kind = outer.kind /\ e.localMtu = outer.localMtu /\ e.outerMtu = outer.outerMtu
             /\ e.len = SetPayloadLength(outer, n).len
             /\ LayerOf[inner.kind] \in {"L3", "L4"} => e.type = inner.kind
             /\ LayerOf[inner.kind] \notin {"L3", "L4"} => e.type = outer.type
<1> DEFINE n == Wrap(GetLen(inner) + GetPayloadLength(inner))
           o == SetPayloadLength(outer, n)
<1>1. n \in Size  BY Lengths, WrapType
<1>2. o.len \in Size /\ (LayerOf[outer.kind] = "L3" => o.len < U16)
  <2> HIDE DEF n
  <2>0. \A x \in Nat : x % U16 \in 0..(U16 - 1)  BY StackAssumption
  <2>1. \A x \in Nat : x % U16 \in Size /\ x % U16 < U16  BY <2>0, StackAssumption DEF Size
  <2>2. outer.kind = "ip4" => o.len = (GetLen(outer) + n) % U16
    BY DEF SetPayloadLength, Header
  <2>3. outer.kind = "ip6" => o.len = n % U16
    BY DEF SetPayloadLength, Header
  <2>4. outer.kind \notin {"ip4", "ip6"} => o.len = n /\ LayerOf[outer.kind] # "L3"
    BY KindSet DEF SetPayloadLength, Header, LayerOf
  <2>5. GetLen(outer) + n \in Nat /\ n \in Nat  BY <1>1, Lengths DEF Size
  <2> HIDE DEF o
  <2> QED  BY <1>1, <2>1, <2>2, <2>3, <2>4, <2>5
<1>3. o = [outer EXCEPT !.len = o.len]
  BY DEF SetPayloadLength, Header
<1>4. o \in Header
  <2> HIDE DEF o
  <2> QED  BY <1>2, <1>3 DEF Header
<1>5. Encapsulates(outer, inner) = SetType(o, inner)  BY DEF Encapsulates
<1>6. o.kind = outer.kind /\ o.localMtu = outer.localMtu /\ o.outerMtu = outer.outerMtu
      /\ o.type = outer.type
  BY <1>3 DEF Header
<1> HIDE DEF o, n
<1>7. inner.kind \in Kinds  BY DEF Header
<1> QED  BY <1>1, <1>4, <1>5, <1>6, <1>7 DEF SetType, Header, o, n

\* The recursive functions of the two propagations exist and obey their equations.
LEMMA Inwards ==
  ASSUME NEW s \in Seq(Header), Len(s) # 0
  PROVE  LET t == PropagateInwards(s)
         IN  /\ t \in Seq(Header) /\ Len(t) = Len(s) /\ t[1] = s[1]
             /\ \A i \in 2..Len(s) : t[i] = Inward(s[i], t[i - 1])
<1> DEFINE n == Len(s)
           F(f) == [i \in DOMAIN s |->
                      IF i = 1 THEN s[1]
                      ELSE LET outer == f[i - 1]
                           IN  [s[i] EXCEPT !.outerMtu = Wrap(GetMtu(outer) - GetLen(outer))]]
           inward == CHOOSE f : f = F(f)
           D == [i \in 1..n |-> [h \in Header |-> Inward(s[i], h)]]
<1>1. n \in Nat /\ 1 \in 1..n /\ DOMAIN s = 1..n /\ \A i \in 1..n : s[i] \in Header
  OBVIOUS
<1>2. D \in [1..n -> [Header -> Header]]
  <2>1. \A i \in 1..n : [h \in Header |-> Inward(s[i], h)] \in [Header -> Header]
    BY <1>1, InwardType
  <2> HIDE DEF n
  <2> QED  BY <2>1
<1>3. PICK g \in [1..n -> Header] : Ascends(g, n, s[1], D)
  <2> HIDE DEF D, n
  <2> QED  BY <1>1, <1>2, Ascending
<1>4. g = F(g)
  <2>1. ASSUME NEW i \in 1..n
        PROVE  g[i] = IF i = 1 THEN s[1] ELSE Inward(s[i], g[i - 1])
    <3>1. g[i] = IF i = 1 THEN s[1] ELSE D[i][g[i - 1]]  BY <1>3 DEF Ascends
    <3>2. i # 1 => g[i - 1] \in Header
      <4>1. i # 1 => i - 1 \in 1..n  BY <1>1
      <4> QED  BY <4>1
    <3> QED  BY <3>1, <3>2
  <2>2. g = [i \in 1..n |-> g[i]]  OBVIOUS
  <2> HIDE DEF n
  <2> QED  BY <1>1, <2>1, <2>2, Zenon DEF Inward
<1>5. inward = F(inward)  BY <1>4
<1>6. PropagateInwards(s) = [i \in DOMAIN s |-> inward[i]]  BY DEF PropagateInwards
<1> HIDE DEF inward, n
<1>7. \A i \in 1..n : inward[i] = IF i = 1 THEN s[1] ELSE Inward(s[i], inward[i - 1])
  BY <1>1, <1>5, Zenon DEF Inward
<1> HIDE DEF F
<1>8. 1..n \subseteq {i \in 1..n : inward[i] \in Header}
  <2> DEFINE S == {i \in 1..n : inward[i] \in Header}
  <2>1. 1 \in S  BY <1>1, <1>7
  <2>2. ASSUME NEW i \in 1..(n - 1), i \in S PROVE i + 1 \in S
    <3>1. i + 1 \in 1..n /\ i + 1 # 1 /\ (i + 1) - 1 = i  BY <1>1
    <3>2. inward[i + 1] = Inward(s[i + 1], inward[i])  BY <1>7, <3>1
    <3> QED  BY <1>1, <2>2, <3>1, <3>2, InwardType
  <2> HIDE DEF S
  <2>3. 1..n \subseteq S  BY <1>1, <2>1, <2>2, UpTo
  <2> QED  BY <2>3 DEF S
<1> DEFINE t == PropagateInwards(s)
<1>9. t = [i \in 1..n |-> inward[i]]  BY <1>1, <1>6
<1> HIDE DEF t
<1>10. t \in Seq(Header) /\ Len(t) = n
  <2>1. t \in [1..n -> Header]  BY <1>8, <1>9
  <2> QED  BY <1>1, <1>9, <2>1
<1>11. t[1] = s[1]  BY <1>1, <1>7, <1>9
<1>12. ASSUME NEW i \in 2..n PROVE t[i] = Inward(s[i], t[i - 1])
  <2>1. i \in 1..n /\ i - 1 \in 1..n /\ i # 1  BY <1>1
  <2> QED  BY <1>7, <1>9, <2>1
<1> QED  BY <1>10, <1>11, <1>12 DEF t, n

LEMMA Outwards ==
  ASSUME NEW s \in Seq(Header), Len(s) # 0
  PROVE  LET t == PropagateOutwards(s)
         IN  /\ t \in Seq(Header) /\ Len(t) = Len(s) /\ t[Len(s)] = s[Len(s)]
             /\ \A i \in 1..(Len(s) - 1) : t[i] = Encapsulates(s[i], t[i + 1])
<1> DEFINE n == Len(s)
           F(f) == [i \in DOMAIN s |-> IF i = Len(s) THEN s[i] ELSE Encapsulates(s[i], f[i + 1])]
           outward == CHOOSE f : f = F(f)
           D == [i \in 1..n |-> [h \in Header |-> Encapsulates(s[i], h)]]
<1>1. n \in Nat /\ n \in 1..n /\ DOMAIN s = 1..n /\ \A i \in 1..n : s[i] \in Header
  OBVIOUS
<1>2. D \in [1..n -> [Header -> Header]]
  <2>1. \A i \in 1..n : [h \in Header |-> Encapsulates(s[i], h)] \in [Header -> Header]
    BY <1>1, OutwardType
  <2> HIDE DEF n
  <2> QED  BY <2>1
<1>3. PICK g \in [1..n -> Header] : Descends(g, n, s[n], D)
  <2> HIDE DEF D, n
  <2> QED  BY <1>1, <1>2, Descending
<1>4. g = F(g)
  <2>1. ASSUME NEW i \in 1..n
        PROVE  g[i] = IF i = n THEN s[i] ELSE Encapsulates(s[i], g[i + 1])
    <3>1. g[i] = IF i = n THEN s[n] ELSE D[i][g[i + 1]]  BY <1>3 DEF Descends
    <3>2. i # n => g[i + 1] \in Header
      <4> HIDE DEF n
      <4>1. i # n => i + 1 \in 1..n  BY <1>1
      <4> QED  BY <4>1
    <3> QED  BY <3>1, <3>2
  <2>2. g = [i \in 1..n |-> g[i]]  OBVIOUS
  <2> QED  BY <1>1, <2>1, <2>2, Zenon
<1>5. outward = F(outward)  BY <1>4
<1>6. PropagateOutwards(s) = [i \in DOMAIN s |-> outward[i]]  BY DEF PropagateOutwards
<1> HIDE DEF outward
<1>7. \A i \in 1..n : outward[i] = IF i = n THEN s[i] ELSE Encapsulates(s[i], outward[i + 1])
  BY <1>1, <1>5, Zenon
<1> HIDE DEF F, n
<1>8. 1..n \subseteq {i \in 1..n : outward[i] \in Header}
  <2> DEFINE S == {i \in 1..n : outward[i] \in Header}
  <2>1. n \in S  BY <1>1, <1>7
  <2>2. ASSUME NEW i \in 1..(n - 1), i + 1 \in S PROVE i \in S
    <3>1. i \in 1..n /\ i + 1 \in 1..n /\ i # n  BY <1>1
    <3>2. outward[i] = Encapsulates(s[i], outward[i + 1])  BY <1>7, <3>1
    <3> QED  BY <1>1, <2>2, <3>1, <3>2, OutwardType
  <2> HIDE DEF S
  <2>3. 1..n \subseteq S  BY <1>1, <2>1, <2>2, DownFrom
  <2> QED  BY <2>3 DEF S
<1> DEFINE t == PropagateOutwards(s)
<1>9. t = [i \in 1..n |-> outward[i]]  BY <1>1, <1>6
<1> HIDE DEF t
<1>10. t \in Seq(Header) /\ Len(t) = n
  <2>1. t \in [1..n -> Header]  BY <1>8, <1>9
  <2> QED  BY <1>1, <1>9, <2>1
<1>11. t[n] = s[n]  BY <1>1, <1>7, <1>9
<1>12. ASSUME NEW i \in 1..(n - 1) PROVE t[i] = Encapsulates(s[i], t[i + 1])
  <2>1. i \in 1..n /\ i + 1 \in 1..n /\ i # n  BY <1>1
  <2> QED  BY <1>7, <1>9, <2>1
<1> QED  BY <1>10, <1>11, <1>12 DEF t, n
-----------------------------------------------------------------------------
(* The invariant.                                                          *)

\* A stack that compiles.
WellFormed(s) ==
  /\ s \in Seq(Header) /\ Len(s) # 0
  /\ \A i \in 1..(Len(s) - 1) : MayHold(s[i].kind, s[i + 1].kind)

\* The header a propagation starts from: no MTU bounds it from outside.
Outermost(h) == h.outerMtu = DefaultMtu

\* The innermost header still has the length its constructor gave it, unless it
\* is a payload.
Innermost(h) == h.kind # "pay" => h.len = IF h.kind = "ip4" THEN HdrLen["ip4"] ELSE 0

\* The length a header of kind k stores when n bytes are inside it.
LenOver(k, n) ==
  CASE k = "ip4" -> (HdrLen["ip4"] + n) % U16 [] k = "ip6" -> n % U16 [] OTHER -> n

MtusFlow(s) ==
  \A i \in 2..Len(s) : s[i].outerMtu = Wrap(GetMtu(s[i - 1]) - GetLen(s[i - 1]))

LengthsFlow(s) ==
  \A i \in 1..(Len(s) - 1) :
    s[i].len = LenOver(s[i].kind, Wrap(GetLen(s[i + 1]) + GetPayloadLength(s[i + 1])))

TypesFlow(s) ==
  \A i \in 1..(Len(s) - 1) :
    LayerOf[s[i + 1].kind] \in {"L3", "L4"} => s[i].type = s[i + 1].kind

Settled(s) ==
  /\ WellFormed(s) /\ Outermost(s[1]) /\ Innermost(s[Len(s)])
  /\ MtusFlow(s) /\ LengthsFlow(s) /\ TypesFlow(s)

\* Nothing is inside a payload.
LEMMA PayloadInnermost ==
  ASSUME NEW s, WellFormed(s), NEW i \in 1..(Len(s) - 1)
  PROVE  s[i].kind # "pay" /\ i \in 1..Len(s) /\ i + 1 \in 1..Len(s)
         /\ s[i] \in Header /\ s[i + 1] \in Header
<1>1. i \in 1..Len(s) /\ i + 1 \in 1..Len(s)  BY DEF WellFormed
<1> QED  BY <1>1 DEF WellFormed, MayHold

\* Whatever was edited, propagation settles the stack, and changes neither the kinds
\* of the headers nor their own MTUs.
LEMMA PropagateSettles ==
  ASSUME NEW s, WellFormed(s), Outermost(s[1]), Innermost(s[Len(s)])
  PROVE  /\ Settled(Propagate(s)) /\ Len(Propagate(s)) = Len(s)
         /\ \A i \in 1..Len(s) : /\ Propagate(s)[i].kind = s[i].kind
                                 /\ Propagate(s)[i].localMtu = s[i].localMtu
<1> DEFINE n == Len(s)
           u == PropagateInwards(s)
           t == PropagateOutwards(u)
<1>1. s \in Seq(Header) /\ n \in Nat \ {0} /\ 1 \in 1..n /\ n \in 1..n
  BY DEF WellFormed
<1>2. /\ u \in Seq(Header) /\ Len(u) = n /\ u[1] = s[1]
      /\ \A i \in 2..n : u[i] = Inward(s[i], u[i - 1])
  BY <1>1, Inwards
<1>3. /\ t \in Seq(Header) /\ Len(t) = n /\ t[n] = u[n]
      /\ \A i \in 1..(n - 1) : t[i] = Encapsulates(u[i], t[i + 1])
  <2> HIDE DEF u, n
  <2>1. Len(u) # 0  BY <1>1, <1>2
  <2> QED  BY <1>2, <2>1, Outwards
<1>4. Propagate(s) = t  BY DEF Propagate
<1> HIDE DEF t, u, n
<1>5. /\ \A i \in 1..n : s[i] \in Header /\ u[i] \in Header /\ t[i] \in Header
      /\ \A i \in 1..(n - 1) : i \in 1..n /\ i + 1 \in 1..n /\ i # n
      /\ \A i \in 2..n : i \in 1..n /\ i - 1 \in 1..n /\ i - 1 \in 1..(n - 1)
  <2>1. \A i \in 1..n : s[i] \in Header  BY <1>1 DEF n
  <2>2. \A i \in 1..n : u[i] \in Header  BY <1>2
  <2>3. \A i \in 1..n : t[i] \in Header  BY <1>3
  <2> QED  BY <1>1, <2>1, <2>2, <2>3
<1>6. ASSUME NEW i \in 1..n
      PROVE  /\ u[i].kind = s[i].kind /\ u[i].localMtu = s[i].localMtu /\ u[i].len = s[i].len
  <2>1. CASE i = 1  BY <1>2, <2>1
  <2>2. CASE i # 1
    <3>1. i \in 2..n  BY <1>1, <2>2
    <3>2. u[i] = Inward(s[i], u[i - 1])  BY <1>2, <3>1
    <3> QED  BY <1>5, <3>2 DEF Inward, Header
  <2> QED  BY <2>1, <2>2
<1>7. ASSUME NEW i \in 1..n
      PROVE  t[i].kind = u[i].kind /\ t[i].localMtu = u[i].localMtu /\ t[i].outerMtu = u[i].outerMtu
  <2>1. CASE i = n  BY <1>3, <2>1
  <2>2. CASE i # n
    <3>1. i \in 1..(n - 1)  BY <1>1, <2>2
    <3>2. u[i] \in Header /\ t[i + 1] \in Header /\ t[i] = Encapsulates(u[i], t[i + 1])
      BY <1>3, <1>5, <3>1
    <3> DEFINE o == u[i]
               e == Encapsulates(o, t[i + 1])
    <3>3. e.kind = o.kind /\ e.localMtu = o.localMtu /\ e.outerMtu = o.outerMtu
      <4> HIDE DEF o
      <4> QED  BY <3>2, OutwardType DEF o
    <3> QED  BY <3>2, <3>3
  <2> QED  BY <2>1, <2>2
<1>8. WellFormed(t)
  <2>1. \A i \in 1..(n - 1) : MayHold(s[i].kind, s[i + 1].kind)  BY DEF WellFormed, n
  <2> QED  BY <1>1, <1>3, <1>5, <1>6, <1>7, <2>1 DEF WellFormed
<1>9. \A i \in 1..(n - 1) : t[i].kind # "pay" /\ u[i].kind # "pay"
  <2>1. \A i \in 1..(Len(t) - 1) : t[i].kind # "pay"  BY <1>8, PayloadInnermost
  <2> QED  BY <1>3, <1>5, <1>7, <2>1
<1>10. Outermost(t[1])  BY <1>1, <1>2, <1>7 DEF Outermost
<1>11. Innermost(t[n])
  <2>1. Innermost(s[n])  BY DEF n
  <2> QED  BY <1>1, <1>3, <1>6, <2>1 DEF Innermost
<1>12. MtusFlow(t)
  <2> SUFFICES ASSUME NEW i \in 2..n
               PROVE  t[i].outerMtu = Wrap(GetMtu(t[i - 1]) - GetLen(t[i - 1]))
    BY <1>3 DEF MtusFlow
  <2>1. i \in 1..n /\ i - 1 \in 1..n /\ i - 1 \in 1..(n - 1)  BY <1>5
  <2>2. u[i].outerMtu = Wrap(GetMtu(u[i - 1]) - GetLen(u[i - 1]))
    <3>1. u[i] = Inward(s[i], u[i - 1])  BY <1>2
    <3> QED  BY <1>5, <2>1, <3>1 DEF Inward, Header
  <2>3. GetMtu(t[i - 1]) = GetMtu(u[i - 1])  BY <1>7, <2>1 DEF GetMtu
  <2>4. GetLen(t[i - 1]) = GetLen(u[i - 1])  BY <1>7, <1>9, <2>1 DEF GetLen
  <2> QED  BY <1>7, <2>1, <2>2, <2>3, <2>4
<1>13. ASSUME NEW i \in 1..(n - 1)
       PROVE  /\ t[i].len = LenOver(t[i].kind, Wrap(GetLen(t[i + 1]) + GetPayloadLength(t[i + 1])))
              /\ LayerOf[t[i + 1].kind] \in {"L3", "L4"} => t[i].type = t[i + 1].kind
  <2>1. u[i] \in Header /\ t[i + 1] \in Header /\ t[i] = Encapsulates(u[i], t[i + 1])
    BY <1>3, <1>5
  <2> DEFINE bytes == Wrap(GetLen(t[i + 1]) + GetPayloadLength(t[i + 1]))
  <2>2. /\ t[i].len = SetPayloadLength(u[i], bytes).len
        /\ LayerOf[t[i + 1].kind] \in {"L3", "L4"} => t[i].type = t[i + 1].kind
    BY <2>1, OutwardType
  <2> HIDE DEF bytes
  <2>3. SetPayloadLength(u[i], bytes).len = LenOver(u[i].kind, bytes)
    <3>1. u[i].kind # "pay"  BY <1>9
    <3> QED  BY <2>1, <3>1 DEF SetPayloadLength, LenOver, GetLen, Header
  <2>4. t[i].kind = u[i].kind  BY <1>5, <1>7
  <2> QED  BY <2>2, <2>3, <2>4 DEF bytes
<1>14. LengthsFlow(t) /\ TypesFlow(t)  BY <1>3, <1>13 DEF LengthsFlow, TypesFlow
<1> QED  BY <1>3, <1>4, <1>6, <1>7, <1>8, <1>10, <1>11, <1>12, <1>14 DEF Settled, n
-----------------------------------------------------------------------------
(* The selection of a header.                                              *)

\* The indices of the headers of a layer.
Having(s, layer) == {i \in DOMAIN s : LayerOf[s[i].kind] = layer}

From(L, i)       == {j \in L : j >= i}
Between(L, i, r) == {j \in L : i <= j /\ j < r}

\* The sets without the indices below i and below i + 1.
LEMMA FromStep ==
  ASSUME NEW d \in Nat, NEW L \in SUBSET (1..d), NEW i \in 1..d
  PROVE  /\ IsFiniteSet(From(L, i)) /\ Cardinality(From(L, i + 1)) \in Nat
         /\ i \notin L => From(L, i) = From(L, i + 1)
         /\ i \in L => Cardinality(From(L, i)) = Cardinality(From(L, i + 1)) + 1
<1>1. \A j \in L : j \in Int  OBVIOUS
<1>2. ASSUME NEW k \in Int PROVE IsFiniteSet(From(L, k))
  <2>1. From(L, k) \in SUBSET (1..d)  BY DEF From
  <2>2. IsFiniteSet(1..d)  BY FS_Interval
  <2> QED  BY <2>1, <2>2, FS_Subset
<1>3. ASSUME i \notin L PROVE From(L, i) = From(L, i + 1)
  <2>1. \A j \in L : j >= i <=> j >= i + 1  BY <1>1, <1>3
  <2> QED  BY <2>1 DEF From
<1>4. ASSUME i \in L PROVE Cardinality(From(L, i)) = Cardinality(From(L, i + 1)) + 1
  <2>1. \A j \in L : j >= i <=> j >= i + 1 \/ j = i  BY <1>1
  <2>2. From(L, i) = From(L, i + 1) \cup {i}  BY <1>4, <2>1 DEF From
  <2>3. i \notin From(L, i + 1)  BY DEF From
  <2>4. i + 1 \in Int  OBVIOUS
  <2> QED  BY <1>2, <2>2, <2>3, <2>4, FS_AddElement
<1> QED  BY <1>2, <1>3, <1>4, FS_CardinalityType

LEMMA BetweenStep ==
  ASSUME NEW d \in Nat, NEW L \in SUBSET (1..d), NEW i \in 1..d, NEW r \in Int, i < r
  PROVE  /\ i \notin L => Between(L, i, r) = Between(L, i + 1, r)
         /\ i \in L => Cardinality(Between(L, i, r)) = Cardinality(Between(L, i + 1, r)) + 1
<1>1. \A j \in L : j \in Int  OBVIOUS
<1>3. ASSUME i \notin L PROVE Between(L, i, r) = Between(L, i + 1, r)
  <2>1. \A j \in L : i <= j /\ j < r <=> i + 1 <= j /\ j < r  BY <1>1, <1>3
  <2> QED  BY <2>1 DEF Between
<1>4. ASSUME i \in L
      PROVE  Cardinality(Between(L, i, r)) = Cardinality(Between(L, i + 1, r)) + 1
  <2>1. \A j \in L : i <= j /\ j < r <=> (i + 1 <= j /\ j < r) \/ j = i  BY <1>1
  <2>2. Between(L, i, r) = Between(L, i + 1, r) \cup {i}  BY <1>4, <2>1 DEF Between
  <2>3. i \notin Between(L, i + 1, r)  BY DEF Between
  <2>4. Between(L, i + 1, r) \in SUBSET (1..d)  BY DEF Between
  <2>5. IsFiniteSet(1..d)  BY FS_Interval
  <2>6. IsFiniteSet(Between(L, i + 1, r))  BY <2>4, <2>5, FS_Subset
  <2> QED  BY <2>2, <2>3, <2>6, FS_AddElement
<1> QED  BY <1>3, <1>4

\* The recursive search finds the n-th header of the layer.
LEMMA FindsFromOuter ==
  ASSUME NEW s \in Seq(Header), NEW layer, NEW n \in Nat,
         n # 0, n <= Cardinality(Having(s, layer))
  PROVE  LET r == FindLayerFromOuter(s, layer, n)
         IN  r \in Having(s, layer) /\ Cardinality(Between(Having(s, layer), 1, r)) = n - 1
<1> DEFINE d == Len(s)
           L == Having(s, layer)
           F(f) == [i \in 1..(Len(s) + 1) |->
                      [k \in 1..n |-> IF i > Len(s) THEN 0
                                      ELSE IF LayerOf[s[i].kind] # layer THEN f[i + 1][k] + 1
                                      ELSE IF k > 1 THEN f[i + 1][k - 1] + 1 ELSE 0]]
           find == CHOOSE f : f = F(f)
           V == [1..n -> Nat]
           D == [i \in 1..(d + 1) |-> [g \in V |->
                   [k \in 1..n |-> IF i \notin L THEN g[k] + 1
                                   ELSE IF k > 1 THEN g[k - 1] + 1 ELSE 0]]]
           c == [k \in 1..n |-> 0]
<1>1. d \in Nat /\ DOMAIN s = 1..d /\ L \subseteq 1..d
      /\ \A i \in 1..d : i \in L <=> LayerOf[s[i].kind] = layer
  BY DEF Having
<1>1a. d \in Nat /\ L \in SUBSET (1..d)  BY <1>1
<1>2. c \in V  OBVIOUS
<1>3. D \in [1..(d + 1) -> [V -> V]]
  <2>1. ASSUME NEW i \in 1..(d + 1), NEW g \in V
        PROVE  [k \in 1..n |-> IF i \notin L THEN g[k] + 1
                               ELSE IF k > 1 THEN g[k - 1] + 1 ELSE 0] \in V
    <3>1. \A k \in 1..n : k > 1 => k - 1 \in 1..n  OBVIOUS
    <3> HIDE DEF L
    <3> QED  BY <3>1
  <2> HIDE DEF V, L, d
  <2> QED  BY <2>1
<1>4. PICK g \in [1..(d + 1) -> V] : Descends(g, d + 1, c, D)
  <2> HIDE DEF D, V, c, d
  <2>1. d + 1 \in Nat  BY <1>1
  <2> QED  BY <1>2, <1>3, <2>1, Descending
<1>5. g = F(g)
  <2> DEFINE E(i) == [k \in 1..n |-> IF i > Len(s) THEN 0
                                     ELSE IF LayerOf[s[i].kind] # layer THEN g[i + 1][k] + 1
                                     ELSE IF k > 1 THEN g[i + 1][k - 1] + 1 ELSE 0]
  <2>1. ASSUME NEW i \in 1..(d + 1) PROVE g[i] = E(i)
    <3>1. g[i] = IF i = d + 1 THEN c ELSE D[i][g[i + 1]]  BY <1>4 DEF Descends
    <3>2. CASE i = d + 1
      <4>1. i > Len(s)  BY <1>1, <3>2
      <4> QED  BY <3>1, <3>2, <4>1
    <3>3. CASE i # d + 1
      <4>1. i \in 1..d /\ i + 1 \in 1..(d + 1) /\ ~(i > d)  BY <1>1, <3>3
      <4>2. g[i + 1] \in V  BY <4>1
      <4>3. g[i] = [k \in 1..n |-> IF i \notin L THEN g[i + 1][k] + 1
                                   ELSE IF k > 1 THEN g[i + 1][k - 1] + 1 ELSE 0]
        <5> HIDE DEF V, L, c, d
        <5> QED  BY <3>1, <3>3, <4>2
      <4>4. ~(i > Len(s)) /\ (i \in L <=> LayerOf[s[i].kind] = layer)  BY <1>1, <4>1
      <4> HIDE DEF L, V, c
      <4> QED  BY <4>3, <4>4
    <3> QED  BY <3>2, <3>3
  <2>2. g = [i \in 1..(d + 1) |-> g[i]]  OBVIOUS
  <2>3. g = [i \in 1..(d + 1) |-> E(i)]  
    <3> HIDE DEF E, d, V
    <3> QED  BY <2>1, <2>2
  <2> QED  BY <2>3
<1>6. find = F(find)  BY <1>5
<1>7. FindLayerFromOuter(s, layer, n) = find[1][n] + 1  BY DEF FindLayerFromOuter
<1> HIDE DEF find
<1>8. ASSUME NEW i \in 1..d, NEW k \in 1..n
      PROVE  find[i][k] = IF i \notin L THEN find[i + 1][k] + 1
                          ELSE IF k > 1 THEN find[i + 1][k - 1] + 1 ELSE 0
  <2>1. i \in 1..(Len(s) + 1) /\ ~(i > Len(s)) /\ (i \in L <=> LayerOf[s[i].kind] = layer)
    BY <1>1
  <2>2. find[i] = F(find)[i]  BY <1>6
  <2>3. find[i][k] = IF i > Len(s) THEN 0
                     ELSE IF LayerOf[s[i].kind] # layer THEN find[i + 1][k] + 1
                     ELSE IF k > 1 THEN find[i + 1][k - 1] + 1 ELSE 0
    BY <2>1, <2>2
  <2> HIDE DEF F, L, d
  <2> QED  BY <2>1, <2>3
<1> DEFINE Found(i) ==
             \A k \in 1..n :
               /\ find[i][k] \in Nat
               /\ k <= Cardinality(From(L, i)) =>
                    /\ i + find[i][k] \in L
                    /\ Cardinality(Between(L, i, i + find[i][k])) = k - 1
           S == {i \in 1..(d + 1) : Found(i)}
<1>9. d + 1 \in S
  <2>1. \A j \in From(L, d + 1) : FALSE  BY <1>1 DEF From
  <2>2. From(L, d + 1) = {}  BY <2>1
  <2>3. Cardinality(From(L, d + 1)) = 0  BY <2>2, FS_EmptySet
  <2>4. d + 1 \in 1..(d + 1) /\ d + 1 > Len(s)  BY <1>1
  <2>5. find[d + 1] = [k \in 1..n |-> 0]  BY <1>6, <2>4
  <2> HIDE DEF F, L, d, V, D, c
  <2> QED  BY <2>3, <2>4, <2>5
<1> HIDE DEF F, L, d, V, D, c, Found
<1>10. ASSUME NEW i \in 1..d, i + 1 \in S PROVE i \in S
  <2>1. /\ i \in 1..(d + 1) /\ i \in Nat /\ Found(i + 1)
        /\ Cardinality(From(L, i + 1)) \in Nat
    <3>1. Cardinality(From(L, i + 1)) \in Nat  BY <1>1a, FromStep
    <3> QED  BY <1>1a, <1>10, <3>1
  <2>2. \A a, b : b \in Nat /\ a = b + 1 =>
                  i + a = (i + 1) + b /\ i < i + a /\ a \in Nat /\ i + a \in Int
    BY <2>1
  <2>3. ASSUME NEW k \in 1..n
        PROVE  /\ find[i][k] \in Nat
               /\ k <= Cardinality(From(L, i)) =>
                    /\ i + find[i][k] \in L
                    /\ Cardinality(Between(L, i, i + find[i][k])) = k - 1
    <3>1. CASE i \notin L
      <4>1. find[i][k] = find[i + 1][k] + 1  BY <1>8, <3>1
      <4>2. From(L, i) = From(L, i + 1)  BY <1>1a, <3>1, FromStep
      <4>3. /\ find[i + 1][k] \in Nat
            /\ k <= Cardinality(From(L, i + 1)) =>
                 /\ (i + 1) + find[i + 1][k] \in L
                 /\ Cardinality(Between(L, i + 1, (i + 1) + find[i + 1][k])) = k - 1
        BY <2>1 DEF Found
      <4>4. i + find[i][k] = (i + 1) + find[i + 1][k] /\ i < i + find[i][k] /\ find[i][k] \in Nat
            /\ i + find[i][k] \in Int
        BY <2>2, <4>1, <4>3, Zenon
      <4> DEFINE r == i + find[i][k]
      <4>5. r \in Int /\ i < r  BY <4>4
      <4>6. Between(L, i, r) = Between(L, i + 1, r)
        <5> HIDE DEF r
        <5> QED  BY <1>1a, <3>1, <4>5, BetweenStep
      <4> QED  BY <4>2, <4>3, <4>4, <4>6
    <3>2. CASE i \in L /\ k = 1
      <4>1. find[i][k] = 0  BY <1>8, <3>2
      <4>2. \A j \in Between(L, i, i) : FALSE  BY <1>1 DEF Between
      <4>3. Between(L, i, i) = {}  BY <4>2
      <4>4. i + find[i][k] = i  BY <2>1, <4>1
      <4>5. Cardinality(Between(L, i, i + find[i][k])) = 0  BY <4>3, <4>4, FS_EmptySet
      <4> QED  BY <3>2, <4>1, <4>4, <4>5
    <3>3. CASE i \in L /\ k > 1
      <4>0. k - 1 \in 1..n /\ (k - 1) - 1 + 1 = k - 1  BY <3>3
      <4>1. find[i][k] = find[i + 1][k - 1] + 1  BY <1>8, <3>3, Zenon
      <4>2. Cardinality(From(L, i)) = Cardinality(From(L, i + 1)) + 1  BY <1>1a, <3>3, FromStep
      <4>3. /\ find[i + 1][k - 1] \in Nat
            /\ k - 1 <= Cardinality(From(L, i + 1)) =>
                 /\ (i + 1) + find[i + 1][k - 1] \in L
                 /\ Cardinality(Between(L, i + 1, (i + 1) + find[i + 1][k - 1])) = (k - 1) - 1
        BY <2>1, <4>0 DEF Found
      <4>4. /\ i + find[i][k] = (i + 1) + find[i + 1][k - 1] /\ i < i + find[i][k]
            /\ find[i][k] \in Nat /\ i + find[i][k] \in Int
        BY <2>2, <4>1, <4>3, Zenon
      <4>5. Cardinality(Between(L, i, i + find[i][k]))
              = Cardinality(Between(L, i + 1, i + find[i][k])) + 1
        BY <1>1a, <3>3, <4>4, BetweenStep
      <4>6. k <= Cardinality(From(L, i)) => k - 1 <= Cardinality(From(L, i + 1))
        BY <2>1, <4>2
      <4> QED  BY <4>0, <4>3, <4>4, <4>5, <4>6
    <3>4. i \in L => k = 1 \/ k > 1  OBVIOUS
    <3> QED  BY <3>1, <3>2, <3>3, <3>4
  <2> QED  BY <2>1, <2>3 DEF Found
<1>11. 1 \in S
  <2> HIDE DEF S
  <2>1. d + 1 \in Nat /\ d + 1 # 0 /\ 1 \in 1..(d + 1) /\ (d + 1) - 1 = d  BY <1>1
  <2>2. \A i \in 1..((d + 1) - 1) : i + 1 \in S => i \in S  BY <1>10, <2>1
  <2>3. 1..(d + 1) \subseteq S  BY <1>9, <2>1, <2>2, DownFrom
  <2> QED  BY <2>1, <2>3
<1>12. From(L, 1) = L
  <2>1. \A j \in L : j >= 1  BY <1>1
  <2> QED  BY <2>1 DEF From
<1>13. n \in 1..n /\ n <= Cardinality(From(L, 1))  BY <1>12 DEF L
<1>14. find[1][n] \in Nat /\ 1 + find[1][n] \in L
       /\ Cardinality(Between(L, 1, 1 + find[1][n])) = n - 1
  BY <1>11, <1>13 DEF Found
<1>15. FindLayerFromOuter(s, layer, n) = 1 + find[1][n]  BY <1>7, <1>14
<1> QED  BY <1>14, <1>15 DEF L

\* It is the header one means, from outside or from inside.
LEMMA Selects ==
  ASSUME NEW s \in Seq(Header), NEW layer, NEW n \in Nestings(s, layer)
  PROVE  LET L == Having(s, layer)
             r == FindLayer(s, layer, n)
         IN  /\ r \in L /\ r \in 1..Len(s)
             /\ n > 0 => Cardinality({j \in L : j < r}) = n - 1
             /\ n < 0 => Cardinality({j \in L : j > r}) = -n - 1
<1> DEFINE L == Having(s, layer)
           c == Cardinality(L)
           k == IF n > 0 THEN n ELSE c + n + 1
           r == FindLayerFromOuter(s, layer, k)
           below == {j \in L : j < r}
           above == {j \in L : j > r}
<1>1. CountLayers(s, layer) = c  BY DEF CountLayers, Having
<1>2. L \subseteq 1..Len(s) /\ Len(s) \in Nat  BY DEF Having
<1>3. IsFiniteSet(L) /\ c \in Nat
  <2>1. IsFiniteSet(1..Len(s))  BY <1>2, FS_Interval
  <2> HIDE DEF L
  <2> QED  BY <1>2, <2>1, FS_Subset, FS_CardinalityType
<1>4. n \in (-c..c) \ {0}  BY <1>1, Zenon DEF Nestings
<1>5. FindLayer(s, layer, n) = r  BY <1>1 DEF FindLayer
<1>6. k \in Nat /\ k # 0 /\ k <= c  BY <1>3, <1>4
<1>7. r \in L /\ Cardinality(Between(L, 1, r)) = k - 1
  <2> HIDE DEF k
  <2> QED  BY <1>6, FindsFromOuter
<1> HIDE DEF r, L
<1>8. r \in Int /\ \A j \in L : j \in Int /\ 1 <= j  BY <1>2, <1>7
<1>9. Between(L, 1, r) = below  BY <1>8 DEF Between
<1>10. L = (below \cup above) \cup {r}
  <2>1. \A j \in L : j < r \/ j > r \/ j = r  BY <1>8
  <2> QED  BY <1>7, <2>1
<1>11. IsFiniteSet(below) /\ IsFiniteSet(above) /\ IsFiniteSet(below \cup above)
  <2>1. below \in SUBSET L /\ above \in SUBSET L  OBVIOUS
  <2> HIDE DEF below, above
  <2> QED  BY <1>3, <2>1, FS_Subset, FS_Union
<1>12. Cardinality(below) \in Nat /\ Cardinality(above) \in Nat
  <2> HIDE DEF below, above
  <2> QED  BY <1>11, FS_CardinalityType
<1>13. c = Cardinality(below) + Cardinality(above) + 1
  <2>1. r \notin below \cup above  BY <1>8
  <2>2. below \cap above = {}  BY <1>8
  <2> HIDE DEF below, above
  <2>3. c = Cardinality(below \cup above) + 1  BY <1>10, <1>11, <2>1, FS_AddElement
  <2>4. Cardinality({}) = 0  BY FS_EmptySet
  <2>5. Cardinality(below \cup above) = Cardinality(below) + Cardinality(above) - Cardinality({})
    BY <1>11, <2>2, FS_Union
  <2> QED  BY <1>12, <2>3, <2>4, <2>5
<1> HIDE DEF c
<1>14. n > 0 => Cardinality(below) = n - 1  BY <1>7, <1>9
<1>15. n < 0 => Cardinality(above) = -n - 1
  <2> HIDE DEF below, above
  <2> SUFFICES ASSUME n < 0 PROVE Cardinality(above) = -n - 1  OBVIOUS
  <2>1. k = c + n + 1  BY <1>4
  <2>2. Cardinality(below) = k - 1  BY <1>7, <1>9
  <2> HIDE DEF k
  <2>3. n \in Int  BY <1>3, <1>4
  <2>4. \A a, b \in Nat : c = b + a + 1 /\ b = k - 1 => a = -n - 1
    BY <1>3, <2>1, <2>3
  <2> QED  BY <1>12, <1>13, <2>2, <2>4
<1> QED  BY <1>2, <1>5, <1>7, <1>14, <1>15 DEF L
-----------------------------------------------------------------------------
(* The operations keep the invariant.                                      *)

IInv == Settled(stack) /\ Len(stack) <= MaxDepth

\* A fresh header may be put anywhere.
LEMMA NewHeader ==
  ASSUME NEW k \in Kinds, NEW bytes \in 0..MaxBytes
  PROVE  LET h == New(k, bytes)
         IN  h \in Header /\ h.kind = k /\ Outermost(h) /\ Innermost(h)
<1>1. /\ HdrLen["ip4"] \in Size /\ HdrLen["ip4"] < U16 /\ 0 \in Size /\ 0 < U16
      /\ bytes \in Size /\ DefaultMtu \in Size
  BY StackAssumption DEF Size, DefaultMtu
<1> DEFINE len == CASE k = "pay" -> bytes [] k = "ip4" -> HdrLen[k] [] OTHER -> 0
<1>2. New(k, bytes) = [kind |-> k, localMtu |-> DefaultMtu, outerMtu |-> DefaultMtu,
                       type |-> "none", len |-> len]
  BY DEF New
<1>3. len \in Size /\ (LayerOf[k] = "L3" => len < U16)
      /\ (k # "pay" => len = IF k = "ip4" THEN HdrLen["ip4"] ELSE 0)
  BY <1>1, KindSet DEF LayerOf
<1> HIDE DEF len
<1> QED  BY <1>1, <1>2, <1>3 DEF Header, Outermost, Innermost

\* An operation that constructs its result by propagation keeps the invariant.
LEMMA SettlesInv ==
  ASSUME NEW s, WellFormed(s), Outermost(s[1]), Innermost(s[Len(s)]), Len(s) <= MaxDepth,
         stack' = Propagate(s)
  PROVE  IInv'
<1>1. Settled(Propagate(s)) /\ Len(Propagate(s)) = Len(s)  BY PropagateSettles
<1>2. Settled(stack)' = Settled(stack')
  BY DEF Settled, WellFormed, Outermost, Innermost, MtusFlow, LengthsFlow, TypesFlow, MayHold
<1> QED  BY <1>1, <1>2 DEF IInv

\* A header of the stack is edited, neither its kind nor, unless it is a payload, its
\* length, nor the MTU around it.
LEMMA EditSettles ==
  ASSUME IInv, NEW r \in 1..Len(stack), NEW copy \in Header,
         copy.kind = stack[r].kind, copy.outerMtu = stack[r].outerMtu,
         copy.kind = "pay" \/ copy.len = stack[r].len,
         stack' = Propagate([stack EXCEPT ![r] = copy])
  PROVE  IInv'
<1> DEFINE s == [stack EXCEPT ![r] = copy]
           n == Len(stack)
<1>1. stack \in Seq(Header) /\ n \in Nat /\ 1 \in 1..n /\ n \in 1..n
  BY DEF IInv, Settled, WellFormed
<1>2. s \in Seq(Header) /\ Len(s) = n /\ \A i \in 1..n : s[i] = IF i = r THEN copy ELSE stack[i]
  BY <1>1
<1> HIDE DEF s
<1>3. \A i \in 1..n : s[i].kind = stack[i].kind  BY <1>2
<1>4. WellFormed(s)
  <2>1. \A i \in 1..(n - 1) : MayHold(stack[i].kind, stack[i + 1].kind)
    BY DEF IInv, Settled, WellFormed
  <2>2. \A i \in 1..(n - 1) : i \in 1..n /\ i + 1 \in 1..n  BY <1>1
  <2> QED  BY <1>1, <1>2, <1>3, <2>1, <2>2 DEF WellFormed
<1>5. Outermost(s[1])
  <2>1. Outermost(stack[1])  BY DEF IInv, Settled
  <2> QED  BY <1>1, <1>2, <2>1 DEF Outermost
<1>6. Innermost(s[n])
  <2>1. Innermost(stack[n])  BY DEF IInv, Settled
  <2> QED  BY <1>1, <1>2, <2>1 DEF Innermost
<1>7. Len(s) <= MaxDepth  BY <1>2 DEF IInv
<1>8. stack' = Propagate(s)  BY DEF s
<1> QED  BY <1>2, <1>4, <1>5, <1>6, <1>7, <1>8, SettlesInv

\* The invariant holds of every stack of fresh headers, and each operation keeps it.
LEMMA InvInit == Init => IInv
<1> SUFFICES ASSUME NEW d \in 1..MaxDepth, NEW bytes \in 0..MaxBytes, NEW k \in [1..d -> Kinds],
                    \A i \in 1..(d - 1) : MayHold(k[i], k[i + 1]),
                    stack = Propagate([i \in 1..d |-> New(k[i], bytes)])
             PROVE  IInv
  BY DEF Init
<1> DEFINE s == [i \in 1..d |-> New(k[i], bytes)]
<1>1. d \in Nat /\ d # 0 /\ 1 \in 1..d /\ d \in 1..d /\ d <= MaxDepth  BY StackAssumption
<1>2. \A i \in 1..d : /\ s[i] \in Header /\ s[i].kind = k[i]
                      /\ Outermost(s[i]) /\ Innermost(s[i])
  <2> SUFFICES ASSUME NEW i \in 1..d
               PROVE  /\ s[i] \in Header /\ s[i].kind = k[i]
                      /\ Outermost(s[i]) /\ Innermost(s[i])
    OBVIOUS
  <2>1. k[i] \in Kinds /\ s[i] = New(k[i], bytes)  OBVIOUS
  <2> HIDE DEF s
  <2> QED  BY <2>1, NewHeader
<1>3. s \in Seq(Header) /\ Len(s) = d
  <2>1. s \in [1..d -> Header]  BY <1>2
  <2>2. DOMAIN s = 1..d  OBVIOUS
  <2> HIDE DEF s
  <2> QED  BY <1>1, <2>1, <2>2
<1>4. stack = Propagate(s)  OBVIOUS
<1> HIDE DEF s
<1>5. WellFormed(s)
  <2>1. \A i \in 1..(d - 1) : i \in 1..d /\ i + 1 \in 1..d  BY <1>1
  <2> QED  BY <1>1, <1>2, <1>3, <2>1 DEF WellFormed
<1>6. Settled(Propagate(s)) /\ Len(Propagate(s)) = d
  BY <1>1, <1>2, <1>3, <1>5, PropagateSettles
<1> QED  BY <1>1, <1>4, <1>6 DEF IInv

LEMMA InvAddInner ==
  ASSUME IInv, NEW k \in Kinds, AddInner(k)
  PROVE  IInv'
<1> DEFINE h == New(k, 0)
           n == Len(stack)
           s == Append(stack, h)
<1>1. stack \in Seq(Header) /\ n \in Nat /\ n # 0 /\ n < MaxDepth
  BY DEF IInv, Settled, WellFormed, AddInner
<1>2. h \in Header /\ h.kind = k /\ Innermost(h)
  BY NewHeader, StackAssumption
<1> HIDE DEF h
<1>3. /\ s \in Seq(Header) /\ Len(s) = n + 1 /\ s[n + 1] = h
      /\ \A i \in 1..n : s[i] = stack[i]
  BY <1>1, <1>2
<1>4. stack' = Propagate(s)  BY DEF AddInner, h
<1> HIDE DEF s
<1>5. WellFormed(s)
  <2> SUFFICES ASSUME NEW i \in 1..n PROVE MayHold(s[i].kind, s[i + 1].kind)
    BY <1>1, <1>3 DEF WellFormed
  <2>1. CASE i = n
    <3>1. MayHold(stack[n].kind, k)  BY DEF AddInner
    <3> QED  BY <1>2, <1>3, <2>1, <3>1
  <2>2. CASE i # n
    <3>1. i \in 1..(n - 1) /\ i + 1 \in 1..n  BY <1>1, <2>2
    <3>2. MayHold(stack[i].kind, stack[i + 1].kind)  BY <3>1 DEF IInv, Settled, WellFormed
    <3> QED  BY <1>3, <3>1, <3>2
  <2> QED  BY <2>1, <2>2
<1>6. Outermost(s[1])
  <2>1. 1 \in 1..n /\ Outermost(stack[1])  BY <1>1 DEF IInv, Settled
  <2> QED  BY <1>3, <2>1
<1>7. Innermost(s[Len(s)])  BY <1>2, <1>3
<1>8. Len(s) <= MaxDepth  BY <1>1, <1>3, StackAssumption
<1> QED  BY <1>4, <1>5, <1>6, <1>7, <1>8, SettlesInv

LEMMA InvAddOuter ==
  ASSUME IInv, NEW k \in Kinds, AddOuter(k)
  PROVE  IInv'
<1> DEFINE h == New(k, 0)
           n == Len(stack)
           s == <<h>> \o stack
<1>1. stack \in Seq(Header) /\ n \in Nat /\ n # 0 /\ n < MaxDepth
  BY DEF IInv, Settled, WellFormed, AddOuter
<1>2. h \in Header /\ h.kind = k /\ Outermost(h)
  BY NewHeader, StackAssumption
<1> HIDE DEF h
<1>3. /\ s \in Seq(Header) /\ Len(s) = n + 1 /\ s[1] = h
      /\ \A i \in 2..(n + 1) : s[i] = stack[i - 1]
  BY <1>1, <1>2
<1>4. stack' = Propagate(s)  BY DEF AddOuter, h
<1> HIDE DEF s
<1>5. WellFormed(s)
  <2> SUFFICES ASSUME NEW i \in 1..n PROVE MayHold(s[i].kind, s[i + 1].kind)
    BY <1>1, <1>3 DEF WellFormed
  <2>0. i + 1 \in 2..(n + 1) /\ (i + 1) - 1 = i  BY <1>1
  <2>1. s[i + 1] = stack[i]  BY <1>3, <2>0
  <2>2. CASE i = 1
    <3>1. MayHold(k, stack[1].kind)  BY DEF AddOuter
    <3> QED  BY <1>2, <1>3, <2>1, <2>2, <3>1
  <2>3. CASE i # 1
    <3>1. i \in 2..(n + 1) /\ i - 1 \in 1..(n - 1) /\ (i - 1) + 1 = i  BY <1>1, <2>3
    <3>2. MayHold(stack[i - 1].kind, stack[i].kind)  BY <3>1 DEF IInv, Settled, WellFormed
    <3> QED  BY <1>3, <2>1, <3>1, <3>2
  <2> QED  BY <2>2, <2>3
<1>6. Outermost(s[1])  BY <1>2, <1>3
<1>7. Innermost(s[Len(s)])
  <2>1. n + 1 \in 2..(n + 1) /\ (n + 1) - 1 = n  BY <1>1
  <2>2. s[n + 1] = stack[n]  BY <1>3, <2>1
  <2>3. Innermost(stack[n])  BY DEF IInv, Settled
  <2> QED  BY <1>3, <2>2, <2>3
<1>8. Len(s) <= MaxDepth  BY <1>1, <1>3, StackAssumption
<1> QED  BY <1>4, <1>5, <1>6, <1>7, <1>8, SettlesInv

\* The header that a layer and a nesting select is one of the stack, of that layer.
LEMMA SelectedHeader ==
  ASSUME IInv, NEW layer, NEW n \in Nestings(stack, layer)
  PROVE  LET r == FindLayer(stack, layer, n)
         IN  /\ r \in 1..Len(stack) /\ stack[r] \in Header /\ stack[r].kind \in Kinds
             /\ LayerOf[stack[r].kind] = layer /\ Selected(layer, n) = stack[r]
<1> DEFINE r == FindLayer(stack, layer, n)
<1>1. stack \in Seq(Header)  BY DEF IInv, Settled, WellFormed
<1>2. r \in Having(stack, layer) /\ r \in 1..Len(stack)  BY <1>1, Selects
<1> HIDE DEF r
<1>3. stack[r] \in Header /\ LayerOf[stack[r].kind] = layer  BY <1>1, <1>2 DEF Having
<1> QED  BY <1>2, <1>3 DEF Selected, Header, r

LEMMA InvFields == ASSUME IInv, Fields PROVE IInv'
<1>1. PICK layer \in Layers : \E n \in Nestings(stack, layer) :
        \/ \E m \in MtuChoices : WithMtu(layer, n, m)
        \/ \E t \in TypeChoices : WithType(layer, n, t)
        \/ layer = "PAYLOAD" /\ \E bytes \in 0..MaxBytes : WithPayload(n, bytes)
  BY DEF Fields
<1>2. PICK n \in Nestings(stack, layer) :
        \/ \E m \in MtuChoices : WithMtu(layer, n, m)
        \/ \E t \in TypeChoices : WithType(layer, n, t)
        \/ layer = "PAYLOAD" /\ \E bytes \in 0..MaxBytes : WithPayload(n, bytes)
  BY <1>1
<1> DEFINE r == FindLayer(stack, layer, n)
           h == stack[r]
<1>3. /\ r \in 1..Len(stack) /\ h \in Header /\ h.kind \in Kinds
      /\ LayerOf[h.kind] = layer /\ Selected(layer, n) = h
  BY SelectedHeader
<1>4. \A copy : WithHeader(layer, n, copy) => stack' = Propagate([stack EXCEPT ![r] = copy])
  BY DEF WithHeader
<1> HIDE DEF r
<1> DEFINE Edits(copy) == /\ copy \in Header /\ copy.kind = h.kind /\ copy.outerMtu = h.outerMtu
                          /\ copy.kind = "pay" \/ copy.len = h.len
<1>5. ASSUME NEW copy, WithHeader(layer, n, copy), Edits(copy) PROVE IInv'
  <2> HIDE DEF h
  <2>1. stack' = Propagate([stack EXCEPT ![r] = copy])  BY <1>4, <1>5
  <2> QED  BY <1>3, <1>5, <2>1, EditSettles DEF h
<1> HIDE DEF h
<1>6. ASSUME NEW m \in MtuChoices, WithMtu(layer, n, m) PROVE IInv'
  <2> DEFINE copy == [h EXCEPT !.localMtu = m]
  <2>1. WithHeader(layer, n, copy)  BY <1>3, <1>6 DEF WithMtu
  <2>2. m \in Size  BY StackAssumption DEF Size
  <2>3. Edits(copy)  BY <1>3, <2>2 DEF Header
  <2> HIDE DEF copy, Edits
  <2> QED  BY <1>5, <2>1, <2>3
<1>7. ASSUME NEW t \in TypeChoices, WithType(layer, n, t) PROVE IInv'
  <2> DEFINE copy == [h EXCEPT !.type = t]
  <2>1. WithHeader(layer, n, copy)  BY <1>3, <1>7 DEF WithType
  <2>2. t \in Kinds  BY StackAssumption, KindSet
  <2>3. Edits(copy)  BY <1>3, <2>2 DEF Header
  <2> HIDE DEF copy, Edits
  <2> QED  BY <1>5, <2>1, <2>3
<1>8. ASSUME layer = "PAYLOAD", NEW bytes \in 0..MaxBytes, WithPayload(n, bytes) PROVE IInv'
  <2> DEFINE copy == [h EXCEPT !.len = bytes]
  <2>1. WithHeader(layer, n, copy)  BY <1>3, <1>8 DEF WithPayload
  <2>2. bytes \in Size  BY StackAssumption DEF Size
  <2>3. h.kind = "pay"  BY <1>3, <1>8, KindSet DEF LayerOf
  <2>4. Edits(copy)  BY <1>3, <2>2, <2>3 DEF Header, LayerOf
  <2> HIDE DEF copy, Edits
  <2> QED  BY <1>5, <2>1, <2>4
<1> QED  BY <1>2, <1>6, <1>7, <1>8

LEMMA InvNextSegment == ASSUME IInv, NextSegment PROVE IInv'
<1> DEFINE n == Len(stack)
           s == [i \in DOMAIN stack |-> NextHeader(stack[i])]
<1>1. /\ stack \in Seq(Header) /\ n \in Nat /\ n # 0 /\ DOMAIN stack = 1..n
      /\ 1 \in 1..n /\ n \in 1..n
  BY DEF IInv, Settled, WellFormed
<1>2. ASSUME NEW h \in Header
      PROVE  LET g == NextHeader(h)
             IN  /\ g \in Header /\ g.kind = h.kind /\ g.outerMtu = h.outerMtu
                 /\ g.kind # "pay" => g = h
  <2>1. CASE h.kind # "pay"  BY <2>1 DEF NextHeader
  <2>2. CASE h.kind = "pay"
    <3> DEFINE left == h.len - Least(GetLen(h), GetMtu(h))
    <3>1. GetLen(h) \in Nat /\ GetMtu(h) \in Nat  BY Lengths DEF Size
    <3>2. h.len \in Size /\ h.localMtu \in Size  BY DEF Header
    <3>3. left \in Size
      <4>1. GetLen(h) <= h.len  BY <2>2, <3>2 DEF GetLen, Least, Size
      <4>2. \A a, b \in Nat : a <= h.len => h.len - Least(a, b) \in Size
        BY <3>2, StackAssumption DEF Least, Size
      <4> QED  BY <3>1, <4>1, <4>2
    <3>4. NextHeader(h) = [h EXCEPT !.len = left]  BY <2>2 DEF NextHeader
    <3> HIDE DEF left
    <3> QED  BY <2>2, <3>3, <3>4 DEF Header, LayerOf
  <2> QED  BY <2>1, <2>2
<1>3. \A i \in 1..n : LET h == stack[i] IN
        /\ s[i] \in Header /\ s[i].kind = h.kind /\ s[i].outerMtu = h.outerMtu
        /\ s[i].kind # "pay" => s[i] = h
  <2> SUFFICES ASSUME NEW i \in 1..n
               PROVE  LET h == stack[i] IN
                        /\ s[i] \in Header /\ s[i].kind = h.kind /\ s[i].outerMtu = h.outerMtu
                        /\ s[i].kind # "pay" => s[i] = h
    OBVIOUS
  <2>1. s[i] = NextHeader(stack[i]) /\ stack[i] \in Header  BY <1>1
  <2> HIDE DEF s
  <2> QED  BY <1>2, <2>1
<1>4. s \in Seq(Header) /\ Len(s) = n
  <2>1. s \in [1..n -> Header] /\ DOMAIN s = 1..n  BY <1>1, <1>3
  <2> HIDE DEF s
  <2> QED  BY <1>1, <2>1
<1>5. stack' = Propagate(s)  BY DEF NextSegment
<1> HIDE DEF s
<1>6. WellFormed(s)
  <2>1. \A i \in 1..(n - 1) : MayHold(stack[i].kind, stack[i + 1].kind)
    BY DEF IInv, Settled, WellFormed
  <2>2. \A i \in 1..(n - 1) : i \in 1..n /\ i + 1 \in 1..n  BY <1>1
  <2> QED  BY <1>1, <1>3, <1>4, <2>1, <2>2 DEF WellFormed
<1>7. Outermost(s[1]) /\ Innermost(s[n])
  <2>1. Outermost(stack[1]) /\ Innermost(stack[n])  BY DEF IInv, Settled
  <2> QED  BY <1>1, <1>3, <2>1 DEF Outermost, Innermost
<1>8. Len(s) <= MaxDepth  BY <1>4 DEF IInv
<1> QED  BY <1>4, <1>5, <1>6, <1>7, <1>8, SettlesInv

LEMMA InvNext == ASSUME IInv, [Next]_stack PROVE IInv'
<1>1. CASE NextSegment  BY <1>1, InvNextSegment
<1>2. CASE Fields  BY <1>2, InvFields
<1>3. ASSUME NEW k \in Kinds, AddInner(k) PROVE IInv'  BY <1>3, InvAddInner
<1>4. ASSUME NEW k \in Kinds, AddOuter(k) PROVE IInv'  BY <1>4, InvAddOuter
<1>5. CASE UNCHANGED stack
  BY <1>5 DEF IInv, Settled, WellFormed, Outermost, Innermost, MtusFlow, LengthsFlow, TypesFlow
<1> QED  BY <1>1, <1>2, <1>3, <1>4, <1>5 DEF Next

\* The invariant holds of every behaviour.
THEOREM Invariant == Spec => []IInv
BY InvInit, InvNext, PTL DEF Spec

\* Each element of the stack is a header.
LEMMA HeaderAt ==
  ASSUME IInv, NEW i \in 1..Len(stack)
  PROVE  stack[i] \in Header
BY DEF IInv, Settled, WellFormed

\* Every length fits the field that keeps it, at every depth.
THEOREM TypeCorrect == Spec => []TypeOK
<1>1. IInv => TypeOK
  <2> SUFFICES ASSUME IInv PROVE TypeOK  OBVIOUS
  <2>1. Len(stack) \in 1..MaxDepth /\ DOMAIN stack = 1..Len(stack)
    BY StackAssumption DEF IInv, Settled, WellFormed
  <2>2. ASSUME NEW h \in Header
        PROVE  /\ h.kind \in Kinds /\ h.type \in Kinds \cup {"none"}
               /\ {h.localMtu, h.outerMtu, h.len} \subseteq 0..(SizeMod - 1)
               /\ LayerOf[h.kind] = "L3" => h.len < U16
    BY DEF Header, Size
  <2> QED  BY <2>1, <2>2, HeaderAt DEF TypeOK
<1> QED  BY <1>1, Invariant, PTL

\* WithHeader edits the header one means, however many headers of that layer there
\* are and from whichever end they are counted.
THEOREM SelectionCorrect == Spec => []SelectsTheNth
<1>1. IInv => SelectsTheNth
  <2> SUFFICES ASSUME IInv, NEW layer \in Layers, NEW n \in Nestings(stack, layer)
               PROVE  LET i == FindLayer(stack, layer, n) IN
                        /\ i \in OfLayer(layer)
                        /\ n > 0 => Cardinality({j \in OfLayer(layer) : j < i}) = n - 1
                        /\ n < 0 => Cardinality({j \in OfLayer(layer) : j > i}) = -n - 1
    BY DEF SelectsTheNth
  <2>1. stack \in Seq(Header)  BY DEF IInv, Settled, WellFormed
  <2>2. OfLayer(layer) = Having(stack, layer)  BY DEF OfLayer, Having
  <2> DEFINE L == Having(stack, layer)
             r == FindLayer(stack, layer, n)
  <2>3. /\ r \in L
        /\ n > 0 => Cardinality({j \in L : j < r}) = n - 1
        /\ n < 0 => Cardinality({j \in L : j > r}) = -n - 1
    BY <2>1, Selects
  <2> QED  BY <2>2, <2>3, Zenon
<1> QED  BY <1>1, Invariant, PTL

\* A header that holds IP or TCP says so, whatever a test wrote into its type.
THEOREM TypesCorrect == Spec => []TypesNameInner
<1>1. IInv => TypesNameInner  BY DEF IInv, Settled, TypesFlow, TypesNameInner
<1> QED  BY <1>1, Invariant, PTL
-----------------------------------------------------------------------------
(* Lengths.                                                                *)

\* What FillPacket writes for the header at i alone.
Written(i) == IF stack[i].kind = "pay" THEN Least(GetLen(stack[i]), GetMtu(stack[i]))
                                       ELSE GetLen(stack[i])

\* The sum of the bytes exists and obeys its equation.
LEMMA FilledFromInside ==
  ASSUME IInv
  PROVE  /\ Filled(Len(stack) + 1) = 0
         /\ \A i \in 1..Len(stack) : Filled(i) = Filled(i + 1) + Written(i)
         /\ \A i \in 1..(Len(stack) + 1) : Filled(i) \in Nat
         /\ \A i \in 1..Len(stack) : Written(i) \in Nat
<1> DEFINE d == Len(stack)
           W(j) == IF stack[j].kind = "pay" THEN Least(GetLen(stack[j]), GetMtu(stack[j]))
                                            ELSE GetLen(stack[j])
           F(f) == [j \in 1..(Len(stack) + 1) |-> IF j > Len(stack) THEN 0 ELSE f[j + 1] + W(j)]
           from == CHOOSE f : f = F(f)
           D == [j \in 1..(d + 1) |-> [x \in Nat |-> x + (IF j > d THEN 0 ELSE W(j))]]
<1>1. d \in Nat  BY DEF IInv, Settled, WellFormed
<1>2. ASSUME NEW j \in 1..d PROVE W(j) \in Nat
  <2>1. GetLen(stack[j]) \in Nat /\ GetMtu(stack[j]) \in Nat  BY HeaderAt, Lengths DEF Size
  <2> QED  BY <2>1 DEF Least
<1>3. D \in [1..(d + 1) -> [Nat -> Nat]]
  <2>1. ASSUME NEW j \in 1..(d + 1), NEW x \in Nat
        PROVE  x + (IF j > d THEN 0 ELSE W(j)) \in Nat
    <3>1. j > d \/ j \in 1..d  BY <1>1
    <3> HIDE DEF W, d
    <3> QED  BY <1>2, <3>1
  <2> HIDE DEF W, d
  <2> QED  BY <2>1
<1>4. PICK g \in [1..(d + 1) -> Nat] : Descends(g, d + 1, 0, D)
  <2> HIDE DEF D, d
  <2>1. d + 1 \in Nat  BY <1>1
  <2> QED  BY <1>3, <2>1, Descending
<1>5. g = F(g)
  <2>1. ASSUME NEW j \in 1..(d + 1) PROVE g[j] = IF j > Len(stack) THEN 0 ELSE g[j + 1] + W(j)
    <3>1. g[j] = IF j = d + 1 THEN 0 ELSE D[j][g[j + 1]]  BY <1>4 DEF Descends
    <3>2. CASE j = d + 1
      <4>1. j > Len(stack)  BY <1>1, <3>2
      <4> QED  BY <3>1, <3>2, <4>1
    <3>3. CASE j # d + 1
      <4>1. j + 1 \in 1..(d + 1) /\ ~(j > d)  BY <1>1, <3>3
      <4>2. g[j + 1] \in Nat  BY <4>1
      <4> HIDE DEF W
      <4> QED  BY <3>1, <3>3, <4>1, <4>2
    <3> QED  BY <3>2, <3>3
  <2>2. g = [j \in 1..(d + 1) |-> g[j]]  OBVIOUS
  <2> HIDE DEF W
  <2> QED  BY <2>1, <2>2
<1>6. from = F(from)  BY <1>5
<1>7. ASSUME NEW i PROVE Filled(i) = from[i]  BY DEF Filled
<1> HIDE DEF from
<1>8. ASSUME NEW j \in 1..(d + 1)
      PROVE  from[j] = IF j > d THEN 0 ELSE from[j + 1] + W(j)
  <2> HIDE DEF W
  <2>1. from[j] = F(from)[j]  BY <1>6
  <2> QED  BY <2>1
<1>9. d + 1 \in 1..(d + 1) /\ d + 1 > d /\ \A i \in 1..d : i \in 1..(d + 1) /\ ~(i > d)
  BY <1>1
<1>10. from[d + 1] = 0 /\ \A i \in 1..d : from[i] = from[i + 1] + W(i)
  <2> HIDE DEF W, F, d
  <2> QED  BY <1>8, <1>9
<1>11. \A i \in 1..d : W(i) = Written(i)  BY DEF Written
<1> HIDE DEF W, F, d
<1>12. 1..(d + 1) \subseteq {i \in 1..(d + 1) : from[i] \in Nat}
  <2> DEFINE S == {i \in 1..(d + 1) : from[i] \in Nat}
  <2>1. d + 1 \in S  BY <1>9, <1>10
  <2>2. ASSUME NEW i \in 1..d, i + 1 \in S PROVE i \in S
    <3>1. from[i] = from[i + 1] + W(i) /\ from[i + 1] \in Nat /\ W(i) \in Nat
      BY <1>2, <1>10, <2>2
    <3> QED  BY <1>9, <3>1
  <2> HIDE DEF S
  <2>3. d + 1 \in Nat /\ (d + 1) - 1 = d  BY <1>1
  <2>4. 1..(d + 1) \subseteq S  BY <2>1, <2>2, <2>3, DownFrom
  <2> QED  BY <2>4 DEF S
<1>13. \A i \in 1..(d + 1) : Filled(i) \in Nat  BY <1>7, <1>12
<1>14. Filled(d + 1) = 0 /\ \A i \in 1..d : Filled(i) = Filled(i + 1) + Written(i)
  BY <1>7, <1>10, <1>11
<1>15. \A i \in 1..d : Written(i) \in Nat  BY <1>2, <1>11
<1> QED  BY <1>13, <1>14, <1>15 DEF d

\* The bytes that a payload fills; an MTU must have room for all others.
PayloadFilled == IF stack[Len(stack)].kind = "pay" THEN Filled(Len(stack)) ELSE 0

\* Going outwards there are only more bytes.
LEMMA FilledShrinks ==
  ASSUME IInv, InRange
  PROVE  \A i \in 1..Len(stack) : Filled(i) <= Filled(1) /\ PayloadFilled <= Filled(i) /\ Filled(i) < U16
<1> DEFINE d == Len(stack)
           F(i) == Filled(i)
           S == {i \in 1..d : F(i) <= F(1)}
           T == {i \in 1..d : PayloadFilled <= F(i)}
<1>1. /\ d \in Nat /\ d # 0 /\ 1 \in 1..d /\ d \in 1..d
      /\ \A i \in 1..(d - 1) : i \in 1..d /\ i + 1 \in 1..d
  BY DEF IInv, Settled, WellFormed
<1>2. /\ \A i \in 1..d : F(i) = F(i + 1) + Written(i)
      /\ \A i \in 1..d : F(i) \in Nat /\ Written(i) \in Nat
  <2>1. \A i \in 1..d : i \in 1..(d + 1)  BY <1>1
  <2> QED  BY <2>1, FilledFromInside
<1>3. PayloadFilled \in Nat /\ PayloadFilled <= F(d)  BY <1>1, <1>2 DEF PayloadFilled
<1>4. F(1) < U16  BY DEF InRange
<1> HIDE DEF d, F
<1>5. 1 \in S  BY <1>1, <1>2
<1>6. ASSUME NEW i \in 1..(d - 1), i \in S PROVE i + 1 \in S
  <2>1. F(i) = F(i + 1) + Written(i) /\ F(i) <= F(1)  BY <1>1, <1>2, <1>6
  <2>2. F(1) \in Nat /\ F(i + 1) \in Nat /\ Written(i) \in Nat /\ i + 1 \in 1..d
    BY <1>1, <1>2
  <2> QED  BY <2>1, <2>2
<1>7. d \in T  BY <1>1, <1>3
<1>8. ASSUME NEW i \in 1..(d - 1), i + 1 \in T PROVE i \in T
  <2>1. F(i) = F(i + 1) + Written(i) /\ PayloadFilled <= F(i + 1)  BY <1>1, <1>2, <1>8
  <2>2. F(i) \in Nat /\ F(i + 1) \in Nat /\ Written(i) \in Nat /\ i \in 1..d
    BY <1>1, <1>2
  <2> QED  BY <1>3, <2>1, <2>2
<1>9. 1..d \subseteq S
  <2> HIDE DEF S, T
  <2> QED  BY <1>1, <1>5, <1>6, UpTo
<1>10. 1..d \subseteq T
  <2> HIDE DEF S, T
  <2> QED  BY <1>1, <1>7, <1>8, DownFrom
<1>11. \A i \in 1..d : F(i) <= F(1) /\ PayloadFilled <= F(i)  BY <1>9, <1>10
<1>12. \A i \in 1..d : F(i) < U16  BY <1>1, <1>2, <1>4, <1>11, StackAssumption
<1> QED  BY <1>11, <1>12 DEF d, F

\* No MTU is used up before the payload: none wraps on its way inwards.
LEMMA MtusHold ==
  ASSUME IInv, InRange
  PROVE  /\ \A i \in 1..Len(stack) : stack[i].kind # "pay" => GetMtu(stack[i]) >= Filled(i) - PayloadFilled
         /\ \A i \in 1..(Len(stack) - 1) :
              stack[i + 1].outerMtu = GetMtu(stack[i]) - GetLen(stack[i])
<1> DEFINE d == Len(stack)
           Holds(i) == stack[i].kind # "pay" => GetMtu(stack[i]) >= Filled(i) - PayloadFilled
           S == {i \in 1..d : Holds(i)}
<1>1. /\ d \in Nat /\ d # 0 /\ 1 \in 1..d /\ d \in 1..d
      /\ \A i \in 1..(d - 1) : i \in 1..d /\ i + 1 \in 1..d
      /\ \A i \in 1..(d - 1) : i + 1 \in 2..d /\ (i + 1) - 1 = i
      /\ \A i \in 1..d : i \in 1..(d + 1)
  BY DEF IInv, Settled, WellFormed
<1>2. \A i \in 1..d : stack[i] \in Header  BY HeaderAt
<1>3. \A i \in 1..d : Filled(i) \in Nat /\ Filled(i) < U16 /\ PayloadFilled <= Filled(i)
  BY <1>1, FilledFromInside, FilledShrinks
<1>4. PayloadFilled \in Nat  BY <1>1, <1>3 DEF PayloadFilled
<1>5. ASSUME NEW i \in 1..d, stack[i].kind # "pay",
             stack[i].outerMtu >= Filled(i) - PayloadFilled
      PROVE  Holds(i)
  <2>1. stack[i].localMtu >= Filled(i) - PayloadFilled
    <3>1. DOMAIN stack = 1..d  BY DEF IInv, Settled, WellFormed
    <3> QED  BY <1>5, <3>1 DEF InRange, PayloadFilled
  <2> QED  BY <1>5, <2>1 DEF GetMtu, Least
<1>6. 1 \in S
  <2>1. stack[1].outerMtu = SizeMod - 1  BY DEF IInv, Settled, Outermost, DefaultMtu
  <2>2. Filled(1) - PayloadFilled <= SizeMod - 1  BY <1>1, <1>3, <1>4, StackAssumption
  <2>3. stack[1].outerMtu >= Filled(1) - PayloadFilled  BY <1>1, <1>3, <1>4, <2>1, <2>2, StackAssumption
  <2> HIDE DEF Holds
  <2> QED  BY <1>1, <1>5, <2>3 DEF Holds
<1>7. ASSUME NEW i \in 1..(d - 1), i \in S
      PROVE  /\ stack[i + 1].outerMtu = GetMtu(stack[i]) - GetLen(stack[i])
             /\ i + 1 \in S
  <2> DEFINE m == GetMtu(stack[i])
             g == GetLen(stack[i])
             x == Filled(i + 1)
             o == stack[i + 1].outerMtu
  <2>1. stack[i].kind # "pay" /\ stack[i] \in Header
    BY PayloadInnermost DEF IInv, Settled
  <2>2. m \in Size /\ g \in Nat  BY <2>1, Lengths
  <2>3. Filled(i) = x + g /\ x \in Nat /\ PayloadFilled <= x
    <3>1. Filled(i) = x + Written(i)  BY <1>1, FilledFromInside
    <3> QED  BY <1>1, <1>3, <2>1, <3>1 DEF Written
  <2>4. m >= Filled(i) - PayloadFilled  BY <1>7, <2>1
  <2>5. o = Wrap(m - g)
    <3>1. i + 1 \in 2..d /\ (i + 1) - 1 = i  BY <1>1
    <3>2. MtusFlow(stack)  BY DEF IInv, Settled
    <3> QED  BY <3>1, <3>2 DEF MtusFlow
  <2> HIDE DEF m, g, x, o
  <2>6. m - g \in 0..(SizeMod - 1) /\ m - g >= x - PayloadFilled
    <3>1. PayloadFilled \in Nat /\ m - g >= x - PayloadFilled /\ m - g >= 0
      BY <1>4, <2>2, <2>3, <2>4 DEF Size
    <3>2. SizeMod \in Nat  BY StackAssumption
    <3> QED  BY <2>2, <3>1, <3>2 DEF Size
  <2>7. o = m - g
    <3>1. \A z \in 0..(SizeMod - 1) : z % SizeMod = z  BY StackAssumption
    <3> QED  BY <2>5, <2>6, <3>1, Zenon DEF Wrap
  <2>8. o >= x - PayloadFilled  BY <2>6, <2>7
  <2>9. Holds(i + 1)
    <3> HIDE DEF Holds
    <3>1. stack[i + 1].kind # "pay" => Holds(i + 1)  BY <1>1, <1>5, <2>8 DEF x, o
    <3> QED  BY <3>1 DEF Holds
  <2> QED  BY <1>1, <2>7, <2>9 DEF m, g, o
<1>8. 1..d \subseteq S
  <2> HIDE DEF S, d
  <2> QED  BY <1>1, <1>6, <1>7, UpTo
<1> QED  BY <1>1, <1>7, <1>8

\* What is filled from a header on fits its MTU: each MTU has room for its header and
\* for the MTU inside it.
LEMMA FilledFits ==
  ASSUME IInv, InRange
  PROVE  \A i \in 1..Len(stack) : Filled(i) <= GetMtu(stack[i])
<1> DEFINE d == Len(stack)
           S == {i \in 1..d : Filled(i) <= GetMtu(stack[i])}
<1>1. /\ d \in Nat /\ d # 0 /\ d \in 1..d
      /\ \A i \in 1..(d - 1) : i \in 1..d /\ i + 1 \in 1..d
      /\ \A i \in 1..d : i \in 1..(d + 1)
  BY DEF IInv, Settled, WellFormed
<1>2. \A i \in 1..d : stack[i] \in Header /\ GetMtu(stack[i]) \in Nat /\ GetLen(stack[i]) \in Nat
  BY HeaderAt, Lengths DEF Size
<1>3. d \in S
  <2>1. CASE stack[d].kind # "pay"
    <3>1. PayloadFilled = 0  BY <2>1 DEF PayloadFilled
    <3>2. Filled(d) \in Nat /\ GetMtu(stack[d]) >= Filled(d) - PayloadFilled
      BY <1>1, <2>1, FilledFromInside, MtusHold
    <3> QED  BY <1>1, <1>2, <3>1, <3>2
  <2>2. CASE stack[d].kind = "pay"
    <3>1. Filled(d) = Filled(d + 1) + Written(d) /\ Filled(d + 1) = 0 /\ Written(d) \in Nat
      BY <1>1, FilledFromInside
    <3>2. Written(d) <= GetMtu(stack[d])  BY <1>1, <1>2, <2>2 DEF Written, Least
    <3> QED  BY <1>1, <3>1, <3>2
  <2> QED  BY <2>1, <2>2
<1>4. ASSUME NEW i \in 1..(d - 1), i + 1 \in S PROVE i \in S
  <2> DEFINE m == GetMtu(stack[i])
             g == GetLen(stack[i])
             x == Filled(i + 1)
             o == stack[i + 1].outerMtu
  <2>1. stack[i].kind # "pay"  BY PayloadInnermost DEF IInv, Settled
  <2>2. o = m - g  BY MtusHold
  <2>3. x <= o
    <3>1. x <= GetMtu(stack[i + 1])  BY <1>4
    <3>2. stack[i + 1].localMtu \in Nat /\ o \in Nat  BY <1>1, <1>2 DEF Header, Size
    <3>3. GetMtu(stack[i + 1]) <= o  BY <3>2 DEF GetMtu, Least
    <3>4. x \in Nat /\ GetMtu(stack[i + 1]) \in Nat  BY <1>1, <1>2, FilledFromInside
    <3> HIDE DEF x, o
    <3> QED  BY <3>1, <3>2, <3>3, <3>4
  <2>4. Filled(i) = x + g /\ x \in Nat /\ m \in Nat /\ g \in Nat
    <3>1. Filled(i) = x + Written(i) /\ x \in Nat  BY <1>1, FilledFromInside
    <3> QED  BY <1>1, <1>2, <2>1, <3>1 DEF Written
  <2> HIDE DEF m, g, x, o
  <2>5. Filled(i) <= m  BY <2>2, <2>3, <2>4
  <2> QED  BY <1>1, <2>5 DEF m
<1>5. 1..d \subseteq S
  <2> HIDE DEF S, d
  <2> QED  BY <1>1, <1>3, <1>4, DownFrom
<1> QED  BY <1>5

\* The lengths count the bytes that are filled, from the innermost header outwards.
LEMMA LengthsCount ==
  ASSUME IInv, InRange, Segments
  PROVE  \A i \in 1..Len(stack) : stack[i].kind # "pay" =>
           GetLen(stack[i]) + GetPayloadLength(stack[i]) = Filled(i)
<1> DEFINE d == Len(stack)
           Counts(i) == stack[i].kind # "pay" =>
                          GetLen(stack[i]) + GetPayloadLength(stack[i]) = Filled(i)
           S == {i \in 1..d : Counts(i)}
<1>1. /\ d \in Nat /\ d # 0 /\ d \in 1..d
      /\ \A i \in 1..(d - 1) : i \in 1..d /\ i + 1 \in 1..d
      /\ \A i \in 1..d : i \in 1..(d + 1)
  BY DEF IInv, Settled, WellFormed
<1>2. \A i \in 1..d : /\ stack[i] \in Header /\ GetMtu(stack[i]) \in Nat
                      /\ GetLen(stack[i]) \in Nat /\ GetPayloadLength(stack[i]) \in Nat
  BY HeaderAt, Lengths DEF Size
<1>3. ASSUME NEW x \in Nat, x < SizeMod PROVE Wrap(x) = x
  BY <1>3, StackAssumption DEF Wrap
<1>4. ASSUME NEW x \in Nat, x < U16 PROVE x % U16 = x
  BY <1>4, StackAssumption
<1>5. d \in S
  <2> SUFFICES ASSUME stack[d].kind # "pay"
               PROVE  GetLen(stack[d]) + GetPayloadLength(stack[d]) = Filled(d)
    BY <1>1
  <2> DEFINE h == stack[d]
  <2>1. Innermost(h)  BY DEF IInv, Settled
  <2>2. h \in Header /\ h.kind \in Kinds /\ GetLen(h) \in Nat  BY <1>1, <1>2 DEF Header
  <2>3. Filled(d) = GetLen(h)
    <3>1. Filled(d) = Filled(d + 1) + Written(d) /\ Filled(d + 1) = 0  BY <1>1, FilledFromInside
    <3> QED  BY <2>2, <3>1 DEF Written
  <2>4. GetPayloadLength(h) = 0
    <3> HIDE DEF h
    <3>0. h.kind # "pay"  BY DEF h
    <3>1. CASE h.kind = "ip4"
      <4>1. h.len - GetLen(h) = 0  BY <2>1, <2>2, <3>1, StackAssumption DEF Innermost, GetLen
      <4>2. Wrap(0) = 0  BY <1>3, StackAssumption
      <4> QED  BY <3>1, <4>1, <4>2 DEF GetPayloadLength
    <3>2. CASE h.kind = "tcp"
      <4>1. h.len = 0  BY <2>1, <3>2 DEF Innermost
      <4>2. GetMtu(h) \in Nat  BY <1>1, <1>2 DEF h
      <4>3. GetMtu(h) - GetLen(h) \in Int  BY <2>2, <4>2
      <4>4. Wrap(GetMtu(h) - GetLen(h)) \in Nat  BY <4>3, WrapType DEF Size
      <4> QED  BY <3>2, <4>1, <4>4 DEF GetPayloadLength, Least
    <3>3. CASE h.kind \in {"eth", "ip6"}
      BY <2>1, <3>3 DEF GetPayloadLength, Innermost
    <3> QED  BY <2>2, <3>0, <3>1, <3>2, <3>3, KindSet
  <2> QED  BY <2>2, <2>3, <2>4
<1>6. ASSUME NEW i \in 1..(d - 1), i + 1 \in S PROVE i \in S
  <2> DEFINE h == stack[i]
             in == stack[i + 1]
             n == GetLen(in) + GetPayloadLength(in)
             g == GetLen(h)
             x == Filled(i + 1)
  <2>1. h.kind # "pay" /\ h.kind \in Kinds
    <3>1. h.kind # "pay"  BY PayloadInnermost DEF IInv, Settled
    <3> QED  BY <1>1, <1>2, <3>1 DEF Header
  <2>2. /\ g \in Nat /\ x \in Nat /\ n \in Nat /\ GetMtu(h) \in Nat /\ GetMtu(in) \in Nat
        /\ Filled(i) = x + g /\ Filled(i) < U16 /\ Filled(i) <= GetMtu(h)
    <3>1. Filled(i) = x + Written(i) /\ x \in Nat  BY <1>1, FilledFromInside
    <3>2. Filled(i) < U16 /\ Filled(i) <= GetMtu(h)  BY <1>1, FilledShrinks, FilledFits
    <3>3. g \in Nat /\ n \in Nat /\ GetMtu(h) \in Nat /\ GetMtu(in) \in Nat  BY <1>1, <1>2
    <3>4. Written(i) = g  BY <2>1 DEF Written
    <3> HIDE DEF h, in, n, g, x
    <3> QED  BY <3>1, <3>2, <3>3, <3>4
  <2>3. h.len = LenOver(h.kind, Wrap(n))  BY DEF IInv, Settled, LengthsFlow
  <2>4. in.outerMtu = GetMtu(h) - g  BY MtusHold
  <2>5. in.kind # "pay" => n = x  BY <1>6
  <2>6. in.kind = "pay" => i + 1 = d
    <3>1. i + 1 \in 1..(d - 1) => in.kind # "pay"  BY PayloadInnermost DEF IInv, Settled
    <3> QED  BY <1>1, <3>1
  <2>7. in.kind = "pay" =>
          /\ n = GetLen(in) /\ x = Least(n, GetMtu(in)) /\ n < SizeMod
          /\ in.localMtu \in Nat /\ in.outerMtu \in Nat /\ n <= in.localMtu
          /\ h.kind = "tcp" \/ GetMtu(in) >= n
    <3> SUFFICES ASSUME in.kind = "pay"
                 PROVE  /\ n = GetLen(in) /\ x = Least(n, GetMtu(in)) /\ n < SizeMod
                        /\ in.localMtu \in Nat /\ in.outerMtu \in Nat /\ n <= in.localMtu
                        /\ h.kind = "tcp" \/ GetMtu(in) >= n
      OBVIOUS
    <3>1. i + 1 = d /\ d - 1 = i /\ d > 1  BY <1>1, <2>6
    <3>2. in \in Header /\ GetLen(in) \in Nat  BY <1>1, <1>2
    <3>3. GetPayloadLength(in) = 0  BY DEF GetPayloadLength
    <3>4. n = GetLen(in)  BY <3>2, <3>3
    <3>5. x = Least(n, GetMtu(in))
      <4>1. x = Filled(d + 1) + Written(d) /\ Filled(d + 1) = 0 /\ Written(d) \in Nat
        BY <1>1, <3>1, FilledFromInside
      <4>2. Written(d) = Least(GetLen(in), GetMtu(in))  BY <3>1 DEF Written
      <4> QED  BY <3>4, <4>1, <4>2
    <3>6. in.localMtu \in Size /\ in.outerMtu \in Size /\ in.len \in Size
      BY <3>2 DEF Header
    <3>7. n < SizeMod /\ n <= in.localMtu
      <4>1. n = Least(in.len, in.localMtu)  BY <3>4 DEF GetLen
      <4> HIDE DEF n, in
      <4> QED  BY <3>6, <4>1, StackAssumption DEF Least, Size
    <3>8. h.kind = "tcp" \/ GetMtu(in) >= n
      BY <3>1, <3>4 DEF Segments
    <3> QED  BY <3>4, <3>5, <3>6, <3>7, <3>8 DEF Size
  <2> HIDE DEF h, in, g, x, n
  <2>8. GetMtu(in) = Least(in.localMtu, in.outerMtu)  BY DEF GetMtu
  <2>9. h.kind # "tcp" => n = x
    <3>1. in.kind = "pay" /\ h.kind # "tcp" => n = x
      BY <2>2, <2>7 DEF Least
    <3> QED  BY <2>5, <3>1
  <2>10. Wrap(n) = n
    <3>1. x < SizeMod  BY <2>2, StackAssumption
    <3>2. n < SizeMod  BY <2>5, <2>7, <3>1
    <3> QED  BY <1>3, <2>2, <3>2
  <2>11. GetPayloadLength(h) = x
    <3>1. CASE h.kind = "eth"
      BY <2>3, <2>9, <2>10, <3>1 DEF LenOver, GetPayloadLength
    <3>2. CASE h.kind = "ip6"
      <4>1. x < U16  BY <2>2, StackAssumption
      <4>2. n % U16 = n  BY <1>4, <2>2, <2>9, <3>2, <4>1
      <4> QED  BY <2>3, <2>9, <2>10, <3>2, <4>2 DEF LenOver, GetPayloadLength
    <3>3. CASE h.kind = "ip4"
      <4>1. HdrLen["ip4"] = g  BY <3>3 DEF g, GetLen
      <4>2. h.len = (g + x) % U16  BY <2>3, <2>9, <2>10, <3>3, <4>1 DEF LenOver
      <4>3. g + x \in Nat /\ g + x < U16  BY <2>2
      <4>4. h.len = g + x  BY <1>4, <4>2, <4>3
      <4>5. h.len - g = x /\ x < SizeMod  BY <2>2, <4>4, StackAssumption
      <4>6. GetPayloadLength(h) = Wrap(h.len - g)  BY <3>3 DEF GetPayloadLength, g
      <4> QED  BY <1>3, <2>2, <4>5, <4>6
    <3>4. CASE h.kind = "tcp"
      <4>1. h.len = n  BY <2>3, <2>10, <3>4 DEF LenOver
      <4>2. GetPayloadLength(h) = Least(Wrap(GetMtu(h) - g), n)
        BY <3>4, <4>1 DEF GetPayloadLength, g
      <4>3. Wrap(GetMtu(h) - g) = GetMtu(h) - g /\ GetMtu(h) - g \in Nat /\ x <= GetMtu(h) - g
        <5>1. GetMtu(h) - g \in Nat /\ x <= GetMtu(h) - g  BY <2>2
        <5>2. GetMtu(h) < SizeMod
          <6>1. GetMtu(h) \in Size  BY <1>1, <1>2, Lengths DEF h
          <6> QED  BY <6>1, StackAssumption DEF Size
        <5>3. GetMtu(h) - g < SizeMod  BY <2>2, <5>2, StackAssumption
        <5> QED  BY <1>3, <5>1, <5>3
      <4>4. CASE in.kind # "pay"
        BY <2>2, <2>5, <4>2, <4>3, <4>4 DEF Least
      <4>5. CASE in.kind = "pay"
        BY <2>2, <2>4, <2>7, <2>8, <4>2, <4>3, <4>5 DEF Least
      <4> QED  BY <4>4, <4>5
    <3> QED  BY <2>1, <3>1, <3>2, <3>3, <3>4, KindSet
  <2>12. Counts(i)  BY <2>2, <2>11 DEF h, g
  <2> QED  BY <1>1, <2>12
<1>7. 1..d \subseteq S
  <2> HIDE DEF S, d
  <2> QED  BY <1>1, <1>5, <1>6, DownFrom
<1> QED  BY <1>7

\* At every depth of encapsulation a header counts exactly the bytes that are filled
\* inside it, and they fit every MTU outside.
THEOREM LengthsCorrect == Spec => []LengthsNest
<1>1. IInv => LengthsNest
  <2> SUFFICES ASSUME IInv, InRange, Segments
               PROVE  \A i \in 1..Len(stack) : LET h == stack[i] IN
                        /\ h.kind # "pay" => GetLen(h) + GetPayloadLength(h) = Filled(i)
                        /\ Filled(i) <= GetMtu(h)
    <3>1. IInv => DOMAIN stack = 1..Len(stack)  BY DEF IInv, Settled, WellFormed
    <3> QED  BY <3>1 DEF LengthsNest
  <2> QED  BY LengthsCount, FilledFits
<1> QED  BY <1>1, Invariant, PTL
=============================================================================
