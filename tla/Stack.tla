-------------------------------- MODULE Stack --------------------------------
(***************************************************************************)
(* A packet template of any headers, nested as deeply as one likes:        *)
(* tunnelled packets have several headers of one layer, which a test       *)
(* selects by layer and nesting, counted from outside or from inside.      *)
(*                                                                         *)
(* A header keeps what propagation reads and writes. `len` is the length   *)
(* it stores: ip_len, ip6_plen, the payload length, or for the payload the *)
(* bytes that Next() has not passed yet. `type` is its ethertype or        *)
(* protocol. Both propagations are recursive functions from the outermost  *)
(* header (index 1) to the innermost.                                      *)
(***************************************************************************)
EXTENDS Integers, Sequences, FiniteSets

CONSTANTS
  SizeMod, U16,  \* the ranges of size_t and uint16_t
  HdrLen,        \* the sizes of the headers, by kind
  MaxDepth,      \* bound on the number of headers
  MaxMtus,       \* bound on the number of headers with an MTU
  MtuChoices,    \* the MTUs a test may set
  TypeChoices,   \* the ethertypes and protocols a test may set by hand
  MaxBytes       \* bound on the size of a payload vector

ASSUME StackAssumption ==
  /\ SizeMod \in Nat \ {0} /\ U16 \in 1..SizeMod /\ MaxDepth \in Nat /\ MaxMtus \in Nat
  /\ HdrLen \in [{"eth", "ip4", "ip6", "tcp"} -> Nat \ {0}] /\ HdrLen["ip4"] < U16
  /\ MtuChoices \subseteq 0..(SizeMod - 1) /\ MaxBytes \in 0..(SizeMod - 1)
  /\ TypeChoices \subseteq DOMAIN HdrLen

VARIABLE stack

LayerOf == [eth |-> "L2", ip4 |-> "L3", ip6 |-> "L3", tcp |-> "L4", pay |-> "PAYLOAD"]

Kinds == DOMAIN LayerOf
Layers == {LayerOf[k] : k \in Kinds}

DefaultMtu == SizeMod - 1
Wrap(x) == x % SizeMod
Least(a, b) == IF a <= b THEN a ELSE b
-----------------------------------------------------------------------------
(* One header.                                                             *)

New(k, bytes) ==
  [kind |-> k, localMtu |-> DefaultMtu, outerMtu |-> DefaultMtu, type |-> "none",
   len |-> CASE k = "pay" -> bytes [] k = "ip4" -> HdrLen[k] [] OTHER -> 0]

GetMtu(h) == Least(h.localMtu, h.outerMtu)

GetLen(h) == IF h.kind = "pay" THEN Least(h.len, h.localMtu) ELSE HdrLen[h.kind]

GetPayloadLength(h) ==
  CASE h.kind = "pay" -> 0
    [] h.kind = "ip4" -> Wrap(h.len - GetLen(h))
    [] h.kind = "tcp" -> Least(Wrap(GetMtu(h) - GetLen(h)), h.len)
    [] OTHER          -> h.len

SetPayloadLength(h, n) ==
  [h EXCEPT !.len = CASE h.kind = "ip4" -> (GetLen(h) + n) % U16
                      [] h.kind = "ip6" -> n % U16
                      [] OTHER          -> n]

\* Mutant: a type that the test or an earlier template set is left alone.
SetTypeOnce(outer, inner) ==
  IF LayerOf[inner.kind] \in {"L3", "L4"} /\ outer.type = "none"
  THEN [outer EXCEPT !.type = inner.kind] ELSE outer

\* Only L3 and L4 headers tell the header outside what they are.
SetType(outer, inner) ==
  IF LayerOf[inner.kind] \in {"L3", "L4"} THEN [outer EXCEPT !.type = inner.kind] ELSE outer

\* The inner header's OutwardFieldSetter.
Encapsulates(outer, inner) ==
  SetType(SetPayloadLength(outer, Wrap(GetLen(inner) + GetPayloadLength(inner))), inner)

\* The stacks that compile: only Ethernet has an ethertype, only IP a protocol.
\* Nothing goes into a payload. (A payload right inside an empty payload compiles
\* too, and throws only when the inner one gets bytes; it is left out.)
MayHold(outer, inner) ==
  /\ outer # "pay"
  /\ LayerOf[inner] = "L3" => outer = "eth"
  /\ LayerOf[inner] = "L4" => LayerOf[outer] = "L3"
-----------------------------------------------------------------------------
(* The stack.                                                              *)

PropagateInwards(s) ==
  LET inward[i \in DOMAIN s] ==
        IF i = 1 THEN s[1]
        ELSE LET outer == inward[i - 1]
             IN  [s[i] EXCEPT !.outerMtu = Wrap(GetMtu(outer) - GetLen(outer))]
  IN  [i \in DOMAIN s |-> inward[i]]

\* Mutant: every length is set before the inner header has its own.
PropagateOutermostFirst(s) ==
  [i \in DOMAIN s |-> IF i = Len(s) THEN s[i] ELSE Encapsulates(s[i], s[i + 1])]

PropagateOutwards(s) ==
  LET outward[i \in DOMAIN s] ==
        IF i = Len(s) THEN s[i] ELSE Encapsulates(s[i], outward[i + 1])
  IN  [i \in DOMAIN s |-> outward[i]]

Propagate(s) == PropagateOutwards(PropagateInwards(s))

CountLayers(s, layer) == Cardinality({i \in DOMAIN s : LayerOf[s[i].kind] = layer})

\* The index, counted from 1, of the n-th header of the layer.
FindLayerFromOuter(s, layer, n) ==
  LET find[i \in 1..(Len(s) + 1)] ==  \* from the i-th header on, for each nesting k
        [k \in 1..n |-> IF i > Len(s) THEN 0  \* there is none: it does not compile
                        ELSE IF LayerOf[s[i].kind] # layer THEN find[i + 1][k] + 1
                        ELSE IF k > 1 THEN find[i + 1][k - 1] + 1 ELSE 0]
  IN  find[1][n] + 1

\* Mutant: the innermost header is number 0 from inside.
FindLayerFromZero(s, layer, n) ==
  LET c == CountLayers(s, layer)
  IN  FindLayerFromOuter(s, layer, IF n > 0 THEN n ELSE Least(c, c + n + 2))

FindLayer(s, layer, n) ==
  FindLayerFromOuter(s, layer, IF n > 0 THEN n ELSE CountLayers(s, layer) + n + 1)

\* The nestings that compile.
Nestings(s, layer) == LET c == CountLayers(s, layer) IN (-c..c) \ {0}

\* WithHeader(layer<n>).Fields(..): slice the tuple around one header; its edited
\* copy takes its place.
Selected(layer, n) == stack[FindLayer(stack, layer, n)]

WithHeader(layer, n, copy) ==
  stack' = Propagate([stack EXCEPT ![FindLayer(stack, layer, n)] = copy])
-----------------------------------------------------------------------------
(* The operations of a template.                                           *)

\* PacketTemplate(..) of fresh headers.
Init ==
  \E d \in 1..MaxDepth, bytes \in 0..MaxBytes : \E k \in [1..d -> Kinds] :
    /\ \A i \in 1..(d - 1) : MayHold(k[i], k[i + 1])
    /\ stack = Propagate([i \in 1..d |-> New(k[i], bytes)])

\* PacketTemplate(stack, Header()) and PacketTemplate(Header(), stack)
AddInner(k) ==
  /\ Len(stack) < MaxDepth /\ MayHold(stack[Len(stack)].kind, k)
  /\ stack' = Propagate(Append(stack, New(k, 0)))

AddOuter(k) ==
  /\ Len(stack) < MaxDepth /\ MayHold(k, stack[1].kind)
  /\ stack' = Propagate(<<New(k, 0)>> \o stack)

\* mtu(m): the IP headers throw when m is too large.
WithMtu(layer, n, m) ==
  /\ layer = "L3" => m <= U16 - 1
  /\ WithHeader(layer, n, [Selected(layer, n) EXCEPT !.localMtu = m])
  /\ Cardinality({i \in DOMAIN stack : stack'[i].localMtu # DefaultMtu}) <= MaxMtus

\* ethertype(t) and proto(t)
WithType(layer, n, t) ==
  /\ layer \in {"L2", "L3"}
  /\ WithHeader(layer, n, [Selected(layer, n) EXCEPT !.type = t])

\* payload(..), appendPayload(..), length(..)
WithPayload(n, bytes) ==
  WithHeader("PAYLOAD", n, [Selected("PAYLOAD", n) EXCEPT !.len = bytes])

\* Mutant: the payload moves on by the MTU, also when less is left.
NextByMtu(h) == IF h.kind = "pay" THEN [h EXCEPT !.len = @ - GetMtu(h)] ELSE h

\* The payload skips what FillPacket copies; no other header has a length or type
\* that Next() changes.
NextHeader(h) ==
  IF h.kind = "pay" THEN [h EXCEPT !.len = @ - Least(GetLen(h), GetMtu(h))] ELSE h

NextSegment == stack' = Propagate([i \in DOMAIN stack |-> NextHeader(stack[i])])

Fields ==
  \E layer \in Layers : \E n \in Nestings(stack, layer) :
    \/ \E m \in MtuChoices : WithMtu(layer, n, m)
    \/ \E t \in TypeChoices : WithType(layer, n, t)
    \/ layer = "PAYLOAD" /\ \E bytes \in 0..MaxBytes : WithPayload(n, bytes)

Next == NextSegment \/ Fields \/ \E k \in Kinds : AddInner(k) \/ AddOuter(k)

Spec == Init /\ [][Next]_stack
-----------------------------------------------------------------------------
(* Correctness.                                                            *)

\* Every length fits the field that keeps it, and no stack is built that the
\* headers' setters could not serve.
TypeOK ==
  /\ Len(stack) \in 1..MaxDepth
  /\ \A i \in DOMAIN stack : LET h == stack[i] IN
       /\ h.kind \in Kinds /\ h.type \in Kinds \cup {"none"}
       /\ {h.localMtu, h.outerMtu, h.len} \subseteq 0..(SizeMod - 1)
       /\ LayerOf[h.kind] = "L3" => h.len < U16

OfLayer(layer) == {i \in DOMAIN stack : LayerOf[stack[i].kind] = layer}

\* WithHeader edits the header one means: counted from outside, n - 1 headers of
\* that layer are outside of it; counted from inside, -n - 1 are inside of it.
SelectsTheNth ==
  \A layer \in Layers : \A n \in Nestings(stack, layer) :
    LET i == FindLayer(stack, layer, n) IN
      /\ i \in OfLayer(layer)
      /\ n > 0 => Cardinality({j \in OfLayer(layer) : j < i}) = n - 1
      /\ n < 0 => Cardinality({j \in OfLayer(layer) : j > i}) = -n - 1

\* A header that holds IP or TCP says so, whatever a test wrote into its type and
\* whatever it held before.
TypesNameInner ==
  \A i \in 1..(Len(stack) - 1) :
    LayerOf[stack[i + 1].kind] \in {"L3", "L4"} => stack[i].type = stack[i + 1].kind

\* The bytes that FillPacket writes for the header at i and everything inside it.
Filled(i) ==
  LET from[j \in 1..(Len(stack) + 1)] ==
        IF j > Len(stack) THEN 0
        ELSE from[j + 1] + (IF stack[j].kind = "pay" THEN Least(GetLen(stack[j]), GetMtu(stack[j]))
                                                     ELSE GetLen(stack[j]))
  IN  from[i]

\* No length field overflows and no MTU is smaller than the headers it must hold.
InRange ==
  /\ Filled(1) < U16
  /\ \A i \in DOMAIN stack : stack[i].kind # "pay" =>
       stack[i].localMtu >= Filled(i) - (IF stack[Len(stack)].kind = "pay"
                                         THEN Filled(Len(stack)) ELSE 0)

\* Only TCP takes the MTU into account in the length it tells the outer header:
\* a payload right inside IP or Ethernet announces more than an outer MTU lets it
\* fill. TCP around the payload is what MTUs are for.
Segments ==
  LET d == Len(stack) IN
    stack[d].kind = "pay" => (d > 1 /\ stack[d - 1].kind = "tcp") \/ GetMtu(stack[d]) >= GetLen(stack[d])

\* At every depth of encapsulation a header counts exactly the bytes that the
\* headers inside it and the payload fill, and no more than any MTU outside.
LengthsNest ==
  InRange /\ Segments =>
    \A i \in DOMAIN stack : LET h == stack[i] IN
      /\ h.kind # "pay" => GetLen(h) + GetPayloadLength(h) = Filled(i)
      /\ Filled(i) <= GetMtu(h)
=============================================================================
