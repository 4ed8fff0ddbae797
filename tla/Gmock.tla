-------------------------------- MODULE Gmock ---------------------------------
(***************************************************************************)
(* googlemock (external), as far as the tests use it: strict mocks whose   *)
(* expectations all say Times(1), with RetiresOnSaturation (getmicrotime)  *)
(* or without it, inside a Sequence or outside.                            *)
(*                                                                         *)
(* The expectations of a test are a sequence in the order in which the     *)
(* test states them. `arg` is the argument an expectation wants; the one   *)
(* of getmicrotime takes any pointer, and `arg` is the time it stores.     *)
(***************************************************************************)
EXTENDS Integers, Sequences

\* The immediate and the remote prerequisites of a new expectation: those
\* stated before it in one of its sequences.
Prerequisites(es, seqs) == {i \in DOMAIN es : es[i].seqs \cap seqs # {}}

Expectation(es, fn, arg, seqs) ==
  [fn |-> fn, arg |-> arg, seqs |-> seqs, pre |-> Prerequisites(es, seqs),
   retires |-> fn = "getmicrotime", called |-> FALSE, over |-> FALSE,
   retired |-> FALSE]

\* An expectation was called as often as it says: `over` is set by a call too
\* many, after which gmock counts it as satisfied no longer.
IsSatisfied(e) == e.called /\ ~e.over

\* An expectation that may handle the call.
Handles(es, i, fn, arg) ==
  /\ es[i].fn = fn /\ ~es[i].retired
  /\ \A j \in es[i].pre : IsSatisfied(es[j])
  /\ fn # "getmicrotime" => es[i].arg = arg

Handling(es, fn, arg) == {i \in DOMAIN es : Handles(es, i, fn, arg)}

\* The newest of them does.
Handler(es, fn, arg) ==
  CHOOSE i \in Handling(es, fn, arg) : \A j \in Handling(es, fn, arg) : j <= i

\* The expectations after the call; the prerequisites of the handler retire.
Called(es, fn, arg) ==
  IF Handling(es, fn, arg) = {} THEN es
  ELSE LET h == Handler(es, fn, arg) IN
       [i \in DOMAIN es |->
          [es[i] EXCEPT !.over    = @ \/ (i = h /\ es[h].called),
                        !.called  = @ \/ i = h,
                        !.retired = @ \/ i \in es[h].pre \/ (i = h /\ es[h].retires)]]

\* What is reported of the call: a strict mock expects no other calls.
CallFailures(es, fn, arg) ==
  IF Handling(es, fn, arg) = {} THEN {"unexpected"}
  ELSE IF es[Handler(es, fn, arg)].called THEN {"excess"} ELSE {}

\* What is reported when the mock object of these functions is destroyed: the
\* excess calls were reported when they were made.
Verify(es, fns) ==
  IF \E i \in DOMAIN es : es[i].fn \in fns /\ ~es[i].called THEN {"unmet"} ELSE {}
=============================================================================
