---------------------------- MODULE SharedStorage ----------------------------
(* What mbufs with external storage promise: a buffer that several mbufs      *)
(* refer to lives until the last of them lets go, and is released in that     *)
(* very step. There is no counter here and no mbuf that keeps one.            *)

CONSTANTS Mbufs, Bufs

VARIABLES
  refs,    \* for each buffer, the mbufs that refer to it
  storage  \* the buffers that are allocated

vars == <<refs, storage>>

Init == refs = [b \in Bufs |-> {}] /\ storage = {}

Attach(b, m) ==
  /\ b \notin storage
  /\ refs' = [refs EXCEPT ![b] = {m}]
  /\ storage' = storage \cup {b}

Share(b, m) ==
  /\ b \in storage
  /\ refs' = [refs EXCEPT ![b] = @ \cup {m}]
  /\ UNCHANGED storage

Drop(b, m) ==
  /\ m \in refs[b]
  /\ refs' = [refs EXCEPT ![b] = @ \ {m}]
  /\ storage' = IF refs[b] = {m} THEN storage \ {b} ELSE storage

\* The test ends: nobody will look at what it left behind.
Abandon ==
  /\ refs' = [b \in Bufs |-> {}]
  /\ storage' = {}

Next ==
  \/ \E b \in Bufs, m \in Mbufs : Attach(b, m) \/ Share(b, m) \/ Drop(b, m)
  \/ Abandon

Spec == Init /\ [][Next]_vars
=============================================================================
