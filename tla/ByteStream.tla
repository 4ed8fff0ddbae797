----------------------------- MODULE ByteStream -----------------------------
(***************************************************************************)
(* What a packet template promises to the test that walks it: a buffer of  *)
(* payload bytes that is handed out segment after segment.                 *)
(*                                                                         *)
(* The abstract stream knows nothing of headers, MTUs or length fields. At *)
(* any moment it offers one segment: seg bytes from offset cursor on, the  *)
(* first of them with sequence number seq. Advancing moves the cursor and  *)
(* the sequence number past exactly that segment, so that the segments     *)
(* offered one after the other neither overlap nor leave a gap.            *)
(***************************************************************************)
EXTENDS Integers

CONSTANTS
  SeqMod,      \* sequence numbers are taken modulo SeqMod
  MaxPayload   \* bound on the number of bytes in the buffer

VARIABLES
  total,       \* number of payload bytes in the buffer
  cursor,      \* offset of the first byte that was not sent yet
  seg,         \* number of bytes in the segment that is ready
  seq          \* sequence number of the byte at offset cursor

vars == <<total, cursor, seg, seq>>

Init ==
  /\ total \in 0..MaxPayload
  /\ cursor = 0
  /\ seg \in 0..total
  /\ seq \in 0..(SeqMod - 1)

\* The next segment may have any size that the remaining bytes allow.
Resegment == seg' \in 0..(total' - cursor')

Advance ==
  /\ cursor' = cursor + seg
  /\ seq' = (seq + seg) % SeqMod
  /\ Resegment
  /\ UNCHANGED total

\* Another MTU changes the size of the segment, never its position.
Repack == Resegment /\ UNCHANGED <<total, cursor, seq>>

Seek ==
  /\ seq' \in 0..(SeqMod - 1)
  /\ UNCHANGED <<total, cursor, seg>>

Replace ==
  /\ total' \in 0..MaxPayload
  /\ cursor' = 0
  /\ Resegment
  /\ UNCHANGED seq

Extend ==
  /\ total' \in total..MaxPayload
  /\ Resegment
  /\ UNCHANGED <<cursor, seq>>

Truncate ==
  /\ total' \in 0..total
  /\ cursor' = IF total' < cursor THEN total' ELSE cursor
  /\ Resegment
  /\ UNCHANGED seq

Next == Advance \/ Repack \/ Seek \/ Replace \/ Extend \/ Truncate

Spec == Init /\ [][Next]_vars
=============================================================================
