------------------------------ MODULE ByteFifo ------------------------------
(***************************************************************************)
(* What a stream's read buffer promises: a bounded first-in first-out      *)
(* queue of bytes.  Byte k is the k-th byte of the stream.  Until the      *)
(* buffer is closed every byte is queued exactly once and in order; once   *)
(* it is closed the writer may discard bytes, and the reader then sees a   *)
(* gap but never a byte out of order, twice or altered.                    *)
(***************************************************************************)
EXTENDS Naturals, Sequences

CONSTANT Capacity

VARIABLES queue,   \* the bytes committed and not yet consumed
          sent,    \* how many bytes of the stream have been queued or discarded
          closed

vars == <<queue, sent, closed>>

Init ==
  /\ queue = <<>>
  /\ sent = 0
  /\ closed = FALSE

Put ==
  \E n \in 1..Capacity :
    /\ Len(queue) + n <= Capacity
    /\ queue' = queue \o [k \in 1..n |-> sent + k]
    /\ sent' = sent + n
    /\ UNCHANGED closed

Get ==
  \E n \in 1..Capacity :
    /\ n <= Len(queue)
    /\ queue' = SubSeq(queue, n + 1, Len(queue))
    /\ UNCHANGED <<sent, closed>>

Discard ==
  /\ closed
  /\ sent' \in Nat
  /\ sent' > sent
  /\ UNCHANGED <<queue, closed>>

Close ==
  /\ closed' = TRUE
  /\ UNCHANGED <<queue, sent>>

Next == Put \/ Get \/ Discard \/ Close

Spec == Init /\ [][Next]_vars
=============================================================================
