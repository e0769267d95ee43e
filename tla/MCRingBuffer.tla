---------------------------- MODULE MCRingBuffer ----------------------------
(* RingBuffer for TLC. *)
EXTENDS RingBuffer

\* An exact read, blocking and timed, and a read that takes what is there.
MCReads == {[want |-> 2, target |-> 2, timed |-> FALSE],
            [want |-> 2, target |-> 2, timed |-> TRUE],
            [want |-> 3, target |-> 1, timed |-> FALSE]}
=============================================================================
