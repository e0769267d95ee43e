----------------------------- MODULE MCDecoder -----------------------------
(* Model-checking instance of Decoder.  One unit of time is about 10 ms:   *)
(* an interval of two, a tolerance of one, a lead of at most three, a lag  *)
(* of at most four and gaps of at most eight.                              *)
EXTENDS Decoder

\* A steady stream; a long interval after a steady one; a jump beyond the gap and a step back; a
\* time stamp below zero.
Streams == {<<0, 2, 4, 6>>, <<0, 2, 7, 8>>, <<0, 20, 1, 3>>, <<5, -1, 7, 9>>}
=============================================================================
