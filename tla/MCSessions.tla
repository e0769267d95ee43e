------------------------------ MODULE MCSessions ------------------------------
(* Sessions for TLC: a session and its replacement. *)
EXTENDS Sessions

=============================================================================
