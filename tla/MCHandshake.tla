---------------------------- MODULE MCHandshake ----------------------------
(* Model-checking instance of Handshake.                                   *)
EXTENDS Handshake
=============================================================================
