-------------------------- MODULE MCStreamManager --------------------------
(* StreamManager for TLC: its two modes, with and without audio. *)
EXTENDS StreamManager, TLC
=============================================================================
