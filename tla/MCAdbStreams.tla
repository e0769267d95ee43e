----------------------------- MODULE MCAdbStreams -----------------------------
(* AdbStreams for TLC: a command beside a socket, and each use alone. *)
EXTENDS AdbStreams, TLC

CONSTANTS s1, s2

MCMixes == {s1 :> "command" @@ s2 :> "socket"} \cup {s1 :> u @@ s2 :> "none" : u \in Kinds}
=============================================================================
