--------------------------- MODULE MCMediaPackets ---------------------------
(* MediaPackets for TLC: both media over a small pool. *)
EXTENDS MediaPackets, TLC

CONSTANTS p1, p2, p3
TwoPackets == {p1, p2}
ThreePackets == {p1, p2, p3}
=============================================================================
