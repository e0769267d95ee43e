----------------------------- MODULE MCAdbFlow -----------------------------
(* AdbFlow for TLC: one stream of the connection and its writers. *)
EXTENDS AdbFlow, TLC

CONSTANTS s1, w1, w2, p1, p2, p3

OneStream == {s1}
OneWriter == {w1}
TwoWriters == {w1, w2}
Mine == w1 :> s1
Shared == w1 :> s1 @@ w2 :> s1
OnePointer == {p1}
ThreePointers == {p1, p2, p3}

\* Bounds for each use: bytes of plain and sync streams, messages of a control stream.
Pending == [plain |-> 1, sync |-> 1, control |-> 4]
Accepted == [plain |-> 2, sync |-> 2, control |-> 5]
DeviceWrote == [plain |-> 2, sync |-> 1, control |-> 0]

PendingLive == [plain |-> 2, sync |-> 1, control |-> 2]
AcceptedLive == [plain |-> 4, sync |-> 2, control |-> 3]
DeviceWroteLive == [plain |-> 0, sync |-> 0, control |-> 0]

Symmetry == Permutations(TwoWriters) \cup Permutations(ThreePointers)
=============================================================================
