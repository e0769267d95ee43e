-------------------------- MODULE StreamEndsProofs --------------------------
(***************************************************************************)
(* The two ends of a stream: the buffer that holds what has arrived, and   *)
(* the services that write requests and read answers.                      *)
(*                                                                         *)
(* What RingBuffer promises, proved for every capacity, every number of    *)
(* bytes and every set of read rounds:                                     *)
(*                                                                         *)
(*   TypeCorrect, BoundsCorrect   the inductive invariant, TypeOK /\ Bounds *)
(*   RaceFree                     from it, by arithmetic modulo Capacity   *)
(*   LockCorrect                  mutex_ is held where the code holds it   *)
(*   Implements                   the ring is the queue of ByteFifo; it    *)
(*                                needs Filled (what the producer received *)
(*                                is in its region until it commits it)    *)
(*                                and DrainsClosed                         *)
(*                                                                         *)
(* What SyncService promises, proved for every file:                       *)
(*                                                                         *)
(*   ServiceInvariant             the inductive invariant                  *)
(*   ServiceTypesHold             only blocks of the file are written to   *)
(*                                the local file                           *)
(*   WhatIsToldIsTrue             what is told of an operation is what the *)
(*                                device did                               *)
(*   NothingLeftOpen              no operation leaves a stream open        *)
(***************************************************************************)
EXTENDS RingBuffer, SyncService, SequenceTheorems, TLAPS

USE DEF Threads, Waiters, Slots

-----------------------------------------------------------------------------
(* Arithmetic modulo the capacity.                                         *)

LEMMA DivMod ==
  ASSUME NEW a \in Nat, NEW C \in Nat \ {0}
  PROVE  a = C * (a \div C) + (a % C) /\ a % C \in 0..(C - 1) /\ a \div C \in Nat
  BY SMT

LEMMA MulGap ==
  ASSUME NEW C \in Nat \ {0}, NEW p \in Nat, NEW q \in Nat, p < q
  PROVE  C * p + C <= C * q
<1>1. q >= p + 1
  OBVIOUS
<1>2. C * q = C * (p + 1) + C * (q - (p + 1))
  BY <1>1, SMT
<1>3. C * (q - (p + 1)) >= 0
  BY <1>1, SMT
<1> QED
  BY <1>2, <1>3, SMT

LEMMA DivUnique ==
  ASSUME NEW C \in Nat \ {0}, NEW p \in Nat, NEW q \in Nat,
         NEW r \in 0..(C - 1), NEW s \in 0..(C - 1), C * p + r = C * q + s
  PROVE  p = q /\ r = s
<1>1. CASE p < q
  BY <1>1, MulGap, SMT
<1>2. CASE q < p
  BY <1>2, MulGap, SMT
<1> QED
  BY <1>1, <1>2, SMT

\* Within the turn of the ring that a starts in, the slots are consecutive.
LEMMA ModShift ==
  ASSUME NEW a \in Nat, NEW k \in Nat, NEW C \in Nat \ {0}, (a % C) + k < C
  PROVE  (a + k) % C = (a % C) + k
<1> DEFINE p == a \div C
           q == (a + k) \div C
<1>1. a = C * p + (a % C) /\ p \in Nat /\ a % C \in 0..(C - 1)
  BY DivMod
<1>2. a + k \in Nat
  OBVIOUS
<1>3. a + k = C * q + ((a + k) % C) /\ q \in Nat /\ (a + k) % C \in 0..(C - 1)
  BY <1>2, DivMod
<1>4. C * p + ((a % C) + k) = C * q + ((a + k) % C)
  BY <1>1, <1>3, SMT
<1>5. (a % C) + k \in 0..(C - 1)
  BY <1>1, SMT
<1> HIDE DEF p, q
<1> QED
  BY <1>1, <1>3, <1>4, <1>5, DivUnique

\* Two bytes less than a capacity apart lie in different slots.
LEMMA ModDistinct ==
  ASSUME NEW a \in Nat, NEW b \in Nat, NEW C \in Nat \ {0}, a < b, b < a + C
  PROVE  a % C # b % C
<1> DEFINE p == a \div C
           q == b \div C
<1>1. a = C * p + (a % C) /\ p \in Nat /\ a % C \in 0..(C - 1)
  BY DivMod
<1>2. b = C * q + (b % C) /\ q \in Nat /\ b % C \in 0..(C - 1)
  BY DivMod
<1> HIDE DEF p, q
<1>3. CASE p < q
  BY <1>1, <1>2, <1>3, MulGap, SMT
<1>4. CASE q < p
  BY <1>1, <1>2, <1>4, MulGap, SMT
<1>5. CASE p = q
  BY <1>1, <1>2, <1>5, SMT
<1> QED
  BY <1>1, <1>2, <1>3, <1>4, <1>5, SMT

LEMMA Within ==
  ASSUME NEW h \in Nat, NEW t \in Nat, NEW c \in Nat, NEW i \in Nat, NEW w \in Nat, NEW n \in Nat,
         n <= w, h + w <= t + c, i + w <= c
  PROVE  h + n <= t + c /\ i + n <= c
  OBVIOUS

\* The space of a region: what getWritePtr and copyTo cut it to.
LEMMA Spaces ==
  ASSUME TypeOK, Bounds
  PROVE  /\ WriteIdx \in Slots /\ ReadIdx \in Slots
         /\ WriteSpace \in Nat /\ head + WriteSpace <= tail + Capacity
         /\ WriteIdx + WriteSpace <= Capacity
         /\ ReadSpace \in Nat /\ ReadSpace <= left /\ tail + ReadSpace <= head
         /\ ReadIdx + ReadSpace <= Capacity
<1>1. Capacity \in Nat \ {0} /\ head \in Nat /\ tail \in Nat /\ left \in Nat
  BY RingAssumption DEF TypeOK
<1>2. WriteIdx \in Slots /\ ReadIdx \in Slots
  BY <1>1, DivMod DEF WriteIdx, ReadIdx
<1>3. tail <= head /\ head <= tail + Capacity
  BY DEF Bounds
<1> HIDE DEF WriteIdx, ReadIdx
<1> QED
  BY <1>1, <1>2, <1>3, SMT DEF WriteSpace, ReadSpace, FreeSpace, Size, Smaller

-----------------------------------------------------------------------------
(* The inductive invariant.                                                *)

IInv == TypeOK /\ Bounds

LEMMA GotoType ==
  ASSUME TypeOK, NEW t \in Threads, NEW l \in Labels, Goto(t, l)
  PROVE  pc' \in [Threads -> Labels] /\ \A u \in Threads : pc'[u] = IF u = t THEN l ELSE pc[u]
  BY DEF TypeOK, Goto

LEMMA NotifyType ==
  ASSUME TypeOK, NEW t \in Threads, NEW l \in Labels, NotifyAll(t, l)
  PROVE  /\ pc' \in [Threads -> Labels] /\ pc'[t] = l
         /\ \A u \in Threads : u # t => \/ pc'[u] = pc[u]
                                        \/ pc[u] = "asleep" /\ pc'[u] = "lock"
  BY DEF TypeOK, NotifyAll, Labels, WaitLabels

LEMMA ReturnedType ==
  ASSUME NEW t \in Waiters, NEW ok \in BOOLEAN
  PROVE  Returned(t, ok) \in {"get", "drain", "copy", "idle"}
  BY DEF Returned

\* What every step of a wait does: it moves only the thread that waits, to where neither
\* cursor moves.
LEMMA WaitStep ==
  ASSUME TypeOK, NEW t \in Waiters, Wait(t)
  PROVE  /\ UNCHANGED <<closed, data>>
         /\ mutex' \in {mutex, t, "none"}
         /\ \E l \in WaitLabels \cup {"get", "drain", "copy", "idle"} : Goto(t, l)
<1>1. CASE FastPath(t)
  BY <1>1, ReturnedType DEF FastPath, WaitLabels
<1>2. CASE Lock(t)
  BY <1>2 DEF Lock, WaitLabels
<1>3. CASE Check(t)
  <2>1. (Ready(t) \/ Timed(t)) \in BOOLEAN
    BY DEF Ready, Timed, TypeOK
  <2> QED
    BY <1>3, <2>1, ReturnedType DEF Check, WaitLabels
<1>4. CASE Doze(t)
  BY <1>4 DEF Doze, MutexWhileAsleep, WaitLabels
<1>5. CASE Expire(t)
  BY <1>5, ReturnedType DEF Expire, AfterTimeout
<1> QED
  BY <1>1, <1>2, <1>3, <1>4, <1>5 DEF Wait

LEMMA InitInv == Init => IInv
<1> SUFFICES ASSUME Init PROVE IInv
  OBVIOUS
<1>1. TypeOK
  <2>1. pc \in [Threads -> Labels]
    BY DEF Init, Labels
  <2>2. buffer \in [Slots -> Nat]
    BY DEF Init
  <2> QED
    BY <2>1, <2>2 DEF Init, TypeOK
<1>2. Bounds
  BY RingAssumption DEF Init, Bounds
<1> QED
  BY <1>1, <1>2 DEF IInv

LEMMA TypeStep == IInv /\ [Next]_vars => TypeOK'
<1> SUFFICES ASSUME IInv, [Next]_vars PROVE TypeOK'
  OBVIOUS
<1> USE RingAssumption
<1>0. TypeOK /\ Bounds
  BY DEF IInv
<1>1. CASE GetWritePtr
  <2>1. \E l \in Labels : Goto("producer", l)
    BY <1>1 DEF GetWritePtr, Labels, WaitLabels
  <2>2. region' \in Nat
    <3>1. WriteSpace \in Nat
      BY <1>0, Spaces
    <3>2. region' = region \/ region' \in 1..WriteSpace
      BY <1>1 DEF GetWritePtr
    <3> QED
      BY <1>0, <3>1, <3>2 DEF TypeOK
  <2> QED
    BY <1>0, <1>1, <2>1, <2>2, GotoType DEF GetWritePtr, TypeOK
<1>2. CASE Fill
  <2>1. pc' \in [Threads -> Labels]
    BY <1>0, <1>2, GotoType DEF Fill, Labels, WaitLabels
  <2>2. buffer' \in [Slots -> Nat]
    <3>1. WriteIdx \in Nat
      BY <1>0, Spaces
    <3>2. \A s \in WriteIdx .. WriteIdx + region - 1 : next + 1 + (s - WriteIdx) \in Nat
      BY <1>0, <3>1 DEF TypeOK
    <3> QED
      BY <1>0, <1>2, <3>2 DEF Fill, TypeOK
  <2> QED
    BY <1>0, <1>2, <2>1, <2>2 DEF Fill, TypeOK
<1>3. CASE CommitWrite
  BY <1>0, <1>3, GotoType DEF CommitWrite, TypeOK, Labels
<1>4. CASE CommitNotify
  BY <1>0, <1>4, NotifyType DEF CommitNotify, TypeOK, Labels
<1>5. CASE Drain
  <2>1. next' \in Nat
    BY <1>0, <1>5 DEF Drain, TypeOK
  <2> QED
    BY <1>0, <1>5, <2>1, GotoType DEF Drain, TypeOK, Labels
<1>6. CASE StartRead
  <2>1. read' \in Reads /\ left' \in Nat
    BY <1>6 DEF StartRead
  <2>2. pc' \in [Threads -> Labels]
    BY <1>0, <1>6, GotoType DEF StartRead, Labels, WaitLabels
  <2> QED
    BY <1>0, <1>6, <2>1, <2>2 DEF StartRead, TypeOK
<1>7. CASE GetReadPtr
  <2>1. \E l \in Labels : Goto("consumer", l)
    BY <1>7 DEF GetReadPtr, Labels, WaitLabels
  <2>2. taken' \in Nat
    BY <1>0, <1>7, Spaces DEF GetReadPtr, TypeOK
  <2> QED
    BY <1>0, <1>7, <2>1, <2>2, GotoType DEF GetReadPtr, TypeOK
<1>8. CASE ConsumeRead
  <2>1. tail' \in Nat /\ left' \in Nat
    BY <1>0, <1>8 DEF ConsumeRead, TypeOK, Bounds
  <2> QED
    BY <1>0, <1>8, <2>1, GotoType DEF ConsumeRead, TypeOK, Labels
<1>9. CASE ConsumeNotify
  BY <1>0, <1>9, NotifyType DEF ConsumeNotify, TypeOK, Labels
<1>10. CASE Close
  <2>1. pc' \in [Threads -> Labels]
    BY <1>0, <1>10, GotoType, NotifyType DEF Close, AfterClosed, Labels, WaitLabels
  <2>2. closed' \in BOOLEAN /\ mutex' \in Threads \cup {"none"}
    BY <1>0, <1>10 DEF Close, TypeOK
  <2> QED
    BY <1>0, <1>10, <2>1, <2>2 DEF Close, data, TypeOK
<1>11. ASSUME NEW t \in Waiters, Wait(t) PROVE TypeOK'
  <2>1. pc' \in [Threads -> Labels]
    BY <1>0, <1>11, WaitStep, GotoType DEF Labels
  <2>2. mutex' \in Threads \cup {"none"}
    BY <1>0, <1>11, WaitStep DEF TypeOK
  <2> QED
    BY <1>0, <1>11, <2>1, <2>2, WaitStep DEF data, TypeOK
<1>12. CASE UNCHANGED vars
  BY <1>0, <1>12 DEF vars, TypeOK
<1> QED
  BY <1>1, <1>2, <1>3, <1>4, <1>5, <1>6, <1>7, <1>8, <1>9, <1>10, <1>11, <1>12
  DEF Next, Producer, Consumer

\* Only the producer's own steps reach or leave the labels at which a region is its own.
LEMMA BoundsStep == IInv /\ [Next]_vars => Bounds'
<1> SUFFICES ASSUME IInv, [Next]_vars PROVE Bounds'
  OBVIOUS
<1> USE RingAssumption
<1>0. TypeOK /\ Bounds /\ TypeOK'
  BY TypeStep DEF IInv
<1>1. CASE GetWritePtr
  <2>1. /\ pc'["consumer"] = pc["consumer"]
        /\ pc'["producer"] \in {"wait", "fill"}
        /\ pc'["producer"] = "fill" => region' \in 1..WriteSpace
    BY <1>0, <1>1, GotoType DEF GetWritePtr, Labels, WaitLabels
  <2>2. pc'["producer"] = "fill" =>
          region' > 0 /\ head + region' <= tail + Capacity /\ WriteIdx + region' <= Capacity
    <3> SUFFICES ASSUME region' \in 1..WriteSpace
                 PROVE  region' > 0 /\ head + region' <= tail + Capacity
                          /\ WriteIdx + region' <= Capacity
      BY <2>1
    <3>1. WriteIdx \in Nat /\ WriteSpace \in Nat /\ head + WriteSpace <= tail + Capacity
            /\ WriteIdx + WriteSpace <= Capacity
      BY <1>0, Spaces
    <3>2. head \in Nat /\ tail \in Nat /\ Capacity \in Nat /\ region' \in Nat
      BY <1>0 DEF TypeOK
    <3>3. region' > 0 /\ region' <= WriteSpace
      BY <3>1, <3>2
    <3> QED
      BY <3>1, <3>2, <3>3, Within
  <2> QED
    BY <1>0, <1>1, <2>1, <2>2 DEF GetWritePtr, Bounds, WriteIdx, ReadIdx
<1>2. CASE Fill
  <2>1. pc'["consumer"] = pc["consumer"]
    BY <1>0, <1>2, GotoType DEF Fill, Labels
  <2> QED
    BY <1>0, <1>2, <2>1 DEF Fill, Bounds, WriteIdx, ReadIdx
<1>3. CASE CommitWrite
  <2>1. pc'["consumer"] = pc["consumer"] /\ pc'["producer"] = "notify"
    BY <1>0, <1>3, GotoType DEF CommitWrite, Labels
  <2>2. tail <= head' /\ head' <= tail + Capacity /\ head' >= head
    BY <1>0, <1>3 DEF CommitWrite, Bounds, TypeOK
  <2> QED
    BY <1>0, <1>3, <2>1, <2>2 DEF CommitWrite, Bounds, ReadIdx, TypeOK
<1>4. CASE CommitNotify
  <2>1. pc'["producer"] = "get" /\ (pc'["consumer"] = "consume" => pc["consumer"] = "consume")
    BY <1>0, <1>4, NotifyType DEF CommitNotify, Labels
  <2> QED
    BY <1>0, <1>4, <2>1 DEF CommitNotify, Bounds, ReadIdx
<1>5. CASE Drain
  <2>1. pc'["producer"] = "get" /\ pc'["consumer"] = pc["consumer"]
    BY <1>0, <1>5, GotoType DEF Drain, Labels
  <2> QED
    BY <1>0, <1>5, <2>1 DEF Drain, Bounds, ReadIdx
<1>6. CASE StartRead
  <2>1. pc'["producer"] = pc["producer"] /\ pc'["consumer"] = "wait"
    BY <1>0, <1>6, GotoType DEF StartRead, Labels, WaitLabels
  <2> QED
    BY <1>0, <1>6, <2>1 DEF StartRead, Bounds, WriteIdx
<1>7. CASE GetReadPtr
  <2>1. /\ pc'["producer"] = pc["producer"]
        /\ pc'["consumer"] = "consume" => taken' = ReadSpace /\ ReadSpace > 0
    BY <1>0, <1>7, GotoType DEF GetReadPtr, Labels
  <2>2. ReadSpace <= left /\ tail + ReadSpace <= head /\ ReadIdx + ReadSpace <= Capacity
    BY <1>0, Spaces
  <2> QED
    BY <1>0, <1>7, <2>1, <2>2 DEF GetReadPtr, Bounds, WriteIdx, ReadIdx
<1>8. CASE ConsumeRead
  <2>1. pc'["producer"] = pc["producer"] /\ pc'["consumer"] = "notify"
    BY <1>0, <1>8, GotoType DEF ConsumeRead, Labels
  <2>2. tail' <= head /\ tail <= tail'
    BY <1>0, <1>8 DEF ConsumeRead, Bounds, TypeOK
  <2>3. WriteIdx \in Nat
    BY <1>0, Spaces
  <2> HIDE DEF WriteIdx
  <2>4. WriteIdx' = WriteIdx
    BY <1>8 DEF ConsumeRead, WriteIdx
  <2> QED
    BY <1>0, <1>8, <2>1, <2>2, <2>3, <2>4 DEF ConsumeRead, Bounds, TypeOK
<1>9. CASE ConsumeNotify
  <2>1. /\ pc'["consumer"] = "copy"
        /\ pc'["producer"] \in {"fill", "commit"} => pc'["producer"] = pc["producer"]
    BY <1>0, <1>9, NotifyType DEF ConsumeNotify, Labels
  <2> QED
    BY <1>0, <1>9, <2>1 DEF ConsumeNotify, Bounds, WriteIdx
<1>10. CASE Close
  <2>1. /\ pc'["producer"] \in {"fill", "commit"} => pc'["producer"] = pc["producer"]
        /\ pc'["consumer"] = "consume" => pc["consumer"] = "consume"
    BY <1>0, <1>10, GotoType, NotifyType DEF Close, AfterClosed, Labels, WaitLabels
  <2> QED
    BY <1>0, <1>10, <2>1 DEF Close, data, Bounds, WriteIdx, ReadIdx
<1>11. ASSUME NEW t \in Waiters, Wait(t) PROVE Bounds'
  <2>1. /\ pc'["producer"] \in {"fill", "commit"} => pc'["producer"] = pc["producer"]
        /\ pc'["consumer"] = "consume" => pc["consumer"] = "consume"
    BY <1>0, <1>11, WaitStep, GotoType DEF Labels, WaitLabels
  <2> QED
    BY <1>0, <1>11, <2>1, WaitStep DEF data, Bounds, WriteIdx, ReadIdx
<1>12. CASE UNCHANGED vars
  BY <1>0, <1>12 DEF vars, Bounds, WriteIdx, ReadIdx
<1> QED
  BY <1>1, <1>2, <1>3, <1>4, <1>5, <1>6, <1>7, <1>8, <1>9, <1>10, <1>11, <1>12
  DEF Next, Producer, Consumer

THEOREM Inductive == Spec => []IInv
<1>1. IInv /\ [Next]_vars => IInv'
  BY TypeStep, BoundsStep DEF IInv
<1> QED
  BY InitInv, <1>1, PTL DEF Spec

\* TypeOK and Bounds hold in every reachable state: head_ and tail_ never cross, never lie more
\* than a capacity apart, and a region handed out to a side stays inside its free or filled part.
THEOREM TypeCorrect == Spec => []TypeOK
<1>1. IInv => TypeOK
  BY DEF IInv
<1> QED
  BY Inductive, <1>1, PTL

THEOREM BoundsCorrect == Spec => []Bounds
<1>1. IInv => Bounds
  BY DEF IInv
<1> QED
  BY Inductive, <1>1, PTL

-----------------------------------------------------------------------------
(* The lock-free sides never touch the same slot.                          *)

\* A slot of a region that does not wrap is that of a byte of the stream.
LEMMA SlotOf ==
  ASSUME NEW a \in Nat, NEW n \in Nat, NEW s \in Slots,
         (a % Capacity) + n <= Capacity, a % Capacity <= s, s < (a % Capacity) + n
  PROVE  \E b \in Nat : a <= b /\ b < a + n /\ s = b % Capacity
<1> DEFINE r == a % Capacity
           k == s - r
<1>0. Capacity \in Nat \ {0}
  BY RingAssumption
<1>1. r \in 0..(Capacity - 1)
  BY <1>0, DivMod
<1> HIDE DEF r
<1>2. k \in Nat /\ k < n /\ r + k = s /\ r + k < Capacity
  BY <1>0, <1>1 DEF r
<1>3. (a + k) % Capacity = s
  BY <1>0, <1>2, ModShift DEF r
<1>4. a + k \in Nat /\ a <= a + k /\ a + k < a + n
  BY <1>2
<1> HIDE DEF k
<1> QED
  BY <1>3, <1>4

LEMMA RaceFreeState == IInv => NoDataRace
<1> SUFFICES ASSUME IInv, NEW s \in WriteRegion, s \in ReadRegion PROVE FALSE
  BY DEF NoDataRace
<1>1. TypeOK /\ Bounds
  BY DEF IInv
<1>2. PICK w \in Nat : head <= w /\ w < head + region /\ s = w % Capacity
  <2>1. head \in Nat /\ region \in Nat /\ s \in Slots
          /\ (head % Capacity) + region <= Capacity
          /\ head % Capacity <= s /\ s < (head % Capacity) + region
    BY <1>1 DEF TypeOK, Bounds, WriteRegion, WriteIdx
  <2> QED
    BY <2>1, SlotOf
<1>3. PICK r \in Nat : tail <= r /\ r < tail + taken /\ s = r % Capacity
  <2>1. tail \in Nat /\ taken \in Nat /\ s \in Slots
          /\ (tail % Capacity) + taken <= Capacity
          /\ tail % Capacity <= s /\ s < (tail % Capacity) + taken
    BY <1>1 DEF TypeOK, Bounds, ReadRegion, ReadIdx
  <2> QED
    BY <2>1, SlotOf
<1>4. head + region <= tail + Capacity /\ tail + taken <= head
  BY <1>1 DEF Bounds, WriteRegion, ReadRegion
<1>5. r < w /\ w < r + Capacity
  <2>1. head \in Nat /\ tail \in Nat /\ region \in Nat /\ taken \in Nat /\ Capacity \in Nat
    BY <1>1, RingAssumption DEF TypeOK
  <2> QED
    BY <1>2, <1>3, <1>4, <2>1
<1> QED
  BY <1>2, <1>3, <1>5, ModDistinct, RingAssumption

\* No byte is received into a slot from which the other thread is copying, although getWritePtr,
\* commitWrite, getReadPtr and consumeRead take no lock.
THEOREM RaceFree == Spec => []NoDataRace
  BY Inductive, RaceFreeState, PTL

-----------------------------------------------------------------------------
(* mutex_.                                                                 *)

LEMMA MutexStep == TypeOK /\ MutexHeld /\ [Next]_vars => MutexHeld'
<1> SUFFICES ASSUME TypeOK, MutexHeld, [Next]_vars PROVE MutexHeld'
  OBVIOUS
<1> DEFINE Inside(t) == \/ t \in Waiters /\ pc[t] \in {"check", "doze"}
                        \/ t = "closer" /\ pc[t] = "notify"
<1>0. \A t \in Threads : mutex = t <=> Inside(t)
  BY DEF MutexHeld
<1>1. ASSUME UNCHANGED mutex, \A t \in Threads : Inside(t)' <=> Inside(t) PROVE MutexHeld'
  BY <1>0, <1>1 DEF MutexHeld
<1>2. CASE Producer
  <2>1. UNCHANGED mutex
    BY <1>2 DEF Producer, GetWritePtr, Fill, CommitWrite, CommitNotify, Drain
  <2>2. \A t \in Threads : Inside(t)' <=> Inside(t)
    BY <1>2, GotoType, NotifyType
    DEF Producer, GetWritePtr, Fill, CommitWrite, CommitNotify, Drain, Labels, WaitLabels
  <2> QED
    BY <1>1, <2>1, <2>2
<1>3. CASE Consumer
  <2>1. UNCHANGED mutex
    BY <1>3 DEF Consumer, StartRead, GetReadPtr, ConsumeRead, ConsumeNotify
  <2>2. \A t \in Threads : Inside(t)' <=> Inside(t)
    BY <1>3, GotoType, NotifyType
    DEF Consumer, StartRead, GetReadPtr, ConsumeRead, ConsumeNotify, Labels, WaitLabels
  <2> QED
    BY <1>1, <2>1, <2>2
<1>4. CASE Close
  BY <1>0, <1>4, GotoType, NotifyType DEF MutexHeld, Close, AfterClosed, Labels, WaitLabels
<1>5. ASSUME NEW t \in Waiters, Wait(t) PROVE MutexHeld'
  <2>1. CASE FastPath(t)
    <3>1. \E l \in {"waitClosed", "lock", "get", "drain", "copy", "idle"} : Goto(t, l)
      BY <2>1, ReturnedType DEF FastPath
    <3>2. \A u \in Threads : Inside(u)' <=> Inside(u)
      <4>1. pc[t] \in {"wait", "waitClosed"}
        BY <2>1 DEF FastPath
      <4>2. pc'[t] \notin {"check", "doze", "notify"} /\ \A u \in Threads : u # t => pc'[u] = pc[u]
        BY <3>1, GotoType DEF Labels, WaitLabels
      <4> QED
        BY <4>1, <4>2
    <3> QED
      BY <1>1, <2>1, <3>2 DEF FastPath
  <2>2. CASE Lock(t)
    BY <1>0, <2>2, GotoType DEF MutexHeld, Lock, Labels, WaitLabels
  <2>3. CASE Check(t)
    <3>1. (Ready(t) \/ Timed(t)) \in BOOLEAN
      BY DEF Ready, Timed, TypeOK
    <3>2. \/ mutex' = "none" /\ \E l \in {"get", "drain", "copy", "idle"} : Goto(t, l)
          \/ mutex' = mutex /\ Goto(t, "doze")
      BY <2>3, <3>1, ReturnedType DEF Check
    <3> QED
      BY <1>0, <2>3, <3>2, GotoType DEF MutexHeld, Check, Labels, WaitLabels
  <2>4. CASE Doze(t)
    BY <1>0, <2>4, GotoType DEF MutexHeld, Doze, MutexWhileAsleep, Labels, WaitLabels
  <2>5. CASE Expire(t)
    <3>1. \E l \in {"get", "drain", "copy", "idle"} : Goto(t, l)
      BY <2>5, ReturnedType DEF Expire, AfterTimeout
    <3> QED
      BY <1>1, <2>5, <3>1, GotoType DEF Expire, Labels, WaitLabels
  <2> QED
    BY <1>5, <2>1, <2>2, <2>3, <2>4, <2>5 DEF Wait
<1>6. CASE UNCHANGED vars
  BY <1>1, <1>6 DEF vars
<1> QED
  BY <1>2, <1>3, <1>4, <1>5, <1>6 DEF Next

\* mutex_ is held by the thread that evaluates a predicate, or notifies in close(), and by no
\* other: in particular never by a sleeping one.
THEOREM LockCorrect == Spec => []MutexHeld
<1>1. Init => MutexHeld
  BY DEF Init, MutexHeld
<1> QED
  BY <1>1, TypeCorrect, MutexStep, PTL DEF Spec

-----------------------------------------------------------------------------
(* The ring implements the bounded FIFO.                                   *)

\* Until they are committed, the bytes received lie in the region, in order.
Filled ==
  pc["producer"] = "commit" =>
    \A i \in 0..(region - 1) : buffer[(head + i) % Capacity] = next + 1 + i

\* The producer discards bytes only of a closed ring.
DrainsClosed == pc["producer"] = "drain" => closed

FInv == IInv /\ Filled /\ DrainsClosed

LEMMA FilledStep == FInv /\ [Next]_vars => Filled'
<1> SUFFICES ASSUME FInv, [Next]_vars, pc'["producer"] = "commit"
             PROVE  \A i \in 0..(region' - 1) : buffer'[(head' + i) % Capacity] = next' + 1 + i
  BY DEF Filled
<1>0. TypeOK /\ Bounds /\ Filled
  BY DEF FInv, IInv
<1>1. CASE Fill
  <2> TAKE i \in 0..(region' - 1)
  <2>1. /\ head \in Nat /\ region \in Nat /\ Capacity \in Nat \ {0} /\ i \in Nat /\ i < region
        /\ UNCHANGED <<head, region, next>>
    BY <1>0, <1>1, RingAssumption DEF Fill, TypeOK
  <2>2. WriteIdx + region <= Capacity /\ WriteIdx \in Slots
    BY <1>0, <1>1, Spaces DEF Fill, Bounds
  <2>3. WriteIdx + i < Capacity /\ WriteIdx + i \in Slots
    BY <2>1, <2>2
  <2>4. (head + i) % Capacity = WriteIdx + i
    BY <2>1, <2>3, ModShift DEF WriteIdx
  <2>5. WriteIdx + i \in WriteIdx .. WriteIdx + region - 1 /\ (WriteIdx + i) - WriteIdx = i
    BY <2>1, <2>2
  <2>6. buffer'[WriteIdx + i] = next + 1 + i
    BY <1>1, <2>3, <2>5 DEF Fill
  <2> QED
    BY <2>1, <2>4, <2>6
<1>2. ASSUME pc["producer"] = "commit", UNCHANGED <<buffer, head, region, next>>
      PROVE  \A i \in 0..(region' - 1) : buffer'[(head' + i) % Capacity] = next' + 1 + i
  BY <1>0, <1>2 DEF Filled
<1>3. CASE GetWritePtr \/ CommitWrite \/ CommitNotify \/ Drain
  BY <1>0, <1>3, GotoType, NotifyType
  DEF GetWritePtr, CommitWrite, CommitNotify, Drain, Labels, WaitLabels
<1>4. CASE Consumer
  <2>1. pc["producer"] = "commit"
    BY <1>0, <1>4, GotoType, NotifyType
    DEF Consumer, StartRead, GetReadPtr, ConsumeRead, ConsumeNotify, Labels, WaitLabels
  <2> QED
    BY <1>2, <1>4, <2>1 DEF Consumer, StartRead, GetReadPtr, ConsumeRead, ConsumeNotify
<1>5. CASE Close
  <2>1. pc["producer"] = "commit"
    BY <1>0, <1>5, GotoType, NotifyType DEF Close, AfterClosed, Labels, WaitLabels
  <2> QED
    BY <1>2, <1>5, <2>1 DEF Close, data
<1>6. ASSUME NEW t \in Waiters, Wait(t)
      PROVE  \A i \in 0..(region' - 1) : buffer'[(head' + i) % Capacity] = next' + 1 + i
  <2>1. pc["producer"] = "commit"
    BY <1>0, <1>6, WaitStep, GotoType DEF Labels, WaitLabels
  <2> QED
    BY <1>0, <1>2, <1>6, <2>1, WaitStep DEF data
<1>7. CASE UNCHANGED vars
  BY <1>2, <1>7 DEF vars
<1> QED
  BY <1>1, <1>3, <1>4, <1>5, <1>6, <1>7 DEF Next, Producer

LEMMA DrainsClosedStep == FInv /\ [Next]_vars => DrainsClosed'
<1> SUFFICES ASSUME FInv, [Next]_vars, pc'["producer"] = "drain" PROVE closed'
  BY DEF DrainsClosed
<1>0. TypeOK /\ DrainsClosed
  BY DEF FInv, IInv
<1>1. CASE Producer
  BY <1>0, <1>1, GotoType, NotifyType
  DEF Producer, GetWritePtr, Fill, CommitWrite, CommitNotify, Drain, Labels, WaitLabels
<1>2. CASE Consumer
  <2>1. pc["producer"] = "drain"
    BY <1>0, <1>2, GotoType, NotifyType
    DEF Consumer, StartRead, GetReadPtr, ConsumeRead, ConsumeNotify, Labels, WaitLabels
  <2> QED
    BY <1>0, <1>2, <2>1
    DEF DrainsClosed, Consumer, StartRead, GetReadPtr, ConsumeRead, ConsumeNotify
<1>3. CASE Close
  <2>1. pc["producer"] = "drain"
    BY <1>0, <1>3, GotoType, NotifyType DEF Close, AfterClosed, Labels, WaitLabels
  <2> QED
    BY <1>0, <1>3, <2>1 DEF DrainsClosed, Close
<1>4. ASSUME NEW t \in Waiters, Wait(t) PROVE closed'
  <2>1. closed' = closed
    BY <1>0, <1>4, WaitStep
  <2>2. CASE pc["producer"] = "drain"
    BY <1>0, <2>1, <2>2 DEF DrainsClosed
  <2>3. CASE pc["producer"] # "drain"
    <3>1. t = "producer"
      BY <1>0, <1>4, <2>3, WaitStep, GotoType DEF Labels, WaitLabels
    <3>2. FastPath(t) => closed
      BY <1>0, <3>1, GotoType DEF FastPath, Returned, Labels, WaitLabels
    <3>3. Check(t) => closed
      BY <1>0, <3>1, GotoType DEF Check, Wakes, Timed, Returned, Labels, WaitLabels
    <3>4. ~Lock(t) /\ ~Doze(t) /\ ~Expire(t)
      BY <1>0, <3>1, GotoType DEF Lock, Doze, Expire, Timed, Labels, WaitLabels
    <3> QED
      BY <1>4, <2>1, <3>2, <3>3, <3>4 DEF Wait
  <2> QED
    BY <2>2, <2>3
<1>5. CASE UNCHANGED vars
  BY <1>0, <1>5 DEF vars, DrainsClosed
<1> QED
  BY <1>1, <1>2, <1>3, <1>4, <1>5 DEF Next

LEMMA FInductive == Spec => []FInv
<1>1. Init => FInv
  BY InitInv DEF Init, FInv, Filled, DrainsClosed
<1>2. FInv /\ [Next]_vars => FInv'
  BY TypeStep, BoundsStep, FilledStep, DrainsClosedStep DEF FInv, IInv
<1> QED
  BY <1>1, <1>2, PTL DEF Spec

QueueType ==
  /\ Size \in 0..Capacity
  /\ queue \in Seq(Nat) /\ Len(queue) = Size

LEMMA QueueTypeHolds == TypeOK /\ Bounds => QueueType
<1> SUFFICES ASSUME TypeOK, Bounds PROVE QueueType
  OBVIOUS
<1>1. Capacity \in Nat \ {0} /\ head \in Nat /\ tail \in Nat /\ buffer \in [Slots -> Nat]
  BY RingAssumption DEF TypeOK
<1>2. Size \in 0..Capacity
  BY <1>1 DEF Bounds, Size
<1>3. \A k \in 1..Size : buffer[(tail + k - 1) % Capacity] \in Nat
  <2> TAKE k \in 1..Size
  <2>1. tail + k - 1 \in Nat
    BY <1>1, <1>2
  <2>2. (tail + k - 1) % Capacity \in Slots
    BY <1>1, <2>1, DivMod
  <2> QED
    BY <1>1, <2>2
<1>4. queue \in [1..Size -> Nat]
  BY <1>3 DEF queue
<1>5. queue \in Seq(Nat)
  BY <1>2, <1>4, SeqDef
<1>6. Len(queue) = Size
  BY <1>2, <1>4, <1>5, LenProperties
<1> QED
  BY <1>2, <1>5, <1>6 DEF QueueType

\* Receiving bytes does not touch the slots of the bytes in the queue.
LEMMA FillKeepsQueue ==
  ASSUME FInv, Fill
  PROVE  UNCHANGED queue
<1>0. TypeOK /\ Bounds
  BY DEF FInv, IInv
<1>1. /\ head \in Nat /\ tail \in Nat /\ region \in Nat /\ Capacity \in Nat \ {0}
      /\ head + region <= tail + Capacity /\ WriteIdx + region <= Capacity
      /\ buffer \in [Slots -> Nat]
  BY <1>0, RingAssumption DEF Fill, TypeOK, Bounds
<1>2. Size \in 0..Capacity /\ UNCHANGED <<Size, tail>>
  BY <1>0, QueueTypeHolds DEF QueueType, Fill, Size
<1>3. ASSUME NEW k \in 1..Size
      PROVE  buffer'[(tail + k - 1) % Capacity] = buffer[(tail + k - 1) % Capacity]
  <2> DEFINE b == tail + k - 1
             s == b % Capacity
  <2>1. b \in Nat /\ tail <= b /\ b < head
    BY <1>1, <1>2 DEF Size
  <2>2. s \in Slots
    BY <1>1, <2>1, DivMod
  <2>3. ASSUME s \in WriteIdx .. WriteIdx + region - 1 PROVE FALSE
    <3>1. WriteIdx <= s /\ s < WriteIdx + region
      <4>1. WriteIdx \in Nat
        BY <1>0, Spaces
      <4> HIDE DEF s
      <4> QED
        BY <1>1, <2>2, <2>3, <4>1
    <3>2. PICK w \in Nat : head <= w /\ w < head + region /\ s = w % Capacity
      BY <1>1, <2>2, <3>1, SlotOf DEF WriteIdx
    <3> HIDE DEF b
    <3>3. b < w /\ w < b + Capacity
      BY <1>1, <2>1, <3>2
    <3> QED
      BY <1>1, <2>1, <3>2, <3>3, ModDistinct
  <2> HIDE DEF s
  <2>4. buffer'[s] = buffer[s]
    BY <2>2, <2>3 DEF Fill
  <2> QED
    BY <2>4 DEF s
<1> QED
  BY <1>2, <1>3 DEF queue

\* commitWrite puts the region at the end of the queue.
LEMMA CommitPuts ==
  ASSUME FInv, FInv', CommitWrite
  PROVE  Fifo!Put
<1>0. TypeOK /\ Bounds /\ Filled /\ TypeOK' /\ Bounds'
  BY DEF FInv, IInv
<1>1. /\ head \in Nat /\ tail \in Nat /\ next \in Nat /\ region \in Nat /\ region > 0
      /\ Capacity \in Nat \ {0} /\ head + region <= tail + Capacity
  BY <1>0, RingAssumption DEF CommitWrite, TypeOK, Bounds
<1>2. Size \in 0..Capacity /\ Size' = Size + region /\ UNCHANGED <<buffer, tail, closed>>
  BY <1>0, <1>1, QueueTypeHolds DEF QueueType, CommitWrite, Size
<1>3. region \in 1..Capacity /\ Size + region <= Capacity
  BY <1>1, <1>2 DEF Size
<1> DEFINE new == [k \in 1..region |-> next + k]
<1>4. new \in Seq(Nat) /\ Len(new) = region
  <2>1. new \in [1..region -> Nat]
    BY <1>1
  <2>2. new \in Seq(Nat)
    BY <1>1, <2>1, SeqDef
  <2> QED
    BY <1>1, <2>1, <2>2, LenProperties
<1>5. queue \in Seq(Nat) /\ Len(queue) = Size /\ queue' \in Seq(Nat) /\ Len(queue') = Size'
  <2>1. QueueType /\ QueueType'
    BY <1>0, QueueTypeHolds, PTL
  <2> QED
    BY <2>1 DEF QueueType
<1>6. /\ queue \o new \in Seq(Nat) /\ Len(queue \o new) = Size'
      /\ \A i \in 1..Size' : (queue \o new)[i] = IF i <= Size THEN queue[i] ELSE new[i - Size]
  <2> HIDE DEF new
  <2> QED
    BY <1>2, <1>4, <1>5, ConcatProperties
<1>7. ASSUME NEW i \in 1..Size' PROVE queue'[i] = (queue \o new)[i]
  <2>1. queue'[i] = buffer[(tail + i - 1) % Capacity]
    BY <1>2 DEF queue
  <2>2. CASE i <= Size
    <3>1. i \in 1..Size
      BY <1>2, <2>2
    <3>2. queue[i] = buffer[(tail + i - 1) % Capacity]
      BY <3>1 DEF queue
    <3> HIDE DEF new
    <3> QED
      BY <1>6, <2>1, <2>2, <3>2
  <2>3. CASE i > Size
    <3>1. i - Size \in 1..region /\ i - Size - 1 \in 0..(region - 1)
      BY <1>1, <1>2, <2>3
    <3>2. tail + i - 1 = head + (i - Size - 1)
      BY <1>1, <1>2, <2>3 DEF Size
    <3>3. buffer[(head + (i - Size - 1)) % Capacity] = next + 1 + (i - Size - 1)
      BY <1>0, <3>1 DEF CommitWrite, Filled
    <3>4. new[i - Size] = next + (i - Size)
      BY <3>1
    <3>5. (queue \o new)[i] = new[i - Size]
      <4>1. ~(i <= Size) /\ i \in 1..Size'
        BY <1>2, <2>3
      <4> HIDE DEF new
      <4> QED
        BY <1>6, <4>1
    <3>6. next + 1 + (i - Size - 1) = next + (i - Size)
      BY <1>1, <1>2
    <3> QED
      BY <2>1, <3>2, <3>3, <3>4, <3>5, <3>6
  <2>4. i <= Size \/ i > Size
    BY <1>1, <1>2
  <2> QED
    BY <2>2, <2>3, <2>4
<1>8. queue' = queue \o new
  <2> HIDE DEF new
  <2> QED
    BY <1>5, <1>6, <1>7, SeqEqual
<1> QED
  BY <1>2, <1>3, <1>5, <1>8 DEF Fifo!Put, CommitWrite

\* consumeRead takes the region at the front of the queue.
LEMMA ConsumeGets ==
  ASSUME FInv, FInv', ConsumeRead
  PROVE  Fifo!Get
<1>0. TypeOK /\ Bounds /\ TypeOK' /\ Bounds'
  BY DEF FInv, IInv
<1>1. /\ head \in Nat /\ tail \in Nat /\ taken \in Nat /\ taken > 0
      /\ Capacity \in Nat \ {0} /\ tail + taken <= head
  BY <1>0, RingAssumption DEF ConsumeRead, TypeOK, Bounds
<1>2. Size \in 0..Capacity /\ Size' = Size - taken /\ taken <= Size
        /\ UNCHANGED <<buffer, next, closed>> /\ tail' = tail + taken
  BY <1>0, <1>1, QueueTypeHolds DEF QueueType, ConsumeRead, Size
<1>3. queue \in Seq(Nat) /\ Len(queue) = Size /\ queue' \in Seq(Nat) /\ Len(queue') = Size'
  <2>1. QueueType /\ QueueType'
    BY <1>0, QueueTypeHolds, PTL
  <2> QED
    BY <2>1 DEF QueueType
<1> DEFINE rest == SubSeq(queue, taken + 1, Size)
<1>4. /\ rest \in Seq(Nat) /\ Len(rest) = Size'
      /\ \A i \in 1..Size' : rest[i] = queue[taken + i]
  <2>1. taken + 1 \in Int /\ Size \in Int
    BY <1>1, <1>2
  <2>2. \A i \in taken + 1 .. Size : queue[i] \in Nat
    <3> TAKE i \in taken + 1 .. Size
    <3>1. i \in 1..Len(queue)
      BY <1>1, <1>2, <1>3
    <3> QED
      BY <1>3, <3>1, ElementOfSeq
  <2>3. /\ rest \in Seq(Nat)
        /\ Len(rest) = IF taken + 1 <= Size THEN Size - (taken + 1) + 1 ELSE 0
        /\ \A i \in 1 .. Size - (taken + 1) + 1 : rest[i] = queue[(taken + 1) + i - 1]
    BY <2>1, <2>2, SubSeqProperties
  <2> HIDE DEF rest
  <2> QED
    BY <1>1, <1>2, <2>3
<1>5. ASSUME NEW i \in 1..Size' PROVE queue'[i] = rest[i]
  <2>1. queue'[i] = buffer[(tail + taken + i - 1) % Capacity]
    BY <1>2 DEF queue
  <2>2. taken + i \in 1..Size
    BY <1>1, <1>2
  <2>3. queue[taken + i] = buffer[(tail + (taken + i) - 1) % Capacity]
    BY <2>2 DEF queue
  <2>4. tail + taken + i - 1 = tail + (taken + i) - 1
    BY <1>1, <1>2
  <2> HIDE DEF rest
  <2> QED
    BY <1>4, <2>1, <2>3, <2>4
<1>6. queue' = rest
  <2> HIDE DEF rest
  <2> QED
    BY <1>3, <1>4, <1>5, SeqEqual
<1> QED
  BY <1>1, <1>2, <1>3, <1>6 DEF Fifo!Get

LEMMA StepImplements == FInv /\ FInv' /\ [Next]_vars => [Fifo!Next]_(Fifo!vars)
<1> SUFFICES ASSUME FInv, FInv', [Next]_vars PROVE Fifo!Next \/ UNCHANGED <<queue, next, closed>>
  BY DEF Fifo!vars
<1>0. TypeOK
  BY DEF FInv, IInv
<1>1. ASSUME UNCHANGED <<buffer, head, tail>> PROVE UNCHANGED queue
  BY <1>1 DEF queue, Size
<1>2. CASE Fill
  BY <1>2, FillKeepsQueue DEF Fill
<1>3. CASE CommitWrite
  BY <1>3, CommitPuts DEF Fifo!Next
<1>4. CASE ConsumeRead
  BY <1>4, ConsumeGets DEF Fifo!Next
<1>5. CASE GetWritePtr \/ CommitNotify \/ StartRead \/ GetReadPtr \/ ConsumeNotify
  BY <1>1, <1>5 DEF GetWritePtr, CommitNotify, StartRead, GetReadPtr, ConsumeNotify
<1>6. CASE Drain
  <2>1. closed /\ UNCHANGED <<queue, closed>>
    BY <1>1, <1>6 DEF FInv, DrainsClosed, Drain
  <2>2. next' \in Nat /\ next' > next
    BY <1>0, <1>6, RingAssumption DEF Drain, TypeOK
  <2> QED
    BY <2>1, <2>2 DEF Fifo!Next, Fifo!Discard
<1>7. CASE Close
  <2>1. UNCHANGED <<queue, next>>
    BY <1>1, <1>7 DEF Close, data
  <2> QED
    BY <1>7, <2>1 DEF Close, Fifo!Next, Fifo!Close
<1>8. ASSUME NEW t \in Waiters, Wait(t) PROVE UNCHANGED <<queue, next, closed>>
  BY <1>0, <1>1, <1>8, WaitStep DEF data
<1>9. CASE UNCHANGED vars
  BY <1>1, <1>9 DEF vars
<1> QED
  BY <1>2, <1>3, <1>4, <1>5, <1>6, <1>7, <1>8, <1>9 DEF Next, Producer, Consumer

\* The ring is a bounded FIFO: whatever the interleaving of the lock-free sides, the bytes come
\* out once each, in order and unaltered; only after close() can bytes be missing between them.
THEOREM Implements == Spec => IsFifo
<1>1. Init => Fifo!Init
  <2> SUFFICES ASSUME Init PROVE queue = <<>> /\ next = 0 /\ closed = FALSE
    BY DEF Fifo!Init
  <2>1. TypeOK /\ Bounds /\ Size = 0
    BY InitInv DEF IInv, Init, Size
  <2>2. queue \in Seq(Nat) /\ Len(queue) = 0
    BY <2>1, QueueTypeHolds DEF QueueType
  <2> QED
    BY <2>2, EmptySeq DEF Init
<1> QED
  BY <1>1, FInductive, StepImplements, PTL DEF Spec, IsFifo, Fifo!Spec

-----------------------------------------------------------------------------
(* The services: the invariant.                                            *)

\* Where the work uses a stream for "sync:", where a command, and what the operations have in common.
OnSync == {"open", "write", "read", "wait"}
AtShell == {"shell start", "shell open", "shell wait"}
InShell == {"shell open", "shell wait"}
Pushing == op \in {"push", "install"}
Asking == op \in {"pull", "list"}

\* The device has its types too.
DeviceType == [got : Seq(Token), out : Seq(Token), file : Seq(Token), stored : BOOLEAN, failed : BOOLEAN,
               ran : BOOLEAN, text : Seq(Token), code : {"none", "0", "1"}, installed : BOOLEAN]
Typed ==
  /\ op \in {"none", "push", "pull", "list", "exec", "install", "reverse"}
  /\ source \in {"none", "memory", "packet", "chunks"}
  /\ work \in [at : {"idle", "open", "write", "read", "wait", "shell start", "shell open", "shell wait", "over"},
               then : {"nothing", "answer", "stat", "data", "block", "entry", "name", "rest", "end"},
               todo : Seq(Seq(Token)), mode : {"v2", "legacy"},
               stage : {"none", "pm", "rm", "probe", "exec", "reverse"}]
  /\ local \in Seq(ToSet(Content) \union {"old"})
  /\ result \in {"none", "done", "failed"} /\ exit \in {"none", "0", "1"}
  /\ sync \in StreamType /\ shell \in StreamType
  /\ adb \in {"open", "closing", "closed"}
  /\ work.at = "over" => result # "none"
  /\ device \in DeviceType
\* What becomes of the work's sleep matters to nothing else.
Napping == nap \in {"awake", "late", "asleep", "missed"}
\* Nothing happens but that the work goes to sleep.
Idle == UNCHANGED <<op, source, work, local, result, exit, sync, shell, adb, device>>

\* What an operation can be doing.
Thens == CASE Pushing -> {"nothing", "answer", "end"}
           [] op = "pull" -> {"nothing", "stat", "data", "block", "end"}
           [] op = "list" -> {"nothing", "entry", "name", "rest", "end"}
           [] OTHER -> {"nothing"}
Stages == CASE op = "install" -> {"none", "pm", "rm"}
            [] op = "list" -> {"none", "probe"}
            [] op \in {"exec", "reverse"} -> {op}
            [] OTHER -> {"none"}

\* Where the work is, fits what it does and what is left to write.
Placed ==
  /\ op = "none" <=> work.at = "idle"
  /\ Pushing <=> source # "none"
  /\ work.then \in Thens /\ work.stage \in Stages
  /\ work.at \in OnSync => Pushing \/ Asking
  /\ work.at \in OnSync /\ op = "install" => work.stage = "none"
  /\ work.at = "open" <=> (work.at \in OnSync /\ work.then = "nothing")
  /\ work.at = "open" => work.stage = "none" /\ (Asking => local = <<>>)
  /\ work.then = "nothing" => work.todo = <<>>
  /\ work.at \in {"read", "wait"} => work.then # "end" /\ work.todo = <<>>
  /\ work.at \in AtShell => work.stage # "none"
  /\ work.at \in AtShell /\ work.stage = "probe" => work.then = "rest" /\ work.todo = <<>>

\* A result is told at the end, and of a success not before all is said.
Told ==
  /\ work.at = "over" \/ work.stage = "rm" <=> result # "none"
  /\ result = "done" /\ op \in {"push", "pull", "list"} => work.then = "end"

\* The streams that are left behind are closed, or the connection will close them.
Left ==
  /\ adb = "closed" => sync.closed /\ (shell.open => shell.closed)
  /\ work.at \notin InShell => (shell.open => shell.closed \/ adb # "open")
  /\ work.at = "over" \/ work.stage \in {"pm", "rm"} => (sync.open => sync.closed \/ adb # "open")
  /\ sync.open => Pushing \/ Asking

\* Of a command: what its text says of code and success is what the device did.
Codes(text) == \A i \in 1..Len(text) : text[i] \in {"0", "1"} => text[i] = device.code
Successes(text) == \A i \in 1..Len(text) : text[i] = "Success" => device.installed
Commanded ==
  /\ work.at \in InShell => 
       /\ ~device.ran => device.text = <<>> /\ shell.buffer = <<>>
       /\ work.stage \in {"exec", "pm"} => Codes(device.text) /\ Codes(shell.buffer)
       /\ work.stage = "pm" => Successes(device.text) /\ Successes(shell.buffer)
  /\ exit # "none" => exit = device.code /\ (work.stage = "rm" \/ (work.at = "over" /\ device.ran))
  /\ result = "done" /\ op = "install" => device.installed

\* The script of an operation, the tokens it says to the device in order.
Blocks == Len(Whole)
ScriptSize == CASE Pushing -> 2 * Blocks + 4 [] op = "pull" -> 5 [] op = "list" -> 3 [] OTHER -> 0
PushWord(i) ==
  CASE i = 1 -> "SEND" [] i = 2 -> "path" [] i = 2 * Blocks + 3 -> "DONE" [] i = 2 * Blocks + 4 -> "QUIT"
    [] i \in 3..(2 * Blocks + 2) /\ i % 2 = 1 -> "DATA"
    [] i \in 3..(2 * Blocks + 2) /\ i % 2 = 0 -> Whole[(i - 2) \div 2]
PullWord(i) == <<"STAT", "path", "RECV", "path", "QUIT">>[i]
ListWord(i) == <<"LIST", "path", "QUIT">>[i]
Word(i) == IF Pushing THEN PushWord(i) ELSE IF op = "pull" THEN PullWord(i) ELSE ListWord(i)

\* How many tokens of the script are planned, written, taken by the device and served.
Planned == CASE work.then = "nothing" -> 0
             [] work.then = "answer" -> ScriptSize - 1
             [] work.then \in {"stat", "entry", "name", "rest"} -> 2
             [] work.then \in {"data", "block"} -> 4
             [] work.then = "end" -> ScriptSize
Bundled == work.then = "answer" /\ source # "memory"
Pending == IF ~Bundled THEN Len(work.todo)
           ELSE IF work.todo = <<>> THEN 0
           ELSE IF source = "packet" THEN ScriptSize - 1 ELSE 2 * Len(work.todo) - 1
Sent == Planned - Pending
Taken == Sent - Len(sync.wire)
Served == Taken - Len(device.got)
Follows(seq, k) == \A i \in 1..Len(seq) : k + i <= ScriptSize /\ seq[i] = Word(k + i)
TodoFollows ==
  \A i \in 1..Len(work.todo) :
    /\ Len(work.todo[i]) = IF ~Bundled THEN 1 ELSE IF source = "packet" THEN ScriptSize - 1 ELSE IF i = Len(work.todo) THEN 1 ELSE 2
    /\ Follows(work.todo[i], IF ~Bundled THEN Sent + i - 1 ELSE Sent + 2 * i - 2)
Boundary(s) == s % 2 = 0 \/ s = (IF Pushing THEN ScriptSize - 1 ELSE ScriptSize)

\* What is planned, on the wire and at the device are consecutive pieces of the script.
Requested ==
  /\ Pending <= Planned /\ (Bundled /\ source = "packet" => Len(work.todo) <= 1)
  /\ TodoFollows
  /\ Served \in Nat /\ Boundary(Served)
  /\ Follows(device.got, Served) /\ Follows(sync.wire, Taken)
  /\ sync.canWrite => sync.wire = <<>>

\* Of a push: what is acknowledged is stored, and the file is what was served.
Okays(seq) == \A i \in 1..Len(seq) : seq[i] = "OKAY" => device.stored
Kept == IF Served >= ScriptSize - 1 THEN Blocks ELSE (Served - 2) \div 2
Stored ==
  Pushing =>
    /\ Okays(sync.buffer) /\ Okays(device.out)
    /\ work.then = "end" => device.stored
    /\ device.stored => Served >= ScriptSize - 1
    /\ op = "push" /\ Served >= 2 /\ (~device.failed \/ device.stored) =>
         Len(device.file) = Kept /\ \A i \in 1..Kept : device.file[i] = Whole[i]

\* Before anything is asked for, nothing has been said.
Fresh == op = "none" => sync.buffer = <<>> /\ device.out = <<>> /\ ~device.stored /\ local = <<"old">>

\* Of a pull or a listing: what the device says is an answer, from the position that is read next.
AnswerSize == IF op = "pull" THEN 2 * Len(Content) + 1 ELSE 2 * Len(Content) + 2
Answer(i) ==
  CASE i <= 2 * Len(Content) /\ i % 2 = 1 -> IF op = "pull" THEN "DATA" ELSE "DENT"
    [] i <= 2 * Len(Content) /\ i % 2 = 0 -> Content[i \div 2]
    [] i = 2 * Len(Content) + 1 -> "DONE"
    [] i = 2 * Len(Content) + 2 -> "zeros"
Fits(t, i) == i <= AnswerSize /\ (t = Answer(i) \/ (t = "FAIL" /\ i % 2 = 1))
Position == 2 * Len(local) + (IF work.then \in {"block", "name", "rest"} THEN 1 ELSE 0)
Asked == IF op = "pull" THEN 4 ELSE 2
Waiting ==
  /\ local = <<>> /\ work.then \in {"nothing", "stat", "data", "entry"} /\ (work.then = "data" => Served >= 2)
  /\ IF work.then = "stat" /\ Served = 2 THEN Len(sync.buffer) + Len(device.out) <= 1
     ELSE sync.buffer = <<>> /\ device.out = <<>>
Receiving ==
  /\ Len(local) <= Len(Content) /\ \A i \in 1..Len(local) : local[i] = Content[i]
  /\ work.then \in {"block", "name"} => Len(local) < Len(Content)
  /\ \A i \in 1..Len(sync.buffer) : Fits(sync.buffer[i], Position + i)
  /\ ~sync.closed => \A i \in 1..Len(device.out) : Fits(device.out[i], Position + Len(sync.buffer) + i)
Answered ==
  Asking =>
    /\ work.at \in OnSync /\ work.then # "end" => IF Served < Asked THEN Waiting ELSE Receiving
    /\ work.then \in {"rest", "end"} /\ result # "failed" => local = Content
    /\ result = "failed" /\ op = "pull" => local \in {<<>>, <<"old">>}

-----------------------------------------------------------------------------
\* There are blocks, and none of them is called like a word of the protocol.
LEMMA ContentBlocks ==
  /\ Content \in Seq(ToSet(Content)) /\ Len(Content) \in Nat \ {0}
  /\ ToSet(Content) \cap Words = {}
  /\ \A i \in 1..Len(Content) : Content[i] \in ToSet(Content) /\ Content[i] \notin Words
<1> DEFINE W == STRING \ Words
<1>1. Content \in Seq(W) /\ Content # <<>>
  BY SyncAssumption
<1> HIDE DEF W
<1>2. /\ Len(Content) \in Nat /\ DOMAIN Content = 1..Len(Content) /\ Len(Content) # 0
      /\ Content \in [1..Len(Content) -> W]
  BY <1>1, EmptySeq, LenProperties
<1>3. /\ ToSet(Content) = {Content[i] : i \in 1..Len(Content)}
      /\ \A i \in 1..Len(Content) : Content[i] \in W
  BY <1>2 DEF ToSet
<1>4. \A i \in 1..Len(Content) : Content[i] \in ToSet(Content)
  BY <1>3
<1>5. Content \in [1..Len(Content) -> ToSet(Content)]
  BY <1>2, <1>4
<1>6. Content \in Seq(ToSet(Content))
  BY <1>2, <1>5, SeqDef
<1>7. \A x \in W : x \notin Words
  BY DEF W
<1> QED
  BY <1>2, <1>3, <1>4, <1>6, <1>7

\* Strings are told apart once for all provers: the words are words, a block is none.
LEMMA WordTokens ==
  /\ Words \subseteq Token /\ ToSet(Content) \subseteq Token
  /\ \A t \in ToSet(Content) : t \notin Words
  BY ContentBlocks DEF Token

\* What is pushed is the content, or its first block when it goes as one packet.
LEMMA WholeBlocks ==
  ASSUME source \in {"none", "memory", "packet", "chunks"}
  PROVE  /\ Whole \in Seq(ToSet(Content)) /\ Len(Whole) \in Nat \ {0}
         /\ \A i \in 1..Len(Whole) : Whole[i] \in ToSet(Content)
         /\ source = "packet" => Len(Whole) = 1
<1>1. CASE source = "packet"
  <2>1. Whole = <<Content[1]>> /\ Content[1] \in ToSet(Content)
    BY <1>1, ContentBlocks DEF Whole
  <2> QED
    BY <1>1, <2>1
<1>2. CASE source # "packet"
  BY <1>2, ContentBlocks DEF Whole
<1> QED
  BY <1>1, <1>2

\* Odd and even positions: ids stand on the odd ones, what follows an id on the even ones.
LEMMA Halves ==
  ASSUME NEW i \in Nat
  PROVE  /\ i % 2 = 0 => i = 2 * (i \div 2)
         /\ i % 2 # 0 => i % 2 = 1 /\ i = 2 * (i \div 2) + 1
         /\ i \div 2 \in Nat
         /\ (i + 1) % 2 = 1 - (i % 2) /\ (i + 2) % 2 = i % 2
  BY SMT

\* Pairs puts the id before every block.
LEMMA PairsMade ==
  ASSUME NEW S, NEW blocks \in Seq(S), NEW id \in S
  PROVE  /\ Pairs(id, blocks) \in Seq(S) /\ Len(Pairs(id, blocks)) = 2 * Len(blocks)
         /\ \A i \in 1..(2 * Len(blocks)) :
              Pairs(id, blocks)[i] = IF i % 2 = 1 THEN id ELSE blocks[i \div 2]
<1> DEFINE P == Pairs(id, blocks)
<1>1. Len(blocks) \in Nat /\ 2 * Len(blocks) \in Nat /\ \A i \in 1..Len(blocks) : blocks[i] \in S
  BY LenProperties, ElementOfSeq
<1>2. \A i \in 1..(2 * Len(blocks)) : i % 2 # 1 => i \div 2 \in 1..Len(blocks)
  BY <1>1, SMT
<1>3. \A i \in 1..(2 * Len(blocks)) : P[i] = (IF i % 2 = 1 THEN id ELSE blocks[i \div 2]) /\ P[i] \in S
  BY <1>1, <1>2 DEF Pairs
<1>4. P \in [1..(2 * Len(blocks)) -> S]
  BY <1>3 DEF Pairs
<1>5. P \in Seq(S)
  BY <1>1, <1>4, SeqDef
<1>6. Len(P) = 2 * Len(blocks)
  BY <1>1, <1>4, <1>5, LenProperties
<1> QED
  BY <1>3, <1>5, <1>6

\* A concatenation, element by element.
LEMMA Joined ==
  ASSUME NEW S, NEW s \in Seq(S), NEW t \in Seq(S), NEW m \in Nat, NEW n \in Nat, Len(s) = m, Len(t) = n
  PROVE  /\ s \o t \in Seq(S) /\ Len(s \o t) = m + n
         /\ \A i \in 1..(m + n) : (s \o t)[i] = IF i <= m THEN s[i] ELSE t[i - m]
  BY ConcatProperties

\* A push, token by token.
Said == <<"SEND", "path">> \o Pairs("DATA", Whole) \o <<"DONE">>

\* A push says the tokens PushWord(1), PushWord(2), and so on.
LEMMA SaidMade ==
  ASSUME source \in {"none", "memory", "packet", "chunks"}
  PROVE  /\ Said \in Seq(Token) /\ Len(Said) = 2 * Blocks + 3
         /\ \A i \in 1..(2 * Blocks + 3) : Said[i] = PushWord(i)
<1> DEFINE P == Pairs("DATA", Whole)
           B == Blocks
<1>1. /\ Whole \in Seq(Token) /\ B \in Nat \ {0} /\ B = Len(Whole)
      /\ "SEND" \in Token /\ "path" \in Token /\ "DATA" \in Token /\ "DONE" \in Token
  <2>1. Whole \in Seq(ToSet(Content)) /\ Blocks = Len(Whole) /\ Len(Whole) \in Nat \ {0}
    BY WholeBlocks DEF Blocks
  <2>2. Whole \in Seq(Token)
    BY <2>1, SeqMonotonic, WordTokens
  <2> QED
    BY <2>1, <2>2, WordTokens DEF Words
<1>2. /\ P \in Seq(Token) /\ Len(P) = 2 * B
      /\ \A i \in 1..(2 * B) : P[i] = IF i % 2 = 1 THEN "DATA" ELSE Whole[i \div 2]
  BY <1>1, PairsMade
<1> HIDE DEF P, B
<1>3. <<"SEND", "path">> \in Seq(Token) /\ <<"DONE">> \in Seq(Token)
  BY <1>1
<1>4. /\ <<"SEND", "path">> \o P \in Seq(Token) /\ Len(<<"SEND", "path">> \o P) = 2 + 2 * B
      /\ \A i \in 1..(2 + 2 * B) : (<<"SEND", "path">> \o P)[i] = IF i <= 2 THEN <<"SEND", "path">>[i] ELSE P[i - 2]
  <2>1. Len(<<"SEND", "path">>) = 2 /\ 2 * B \in Nat
    BY <1>1
  <2> QED
    BY <1>2, <1>3, <2>1, Joined
<1>5. /\ Said \in Seq(Token) /\ Len(Said) = 2 * B + 3
      /\ \A i \in 1..(2 * B + 3) : Said[i] = IF i <= 2 + 2 * B THEN (<<"SEND", "path">> \o P)[i] ELSE "DONE"
  <2> DEFINE F == <<"SEND", "path">> \o P
             L == <<"DONE">>
  <2>1. F \in Seq(Token) /\ Len(F) = 2 + 2 * B /\ L \in Seq(Token) /\ Len(L) = 1 /\ 2 + 2 * B \in Nat /\ L[1] = "DONE"
    BY <1>1, <1>3, <1>4
  <2>2. Said = F \o L
    BY DEF Said, P
  <2> HIDE DEF F, L
  <2>3. /\ F \o L \in Seq(Token) /\ Len(F \o L) = 2 + 2 * B + 1
        /\ \A i \in 1..(2 + 2 * B + 1) : (F \o L)[i] = IF i <= 2 + 2 * B THEN F[i] ELSE L[i - (2 + 2 * B)]
    <3>1. /\ F \o L \in Seq(Token) /\ Len(F \o L) = Len(F) + Len(L)
          /\ \A i \in 1..(Len(F) + Len(L)) : (F \o L)[i] = IF i <= Len(F) THEN F[i] ELSE L[i - Len(F)]
      BY <2>1, ConcatProperties
    <3> QED
      BY <2>1, <3>1
  <2>4. Said \in Seq(Token) /\ Len(Said) = 2 * B + 3
    BY <1>1, <2>2, <2>3
  <2>5. \A i \in 1..(2 * B + 3) : Said[i] = IF i <= 2 + 2 * B THEN F[i] ELSE L[1]
    BY <1>1, <2>2, <2>3
  <2> QED
    BY <2>1, <2>4, <2>5 DEF F
<1>6. ASSUME NEW i \in 1..(2 * B + 3)
      PROVE  Said[i] = PushWord(i)
  <2>1. CASE i <= 2
    <3>1. Said[i] = <<"SEND", "path">>[i]
      BY <1>1, <1>4, <1>5, <2>1
    <3> QED
      BY <1>1, <2>1, <3>1 DEF PushWord, B
  <2>2. CASE i \in 3..(2 * B + 2)
    <3>1. Said[i] = P[i - 2]
      BY <1>1, <1>4, <1>5, <2>2
    <3>2. i - 2 \in 1..(2 * B) /\ (i - 2) % 2 = i % 2
      BY <1>1, <2>2, SMT
    <3>3. Said[i] = IF i % 2 = 1 THEN "DATA" ELSE Whole[(i - 2) \div 2]
      BY <1>2, <3>1, <3>2
    <3>4. i % 2 \in {0, 1} /\ i # 1 /\ i # 2 /\ i # 2 * B + 3 /\ i # 2 * B + 4
      BY <1>1, <2>2, SMT
    <3> QED
      BY <2>2, <3>3, <3>4 DEF PushWord, B
  <2>3. CASE i = 2 * B + 3
    BY <1>1, <1>5, <2>3 DEF PushWord, B
  <2> QED
    BY <1>1, <2>1, <2>2, <2>3
<1> QED
  BY <1>5, <1>6 DEF B

\* However a push is cut into writes, together they say what a push says, in order.
LEMMA PushesMade ==
  ASSUME source \in {"memory", "packet", "chunks"}
  PROVE  /\ Pushes(source) \in Seq(Seq(Token))
         /\ source = "memory" => /\ Len(Pushes(source)) = 2 * Blocks + 3
                                 /\ \A i \in 1..(2 * Blocks + 3) : Pushes(source)[i] = <<PushWord(i)>>
         /\ source = "packet" => Pushes(source) = <<Said>>
         /\ source = "chunks" =>
              /\ Len(Pushes(source)) = Blocks + 2
              /\ \A i \in 1..(Blocks + 2) :
                   Pushes(source)[i] = IF i = Blocks + 2 THEN <<PushWord(2 * i - 1)>>
                                       ELSE <<PushWord(2 * i - 1), PushWord(2 * i)>>
<1>1. /\ Said \in Seq(Token) /\ Len(Said) = 2 * Blocks + 3
      /\ \A i \in 1..(2 * Blocks + 3) : Said[i] = PushWord(i)
      /\ Blocks \in Nat \ {0} /\ Blocks = Len(Whole)
  BY SaidMade, WholeBlocks DEF Blocks
<1>2. /\ DOMAIN Said = 1..(2 * Blocks + 3) /\ \A i \in 1..(2 * Blocks + 3) : Said[i] \in Token
  BY <1>1, LenProperties, ElementOfSeq
<1>3. CASE source = "memory"
  <2>1. Pushes(source) = [i \in 1..(2 * Blocks + 3) |-> <<Said[i]>>]
    BY <1>2, <1>3 DEF Pushes, Said
  <2> DEFINE M == [i \in 1..(2 * Blocks + 3) |-> <<Said[i]>>]
  <2>2. \A i \in 1..(2 * Blocks + 3) : <<Said[i]>> \in Seq(Token)
    BY <1>2
  <2>3. M \in [1..(2 * Blocks + 3) -> Seq(Token)]
    BY <2>2
  <2>4. M \in Seq(Seq(Token)) /\ Len(M) = 2 * Blocks + 3
    <3>1. 2 * Blocks + 3 \in Nat
      BY <1>1
    <3> HIDE DEF M
    <3> QED
      BY <2>3, <3>1, SeqDef, LenProperties
  <2>5. \A i \in 1..(2 * Blocks + 3) : M[i] = <<PushWord(i)>>
    BY <1>1
  <2> QED
    BY <1>3, <2>1, <2>4, <2>5
<1>4. CASE source = "packet"
  BY <1>1, <1>4 DEF Pushes, Said
<1>5. CASE source = "chunks"
  <2> DEFINE B == Blocks
             M == [i \in 1..B |-> <<"DATA", Whole[i]>>]
             F == <<<<"SEND", "path">>>>
             L == <<<<"DONE">>>>
  <2>1. /\ \A i \in 1..B : Whole[i] \in Token
        /\ "SEND" \in Token /\ "path" \in Token /\ "DATA" \in Token /\ "DONE" \in Token
        /\ DOMAIN Whole = 1..B
    <3>1. Whole \in Seq(ToSet(Content)) /\ \A i \in 1..Len(Whole) : Whole[i] \in ToSet(Content)
      BY WholeBlocks
    <3> QED
      BY <1>1, <3>1, LenProperties, WordTokens DEF Words
  <2>2. \A i \in 1..B : <<"DATA", Whole[i]>> \in Seq(Token)
    BY <2>1
  <2>3. M \in [1..B -> Seq(Token)]
    BY <2>2
  <2>4. M \in Seq(Seq(Token)) /\ Len(M) = B
    <3>1. B \in Nat
      BY <1>1
    <3> HIDE DEF M
    <3> QED
      BY <2>3, <3>1, SeqDef, LenProperties
  <2>5. F \in Seq(Seq(Token)) /\ L \in Seq(Seq(Token)) /\ Len(F) = 1 /\ Len(L) = 1
    BY <2>1
  <2>6. Pushes(source) = F \o M \o L
    BY <1>5, <2>1 DEF Pushes
  <2>7. \A i \in 1..B : M[i] = <<"DATA", Whole[i]>>
    OBVIOUS
  <2>8. F[1] = <<"SEND", "path">> /\ L[1] = <<"DONE">>
    OBVIOUS
  <2> HIDE DEF M, F, L
  <2>9. /\ F \o M \in Seq(Seq(Token)) /\ Len(F \o M) = 1 + B
        /\ \A i \in 1..(1 + B) : (F \o M)[i] = IF i <= 1 THEN F[i] ELSE M[i - 1]
    <3>1. /\ F \o M \in Seq(Seq(Token)) /\ Len(F \o M) = Len(F) + Len(M)
          /\ \A i \in 1..(Len(F) + Len(M)) : (F \o M)[i] = IF i <= Len(F) THEN F[i] ELSE M[i - Len(F)]
      BY <2>4, <2>5, ConcatProperties
    <3> QED
      BY <2>4, <2>5, <3>1
  <2> DEFINE G == F \o M
  <2>g. /\ G \in Seq(Seq(Token)) /\ Len(G) = 1 + B /\ Pushes(source) = G \o L
        /\ \A i \in 1..(1 + B) : G[i] = IF i <= 1 THEN F[i] ELSE M[i - 1]
    BY <2>6, <2>9
  <2> HIDE DEF G
  <2>10. /\ Pushes(source) \in Seq(Seq(Token)) /\ Len(Pushes(source)) = B + 2
         /\ \A i \in 1..(B + 2) : Pushes(source)[i] = IF i <= 1 + B THEN G[i] ELSE L[1]
    <3>2. /\ G \o L \in Seq(Seq(Token)) /\ Len(G \o L) = Len(G) + Len(L)
          /\ \A i \in 1..(Len(G) + Len(L)) : (G \o L)[i] = IF i <= Len(G) THEN G[i] ELSE L[i - Len(G)]
      BY <2>5, <2>g, ConcatProperties
    <3>4. Pushes(source) \in Seq(Seq(Token)) /\ Len(Pushes(source)) = B + 2
      BY <1>1, <2>5, <2>g, <3>2
    <3>5. \A i \in 1..(B + 2) : Pushes(source)[i] = IF i <= 1 + B THEN G[i] ELSE L[1]
      <4>1. \A i \in 1..(B + 2) : (G \o L)[i] = IF i <= 1 + B THEN G[i] ELSE L[i - (1 + B)]
        BY <1>1, <2>5, <2>g, <3>2
      <4>2. \A i \in 1..(B + 2) : ~(i <= 1 + B) => i - (1 + B) = 1
        BY <1>1
      <4> QED
        BY <2>g, <4>1, <4>2
    <3> QED
      BY <3>4, <3>5
  <2>11. ASSUME NEW i \in 1..(B + 2)
         PROVE  Pushes(source)[i] = IF i = B + 2 THEN <<PushWord(2 * i - 1)>>
                                    ELSE <<PushWord(2 * i - 1), PushWord(2 * i)>>
    <3>1. CASE i = 1
      <4>0. 1 \in 1..(B + 2) /\ 1 \in 1..(1 + B)
        BY <1>1
      <4>1. Pushes(source)[1] = <<"SEND", "path">>
        BY <2>8, <2>g, <2>10, <4>0
      <4>2. PushWord(1) = "SEND" /\ PushWord(2) = "path"
        BY <1>1 DEF PushWord
      <4> QED
        BY <1>1, <3>1, <4>1, <4>2
    <3>2. CASE i \in 2..(B + 1)
      <4>0. i \in 1..(B + 2) /\ i \in 1..(1 + B) /\ ~(i <= 1) /\ i - 1 \in 1..B
        BY <1>1, <3>2
      <4>a. Pushes(source)[i] = M[i - 1]
        BY <2>g, <2>10, <4>0
      <4>1. Pushes(source)[i] = <<"DATA", Whole[i - 1]>>
        BY <2>7, <4>0, <4>a
      <4>2. /\ 2 * i - 1 \in 3..(2 * B + 2) /\ (2 * i - 1) % 2 = 1
            /\ 2 * i \in 3..(2 * B + 2) /\ (2 * i) % 2 = 0 /\ (2 * i - 2) \div 2 = i - 1
        BY <1>1, <3>2, SMT
      <4>3. PushWord(2 * i - 1) = "DATA"
        <5> DEFINE k == 2 * i - 1
        <5>1. k \in 3..(2 * B + 2) /\ k % 2 = 1
          BY <4>2
        <5> HIDE DEF k
        <5>2. PushWord(k) = "DATA"
          BY <1>1, <5>1 DEF PushWord
        <5> QED
          BY <5>2 DEF k
      <4>4. PushWord(2 * i) = Whole[i - 1]
        <5> DEFINE k == 2 * i
        <5>1. k \in 3..(2 * B + 2) /\ k % 2 = 0 /\ (k - 2) \div 2 = i - 1
          BY <4>2
        <5> HIDE DEF k
        <5>2. PushWord(k) = Whole[i - 1]
          BY <1>1, <5>1 DEF PushWord
        <5> QED
          BY <5>2 DEF k
      <4> QED
        BY <1>1, <3>2, <4>1, <4>3, <4>4
    <3>3. CASE i = B + 2
      <4>0. i \in 1..(B + 2) /\ ~(i <= 1 + B)
        BY <1>1, <3>3
      <4>1. Pushes(source)[i] = <<"DONE">>
        BY <2>8, <2>10, <4>0
      <4>2. 2 * i - 1 = 2 * B + 3
        BY <1>1, <3>3
      <4>3. PushWord(2 * B + 3) = "DONE"
        BY <1>1 DEF PushWord
      <4> QED
        BY <1>1, <3>3, <4>1, <4>2, <4>3
    <3> QED
      BY <1>1, <3>1, <3>2, <3>3
  <2> QED
    BY <1>5, <2>10, <2>11
<1> QED
  BY <1>3, <1>4, <1>5

-----------------------------------------------------------------------------
(* What an end of an operation does.                                       *)

WorkType == [at : {"idle", "open", "write", "read", "wait", "shell start", "shell open", "shell wait", "over"},
             then : {"nothing", "answer", "stat", "data", "block", "entry", "name", "rest", "end"},
             todo : Seq(Seq(Token)), mode : {"v2", "legacy"},
             stage : {"none", "pm", "rm", "probe", "exec", "reverse"}]

\* What the record of the work can be.
LEMMA WorkTyped == Typed => work \in WorkType
  BY DEF Typed, WorkType

\* Over ends the operation, but an install goes on with its commands.
LEMMA OverDoes ==
  ASSUME Typed, NEW r \in {"done", "failed"}, Over(r)
  PROVE  /\ work' \in WorkType /\ work'.then = work.then /\ work'.todo = work.todo
         /\ result' \in {"none", "done", "failed"} /\ (work'.at = "over" => result' = r)
         /\ op # "install" => work'.at = "over" /\ work'.stage = work.stage /\ result' = r
         /\ op = "install" => work'.at = "shell start"
         /\ op = "install" /\ work.stage = "none" /\ r = "done" => work'.stage = "pm" /\ result' = result
         /\ op = "install" /\ ~(work.stage = "none" /\ r = "done") => work'.stage = "rm" /\ result' = r
<1>1. work \in WorkType /\ result \in {"none", "done", "failed"}
  BY WorkTyped DEF Typed
<1>2. CASE op = "install" /\ work.stage = "none" /\ r = "done"
  BY <1>1, <1>2 DEF Over, Runs, WorkType
<1>3. CASE op = "install" /\ ~(work.stage = "none" /\ r = "done")
  BY <1>1, <1>3 DEF Over, Runs, WorkType
<1>4. CASE op # "install"
  BY <1>1, <1>4 DEF Over, Runs, WorkType
<1> QED
  BY <1>2, <1>3, <1>4

\* A stream that is closed keeps all but what has not been read.
LEMMA ClosedIs ==
  ASSUME NEW s \in StreamType
  PROVE  /\ Closed(s) \in StreamType /\ Closed(s).open = s.open /\ Closed(s).closed = TRUE
         /\ Closed(s).canWrite = s.canWrite /\ Closed(s).wire = s.wire /\ Closed(s).buffer = <<>>
  BY EmptySeq DEF Closed, StreamType

\* A work that fails: the stream is closed unless the exception was not caught.
ThrowsWith(uncaught) ==
  /\ work' \in WorkType /\ work'.then = work.then /\ work'.todo = work.todo
  /\ result' = "failed"
  /\ op # "install" => work'.at = "over" /\ work'.stage = work.stage
  /\ op = "install" => work'.at = "shell start" /\ work'.stage = "rm"
  /\ sync' = IF uncaught THEN sync ELSE Closed(sync)
  /\ local' = IF op = "pull" THEN <<>> ELSE local
  /\ UNCHANGED <<op, source, exit, shell, adb, device>>

\* Throws is one of the two failures of a work.
LEMMA ThrowsDoes ==
  ASSUME Typed, Throws
  PROVE  ThrowsWith(Uncaught)
<1>1. Over("failed")
  BY DEF Throws
<1>2. /\ work' \in WorkType /\ work'.then = work.then /\ work'.todo = work.todo
      /\ result' = "failed"
      /\ op # "install" => work'.at = "over" /\ work'.stage = work.stage
      /\ op = "install" => work'.at = "shell start" /\ work'.stage = "rm"
  BY <1>1, OverDoes
<1> QED
  BY <1>2 DEF Throws, ThrowsWith, Aborts, Emptied, request

\* Only the writes of a push from memory fail with nobody to catch it.
LEMMA UncaughtWhere ==
  ASSUME Typed, Placed, Uncaught
  PROVE  work.todo # <<>> /\ work.at \notin {"open", "read", "wait"} /\ source = "memory"
<1>1. work.todo # <<>>
  BY DEF Uncaught, Contains
<1> QED
  BY <1>1 DEF Placed, Uncaught

\* After Quit one token is left to write.
LEMMA QuitDoes ==
  ASSUME Typed, work' = Quit
  PROVE  /\ work' \in WorkType /\ work'.at = "write" /\ work'.then = "end" /\ work'.todo = <<<<"QUIT">>>>
         /\ work'.stage = work.stage
<1>1. <<<<"QUIT">>>> \in Seq(Seq(Token))
  <2>1. "QUIT" \in Token
    BY WordTokens DEF Words
  <2>2. <<"QUIT">> \in Seq(Token)
    BY <2>1
  <2> QED
    BY <2>2
<1> QED
  BY <1>1, WorkTyped DEF Quit, WorkType

\* What is taken of an answer, and what not.
LEMMA AfterDoes ==
  ASSUME Typed, NEW id \in Token, After(id).then # "throw", work' = After(id)
  PROVE  /\ work' \in WorkType /\ work'.stage = work.stage
         /\ \/ /\ \/ work.then = "answer" /\ id = "OKAY"
                  \/ work.then = "data" /\ id = "DONE"
                  \/ work.then = "rest"
               /\ work'.at = "write" /\ work'.then = "end" /\ work'.todo = <<<<"QUIT">>>>
            \/ /\ work.then = "stat" /\ id = "STAT"
               /\ work'.at = "write" /\ work'.then = "data" /\ work'.todo = <<<<"RECV">>, <<"path">>>>
            \/ /\ \/ work.then = "data" /\ id = "DATA" /\ work'.then = "block"
                  \/ work.then = "block" /\ work'.then = "data"
                  \/ work.then = "entry" /\ id = "DENT" /\ work'.then = "name"
                  \/ work.then = "name" /\ work'.then = "entry"
                  \/ work.then = "entry" /\ id = "DONE" /\ work'.then = "rest"
               /\ work'.at = "read" /\ work'.todo = work.todo
<1> DEFINE Ends == \/ work.then = "answer" /\ id = "OKAY"
                   \/ work.then = "data" /\ id = "DONE"
                   \/ work.then = "rest"
           Goes == \/ work.then = "data" /\ id = "DATA"
                   \/ work.then = "block"
                   \/ work.then = "entry" /\ id = "DENT"
                   \/ work.then = "name"
                   \/ work.then = "entry" /\ id = "DONE"
<1>1. work \in WorkType /\ "throw" \notin {"end", "data", "block", "name", "entry", "rest"}
  BY WorkTyped
<1>2. CASE Ends
  <2>1. work' = Quit
    BY <1>2 DEF After, Accepts
  <2> QED
    BY <1>2, <2>1, QuitDoes
<1>3. CASE work.then = "stat" /\ id = "STAT"
  <2>1. work' = [work EXCEPT !.at = "write", !.then = "data", !.todo = Asks("RECV")]
    BY <1>3 DEF After
  <2>2. <<<<"RECV">>, <<"path">>>> \in Seq(Seq(Token))
    <3>1. "RECV" \in Token /\ "path" \in Token
      BY WordTokens DEF Words
    <3>2. <<"RECV">> \in Seq(Token) /\ <<"path">> \in Seq(Token)
      BY <3>1
    <3> QED
      BY <3>2
  <2> QED
    BY <1>1, <1>3, <2>1, <2>2 DEF Asks, WorkType
<1>4. CASE Goes
  <2>1. \E t \in {"block", "data", "name", "entry", "rest"} :
          /\ work' = [work EXCEPT !.at = "read", !.then = t]
          /\ \/ work.then = "data" /\ id = "DATA" /\ t = "block"
             \/ work.then = "block" /\ t = "data"
             \/ work.then = "entry" /\ id = "DENT" /\ t = "name"
             \/ work.then = "name" /\ t = "entry"
             \/ work.then = "entry" /\ id = "DONE" /\ t = "rest"
    BY <1>4 DEF After
  <2> QED
    BY <1>1, <2>1 DEF WorkType
<1>5. Ends \/ Goes \/ (work.then = "stat" /\ id = "STAT")
  <2> SUFFICES ASSUME ~Ends, ~Goes, ~(work.then = "stat" /\ id = "STAT")
               PROVE  FALSE
    OBVIOUS
  <2>1. After(id) = [work EXCEPT !.then = "throw"]
    BY DEF After, Accepts
  <2> QED
    BY <1>1, <2>1 DEF WorkType
<1> QED
  BY <1>2, <1>3, <1>4, <1>5

-----------------------------------------------------------------------------
(* Types.                                                                  *)

USE DEF request, outcome

\* Words alone and in short sequences are tokens and sequences of tokens.
LEMMA SingleTokens ==
  /\ \A t \in Words : t \in Token /\ <<t>> \in Seq(Token)
  /\ \A t, u \in Words : <<t, u>> \in Seq(Token)
  /\ \A t, u, v \in Words : <<t, u, v>> \in Seq(Token)
  /\ \A t, u \in Words : <<<<t>>>> \in Seq(Seq(Token)) /\ <<<<t>>, <<u>>>> \in Seq(Seq(Token))
<1>1. \A t \in Words : t \in Token
  BY WordTokens
<1>2. \A t, u \in Words : <<t>> \in Seq(Token) /\ <<t, u>> \in Seq(Token)
  BY <1>1
<1>3. \A t, u, v \in Words : <<t, u, v>> \in Seq(Token)
  BY <1>1
<1>4. \A t, u \in Words : <<<<t>>>> \in Seq(Seq(Token)) /\ <<<<t>>, <<u>>>> \in Seq(Seq(Token))
  BY <1>2
<1> QED
  BY <1>1, <1>2, <1>3, <1>4

\* The types one by one.
LEMMA Types ==
  Typed <=>
    /\ op \in {"none", "push", "pull", "list", "exec", "install", "reverse"}
    /\ source \in {"none", "memory", "packet", "chunks"}
    /\ work \in WorkType
    /\ local \in Seq(ToSet(Content) \union {"old"})
    /\ result \in {"none", "done", "failed"} /\ exit \in {"none", "0", "1"}
    /\ sync \in StreamType /\ shell \in StreamType
    /\ adb \in {"open", "closing", "closed"}
    /\ (work.at = "over" => result # "none")
    /\ device \in DeviceType
  BY DEF Typed, WorkType

\* A service that has not begun has its types.
LEMMA TypedInit == ServiceInit => Typed
<1> SUFFICES ASSUME ServiceInit PROVE Typed
  OBVIOUS
<1>1. work \in WorkType
  BY EmptySeq DEF ServiceInit, WorkType
<1>2. sync \in StreamType /\ shell \in StreamType
  BY EmptySeq DEF ServiceInit, StreamType, NoStream
<1>3. device \in DeviceType
  BY EmptySeq DEF ServiceInit, DeviceType
<1>4. <<"old">> \in Seq(ToSet(Content) \union {"old"})
  OBVIOUS
<1> QED
  BY <1>1, <1>2, <1>3, <1>4, Types DEF ServiceInit

\* A stream that is not there is a stream.
LEMMA NoStreamType == NoStream \in StreamType
  BY EmptySeq DEF NoStream, StreamType

\* The protocol says which requests can be complete.
LEMMA Requests ==
  ASSUME Typed, Placed, Requested, device.got # <<>>
  PROVE  /\ Served + 1 <= ScriptSize /\ Head(device.got) = Word(Served + 1) /\ Head(device.got) = device.got[1]
         /\ Len(device.got) > 1 => Served + 2 <= ScriptSize /\ device.got[2] = Word(Served + 2)
<1>1. device.got \in Seq(Token) /\ Len(device.got) \in Nat /\ Len(device.got) >= 1 /\ Served \in Nat
  BY Types, EmptySeq, LenProperties DEF DeviceType, Requested
<1>2. Follows(device.got, Served)
  BY DEF Requested
<1>3. \A i \in 1..Len(device.got) : Served + i <= ScriptSize /\ device.got[i] = Word(Served + i)
  BY <1>2 DEF Follows
<1>4. Head(device.got) = device.got[1]
  BY <1>1, HeadTailProperties
<1>5. 1 \in 1..Len(device.got) /\ (Len(device.got) > 1 => 2 \in 1..Len(device.got))
  BY <1>1
<1> HIDE DEF Served
<1> QED
  BY <1>3, <1>4, <1>5

-----------------------------------------------------------------------------
(* The script of an operation, and what of it the device handles next.     *)

\* The script of a push, token by token.
LEMMA PushScript ==
  ASSUME Typed, Pushing
  PROVE  /\ Blocks \in Nat \ {0} /\ ScriptSize = 2 * Blocks + 4
         /\ Word(1) = "SEND" /\ Word(2) = "path" /\ Word(2 * Blocks + 3) = "DONE" /\ Word(2 * Blocks + 4) = "QUIT"
         /\ \A k \in 3..(2 * Blocks + 2) : Word(k) = IF k % 2 = 1 THEN "DATA" ELSE Whole[(k - 2) \div 2]
         /\ \A k \in 1..(2 * Blocks + 3) : Word(k) = PushWord(k)
         /\ \A k \in 1..(2 * Blocks + 4) : Word(k) \in Token
<1>1. Blocks \in Nat \ {0} /\ \A i \in 1..Blocks : Whole[i] \in Token
  <2>1. source \in {"none", "memory", "packet", "chunks"}
    BY Types
  <2> QED
    BY <2>1, WholeBlocks, WordTokens DEF Blocks
<1>2. ScriptSize = 2 * Blocks + 4 /\ \A k : Word(k) = PushWord(k)
  BY DEF ScriptSize, Word, Pushing
<1>3. PushWord(1) = "SEND" /\ PushWord(2) = "path"
  BY <1>1 DEF PushWord
<1>4. PushWord(2 * Blocks + 3) = "DONE" /\ PushWord(2 * Blocks + 4) = "QUIT"
  <2>1. \A k : k = 2 * Blocks + 3 => PushWord(k) = "DONE"
    BY <1>1 DEF PushWord
  <2>2. \A k : k = 2 * Blocks + 4 => PushWord(k) = "QUIT"
    BY <1>1 DEF PushWord
  <2> QED
    BY <2>1, <2>2
<1>5. ASSUME NEW k \in 3..(2 * Blocks + 2)
      PROVE  /\ PushWord(k) = IF k % 2 = 1 THEN "DATA" ELSE Whole[(k - 2) \div 2]
             /\ k % 2 # 1 => (k - 2) \div 2 \in 1..Blocks
  <2>1. k \in Nat /\ k # 1 /\ k # 2 /\ k # 2 * Blocks + 3 /\ k # 2 * Blocks + 4 /\ k % 2 \in {0, 1}
    BY <1>1, SMT
  <2>2. k % 2 # 1 => (k - 2) \div 2 \in 1..Blocks
    BY <1>1, SMT
  <2> QED
    BY <2>1, <2>2 DEF PushWord
<1>6. \A t \in {"SEND", "path", "DATA", "DONE", "QUIT"} : t \in Token
  <2>1. \A t \in {"SEND", "path", "DATA", "DONE", "QUIT"} : t \in Words
    BY DEF Words
  <2> QED
    BY <2>1, WordTokens
<1>7. ASSUME NEW k \in 1..(2 * Blocks + 4)
      PROVE  PushWord(k) \in Token
  <2>1. CASE k \in 3..(2 * Blocks + 2)
    BY <1>1, <1>5, <1>6, <2>1
  <2>2. CASE k \in {1, 2, 2 * Blocks + 3, 2 * Blocks + 4}
    BY <1>3, <1>4, <1>6, <2>2
  <2> QED
    BY <1>1, <2>1, <2>2
<1> QED
  BY <1>1, <1>2, <1>3, <1>4, <1>5, <1>7

\* The script of a pull.
LEMMA PullScript ==
  ASSUME op = "pull"
  PROVE  /\ ScriptSize = 5 /\ Word(1) = "STAT" /\ Word(2) = "path" /\ Word(3) = "RECV" /\ Word(4) = "path"
         /\ Word(5) = "QUIT"
  BY DEF ScriptSize, Word, PullWord, Pushing

\* The script of a listing.
LEMMA ListScript ==
  ASSUME op = "list"
  PROVE  ScriptSize = 3 /\ Word(1) = "LIST" /\ Word(2) = "path" /\ Word(3) = "QUIT"
  BY DEF ScriptSize, Word, ListWord, Pushing

\* A command says nothing on the stream of "sync:".
LEMMA NoScript ==
  ASSUME ~Pushing, ~Asking
  PROVE  ScriptSize = 0
  BY DEF ScriptSize, Asking

\* A script has a length.
LEMMA SizeType ==
  ASSUME Typed
  PROVE  ScriptSize \in Nat
<1>1. CASE Pushing
  BY <1>1, PushScript
<1>2. CASE Asking
  BY <1>2, PullScript, ListScript DEF Asking
<1> QED
  BY <1>1, <1>2, NoScript

\* The request that the device can handle next.
NextRequest(id) ==
  \/ id = "SEND" /\ Pushing /\ Served = 0
  \/ id = "DATA" /\ Pushing /\ Served \in 2..(ScriptSize - 4) /\ Served % 2 = 0
  \/ id = "DONE" /\ Pushing /\ Served = ScriptSize - 2
  \/ id = "STAT" /\ op = "pull" /\ Served = 0
  \/ id = "RECV" /\ op = "pull" /\ Served = 2
  \/ id = "LIST" /\ op = "list" /\ Served = 0
  \/ id = "QUIT" /\ (Pushing \/ Asking) /\ Served = ScriptSize - 1

\* What the device has received begins with the next request of the script.
LEMMA NextRequestIs ==
  ASSUME Typed, Placed, Requested, device.got # <<>>
  PROVE  /\ NextRequest(Head(device.got))
         /\ Head(device.got) = "DATA" /\ Len(device.got) > 1 => device.got[2] = Whole[Served \div 2]
<1> DEFINE s == Served
           id == Head(device.got)
<1>1. /\ s \in Nat /\ Boundary(s) /\ s + 1 <= ScriptSize /\ id = Word(s + 1)
      /\ Len(device.got) > 1 => s + 2 <= ScriptSize /\ device.got[2] = Word(s + 2)
  BY Requests DEF Requested
<1> HIDE DEF s, id
<1>2. CASE Pushing
  <2>1. /\ Blocks \in Nat \ {0} /\ ScriptSize = 2 * Blocks + 4
        /\ Word(1) = "SEND" /\ Word(2) = "path" /\ Word(2 * Blocks + 3) = "DONE" /\ Word(2 * Blocks + 4) = "QUIT"
        /\ \A k \in 3..(2 * Blocks + 2) : Word(k) = IF k % 2 = 1 THEN "DATA" ELSE Whole[(k - 2) \div 2]
    BY <1>2, PushScript
  <2>2. s % 2 = 0 \/ s = ScriptSize - 1
    BY <1>1, <1>2 DEF Boundary
  <2>3. CASE s = 0
    BY <1>1, <1>2, <2>1, <2>3 DEF NextRequest, s, id
  <2>4. CASE s \in 2..(2 * Blocks) /\ s % 2 = 0
    <3>1. s + 1 \in 3..(2 * Blocks + 2) /\ (s + 1) % 2 = 1 /\ s + 2 \in 3..(2 * Blocks + 2) /\ (s + 2) % 2 = 0
      BY <2>1, <2>4, SMT
    <3>2. Word(s + 1) = "DATA" /\ Word(s + 2) = Whole[((s + 2) - 2) \div 2] /\ (s + 2) - 2 = s
      BY <1>1, <2>1, <3>1
    <3>3. Word(s + 2) = Whole[s \div 2]
      BY <3>2
    <3>4. s \in 2..(ScriptSize - 4)
      BY <2>1, <2>4
    <3> QED
      BY <1>1, <1>2, <2>4, <3>2, <3>3, <3>4 DEF NextRequest, s, id
  <2>5. CASE s = 2 * Blocks + 2
    <3>1. s + 1 = 2 * Blocks + 3 /\ s = ScriptSize - 2
      BY <2>1, <2>5
    <3>2. id = "DONE"
      BY <1>1, <2>1, <3>1
    <3> QED
      BY <1>2, <3>1, <3>2 DEF NextRequest, s, id
  <2>6. CASE s = ScriptSize - 1
    <3>1. s + 1 = 2 * Blocks + 4
      BY <2>1, <2>6
    <3>2. id = "QUIT"
      BY <1>1, <2>1, <3>1
    <3> QED
      BY <1>2, <2>6, <3>2 DEF NextRequest, s, id
  <2>7. s = 0 \/ (s \in 2..(2 * Blocks) /\ s % 2 = 0) \/ s = 2 * Blocks + 2 \/ s = ScriptSize - 1
    BY <1>1, <2>1, <2>2, SMT
  <2> QED
    BY <2>3, <2>4, <2>5, <2>6, <2>7
<1>3. CASE op = "pull"
  <2>1. s \in {0, 2, 4}
    <3>1. s \in 0..4 /\ (s % 2 = 0 \/ s = 5)
      BY <1>1, <1>3, PullScript DEF Boundary, Pushing
    <3> QED
      BY <3>1, SMT
  <2> QED
    BY <1>1, <1>3, <2>1, PullScript DEF NextRequest, Asking, s, id
<1>4. CASE op = "list"
  <2>1. s \in {0, 2}
    <3>1. s \in 0..2 /\ (s % 2 = 0 \/ s = 3)
      BY <1>1, <1>4, ListScript DEF Boundary, Pushing
    <3> QED
      BY <3>1, SMT
  <2> QED
    BY <1>1, <1>4, <2>1, ListScript DEF NextRequest, Asking, s, id
<1>5. CASE ~Pushing /\ ~Asking
  BY <1>1, <1>5, NoScript
<1> QED
  BY <1>2, <1>3, <1>4, <1>5 DEF Asking

\* What the device does with a request: it takes k tokens and may answer.
ServesWith(id, k) ==
  /\ device' \in DeviceType
  /\ Len(device.got) >= k /\ Len(device'.got) = Len(device.got) - k
  /\ \A i \in 1..(Len(device.got) - k) : device'.got[i] = device.got[i + k]
  /\ device'.ran = device.ran /\ device'.text = device.text /\ device'.code = device.code
  /\ device'.installed = device.installed
  /\ UNCHANGED <<op, source, work, local, result, exit, sync, shell, adb>>
  /\ device.out = <<>> /\ device.failed = FALSE
  /\ \/ id = "SEND" /\ device'.file = <<>> /\ device'.stored = FALSE /\ device'.out = <<>> /\ device'.failed = FALSE
     \/ /\ id = "DATA" /\ device'.file = Append(device.file, Whole[Served \div 2]) /\ device'.out = <<>>
        /\ device'.stored = device.stored /\ device'.failed = FALSE
     \/ /\ id \in {"DATA", "DONE"} /\ device'.file = device.file /\ device'.out = <<"FAIL">>
        /\ device'.stored = device.stored /\ device'.failed = TRUE
     \/ /\ id = "DONE" /\ device'.file = device.file /\ device'.out = <<"OKAY">>
        /\ device'.stored = TRUE /\ device'.failed = FALSE
     \/ /\ id \in {"STAT", "RECV", "LIST"} /\ device'.file = device.file
        /\ device'.stored = device.stored /\ device'.failed = FALSE
        /\ \/ id = "STAT" /\ \E a \in Token : device'.out = <<a>>
           \/ id # "STAT" /\ device'.out = <<"FAIL">>
           \/ id = "RECV" /\ device'.out = Pairs("DATA", Content) \o <<"DONE">>
           \/ id = "LIST" /\ device'.out = Pairs("DENT", Content) \o <<"DONE", "zeros">>
     \/ /\ id = "QUIT" /\ device'.file = device.file /\ device'.out = <<>>
        /\ device'.stored = device.stored /\ device'.failed = FALSE

\* What the device answers is made of tokens.
LEMMA AnswersTyped ==
  /\ Pairs("DATA", Content) \o <<"DONE">> \in Seq(Token)
  /\ Pairs("DENT", Content) \o <<"DONE", "zeros">> \in Seq(Token)
<1>1. Content \in Seq(Token)
  BY ContentBlocks, WordTokens, SeqMonotonic
<1>2. /\ "DATA" \in Token /\ "DENT" \in Token
      /\ <<"DONE">> \in Seq(Token) /\ <<"DONE", "zeros">> \in Seq(Token)
  <2>1. "DATA" \in Words /\ "DENT" \in Words /\ "DONE" \in Words /\ "zeros" \in Words
    BY DEF Words
  <2> QED
    BY <2>1, SingleTokens
<1>3. Pairs("DATA", Content) \in Seq(Token) /\ Pairs("DENT", Content) \in Seq(Token)
  BY <1>1, <1>2, PairsMade
<1> QED
  BY <1>2, <1>3, ConcatProperties

\* What is left of a sequence without its first element.
LEMMA Tails ==
  ASSUME NEW S, NEW s \in Seq(S), s # <<>>
  PROVE  /\ Len(s) \in Nat \ {0} /\ Head(s) = s[1] /\ s[1] \in S
         /\ Tail(s) \in Seq(S) /\ Len(Tail(s)) = Len(s) - 1 /\ Len(Tail(s)) \in Nat
         /\ \A i \in 1..(Len(s) - 1) : Tail(s)[i] = s[i + 1]
<1>1. Len(s) \in Nat \ {0}
  BY EmptySeq
<1>2. 1 \in 1..Len(s)
  BY <1>1
<1>3. s[1] \in S
  BY <1>2, ElementOfSeq
<1> QED
  BY <1>1, <1>3, HeadTailProperties

\* The device serves the next request of the script, and takes it whole.
LEMMA DeviceServesDoes ==
  ASSUME Typed, Placed, Requested, DeviceServes
  PROVE  \E id \in Words : NextRequest(id) /\ ServesWith(id, IF id \in {"DONE", "QUIT"} THEN 1 ELSE 2)
<1> DEFINE id == Head(device.got)
           k == IF id \in {"DONE", "QUIT"} THEN 1 ELSE 2
<1>1. /\ device \in DeviceType /\ device.got \in Seq(Token) /\ device.got # <<>> /\ Len(device.got) \in Nat
      /\ device.file \in Seq(Token) /\ Len(device.got) >= 1
      /\ device.out = <<>> /\ device.failed = FALSE
  BY Types, EmptySeq, LenProperties DEF DeviceServes, DeviceType
<1>2. /\ NextRequest(id) /\ id \in Words
      /\ id = "DATA" /\ Len(device.got) > 1 => device.got[2] = Whole[Served \div 2]
  BY <1>1, NextRequestIs DEF NextRequest, Words
<1>3. id \notin {"DONE", "QUIT"} => Len(device.got) > 1
  BY DEF DeviceServes
<1>4. /\ Rest(device.got) \in Seq(Token) /\ Len(Rest(device.got)) = Len(device.got) - k
      /\ \A i \in 1..(Len(device.got) - k) : Rest(device.got)[i] = device.got[i + k]
  <2>1. CASE id \in {"DONE", "QUIT"}
    <3>1. Rest(device.got) = Tail(device.got) /\ k = 1
      BY <2>1 DEF Rest
    <3> QED
      <4>1. /\ Tail(device.got) \in Seq(Token) /\ Len(Tail(device.got)) = Len(device.got) - 1
            /\ \A i \in 1..(Len(device.got) - 1) : Tail(device.got)[i] = device.got[i + 1]
        BY <1>1, Tails
      <4> HIDE DEF k
      <4> QED
        BY <3>1, <4>1
  <2>2. CASE id \notin {"DONE", "QUIT"}
    <3>1. Rest(device.got) = Tail(Tail(device.got)) /\ k = 2
      BY <2>2 DEF Rest
    <3> DEFINE T == Tail(device.got)
    <3>2. /\ T \in Seq(Token) /\ Len(T) = Len(device.got) - 1
          /\ \A i \in 1..(Len(device.got) - 1) : T[i] = device.got[i + 1]
      BY <1>1, Tails
    <3>a. Rest(device.got) = Tail(T)
      BY <3>1
    <3> HIDE DEF T
    <3>3. T # <<>> /\ Len(T) = Len(device.got) - 1
      <4>1. Len(T) > 0
        BY <1>1, <1>3, <2>2, <3>2
      <4> QED
        BY <3>2, <4>1, EmptySeq
    <3>4. /\ Tail(T) \in Seq(Token) /\ Len(Tail(T)) = Len(T) - 1
          /\ \A i \in 1..(Len(T) - 1) : Tail(T)[i] = T[i + 1]
      BY <3>2, <3>3, Tails
    <3>5. \A i \in 1..(Len(device.got) - 2) : T[i + 1] = device.got[i + 2]
      BY <1>1, <3>2
    <3>6. Len(T) - 1 = Len(device.got) - 2 /\ k = 2
      BY <1>1, <2>2, <3>3
    <3> HIDE DEF k
    <3> QED
      BY <3>a, <3>4, <3>5, <3>6
  <2> QED
    BY <2>1, <2>2
<1> HIDE DEF id
<1>5. \E d \in Serve(device, id) : device' = [d EXCEPT !.got = Rest(device.got)]
  <2>1. PICK d \in Serve(device, id) : device' = [d EXCEPT !.got = Rest(@)]
    BY DEF DeviceServes, id
  <2>2. d.got = device.got
    BY <1>1, <1>2, <2>1 DEF NextRequest, Serve, DeviceType
  <2> QED
    BY <2>1, <2>2
<1>6. PICK d \in Serve(device, id) : device' = [d EXCEPT !.got = Rest(device.got)]
  BY <1>5
<1>7. /\ <<"FAIL">> \in Seq(Token) /\ <<"OKAY">> \in Seq(Token) /\ <<>> \in Seq(Token)
      /\ \A a \in {"STAT", "STAT of a directory", "FAIL"} : a \in Token /\ <<a>> \in Seq(Token)
      /\ (id = "DATA" => Append(device.file, device.got[2]) \in Seq(Token))
  <2>1. id = "DATA" => device.got[2] \in Token
    BY <1>1, <1>3, ElementOfSeq
  <2>2. id = "DATA" => Append(device.file, device.got[2]) \in Seq(Token)
    BY <1>1, <2>1, AppendProperties
  <2>3. <<"FAIL">> \in Seq(Token) /\ <<"OKAY">> \in Seq(Token) /\ <<>> \in Seq(Token)
    BY SingleTokens, EmptySeq DEF Words
  <2>4. \A a \in {"STAT", "STAT of a directory", "FAIL"} : a \in Token /\ <<a>> \in Seq(Token)
    <3>1. \A a \in {"STAT", "STAT of a directory", "FAIL"} : a \in Words
      BY DEF Words
    <3> QED
      BY <3>1, SingleTokens
  <2> QED
    BY <2>2, <2>3, <2>4
<1>8. /\ d \in DeviceType
      /\ d.ran = device.ran /\ d.text = device.text /\ d.code = device.code /\ d.installed = device.installed
      /\ \/ id = "SEND" /\ d.file = <<>> /\ d.stored = FALSE /\ d.out = <<>> /\ d.failed = FALSE
         \/ /\ id = "DATA" /\ d.file = Append(device.file, device.got[2]) /\ d.out = <<>>
            /\ d.stored = device.stored /\ d.failed = FALSE
         \/ /\ id \in {"DATA", "DONE"} /\ d.file = device.file /\ d.out = <<"FAIL">>
            /\ d.stored = device.stored /\ d.failed = TRUE
         \/ /\ id = "DONE" /\ d.file = device.file /\ d.out = <<"OKAY">>
            /\ d.stored = TRUE /\ d.failed = FALSE
         \/ /\ id \in {"STAT", "RECV", "LIST"} /\ d.file = device.file
            /\ d.stored = device.stored /\ d.failed = FALSE
            /\ \/ id = "STAT" /\ \E a \in Token : d.out = <<a>>
               \/ id # "STAT" /\ d.out = <<"FAIL">>
               \/ id = "RECV" /\ d.out = Pairs("DATA", Content) \o <<"DONE">>
               \/ id = "LIST" /\ d.out = Pairs("DENT", Content) \o <<"DONE", "zeros">>
         \/ /\ id = "QUIT" /\ d.file = device.file /\ d.out = <<>>
            /\ d.stored = device.stored /\ d.failed = FALSE
  <2>1. CASE id = "SEND"
    <3>1. d = [device EXCEPT !.file = <<>>, !.stored = FALSE]
      BY <1>6, <2>1 DEF Serve
    <3> QED
      BY <1>1, <1>7, <2>1, <3>1 DEF DeviceType
  <2>2. CASE id = "DATA"
    <3>1. \/ d = [device EXCEPT !.file = Append(device.file, device.got[2])]
          \/ d = [device EXCEPT !.out = <<"FAIL">>, !.failed = TRUE]
      BY <1>6, <2>2 DEF Serve
    <3>2. CASE d = [device EXCEPT !.file = Append(device.file, device.got[2])]
      BY <1>1, <1>7, <2>2, <3>2 DEF DeviceType
    <3>3. CASE d = [device EXCEPT !.out = <<"FAIL">>, !.failed = TRUE]
      BY <1>1, <1>7, <2>2, <3>3 DEF DeviceType
    <3> QED
      BY <3>1, <3>2, <3>3
  <2>3. CASE id = "DONE"
    <3>1. \/ d = [device EXCEPT !.stored = TRUE, !.out = <<"OKAY">>]
          \/ d = [device EXCEPT !.out = <<"FAIL">>, !.failed = TRUE]
      BY <1>6, <2>3 DEF Serve
    <3>2. CASE d = [device EXCEPT !.stored = TRUE, !.out = <<"OKAY">>]
      BY <1>1, <1>7, <2>3, <3>2 DEF DeviceType
    <3>3. CASE d = [device EXCEPT !.out = <<"FAIL">>, !.failed = TRUE]
      BY <1>1, <1>7, <2>3, <3>3 DEF DeviceType
    <3> QED
      BY <3>1, <3>2, <3>3
  <2>4. CASE id = "STAT"
    <3>1. PICK a \in {"STAT", "STAT of a directory", "FAIL"} : d = [device EXCEPT !.out = <<a>>]
      BY <1>6, <2>4 DEF Serve
    <3> QED
      BY <1>1, <1>7, <2>4, <3>1 DEF DeviceType
  <2>5. CASE id = "RECV"
    <3>1. PICK a \in {<<"FAIL">>, Pairs("DATA", Content) \o <<"DONE">>} : d = [device EXCEPT !.out = a]
      BY <1>6, <2>5 DEF Serve
    <3>2. a \in Seq(Token)
      BY <1>7, <3>1, AnswersTyped
    <3>3. d \in DeviceType /\ d.out = a
      BY <1>1, <3>1, <3>2 DEF DeviceType
    <3>4. d.file = device.file /\ d.stored = device.stored /\ d.failed = FALSE /\ d.ran = device.ran
          /\ d.text = device.text /\ d.code = device.code /\ d.installed = device.installed
      BY <1>1, <3>1 DEF DeviceType
    <3> QED
      BY <2>5, <3>1, <3>3, <3>4
  <2>6. CASE id = "LIST"
    <3>1. PICK a \in {<<"FAIL">>, Pairs("DENT", Content) \o <<"DONE", "zeros">>} : d = [device EXCEPT !.out = a]
      BY <1>6, <2>6 DEF Serve
    <3>2. a \in Seq(Token)
      BY <1>7, <3>1, AnswersTyped
    <3>3. d \in DeviceType /\ d.out = a
      BY <1>1, <3>1, <3>2 DEF DeviceType
    <3>4. d.file = device.file /\ d.stored = device.stored /\ d.failed = FALSE /\ d.ran = device.ran
          /\ d.text = device.text /\ d.code = device.code /\ d.installed = device.installed
      BY <1>1, <3>1 DEF DeviceType
    <3> QED
      BY <2>6, <3>1, <3>3, <3>4
  <2>7. CASE id = "QUIT"
    <3>1. d = device
      BY <1>6, <2>7 DEF Serve
    <3> QED
      BY <1>1, <2>7, <3>1
  <2> QED
    BY <1>2, <2>1, <2>2, <2>3, <2>4, <2>5, <2>6, <2>7 DEF NextRequest
<1>9. /\ device' \in DeviceType /\ device'.got = Rest(device.got)
      /\ device'.ran = d.ran /\ device'.text = d.text /\ device'.code = d.code /\ device'.installed = d.installed
      /\ device'.file = d.file /\ device'.out = d.out /\ device'.stored = d.stored /\ device'.failed = d.failed
  BY <1>4, <1>6, <1>8 DEF DeviceType
<1>10. Len(device.got) >= k
  BY <1>1, <1>3
<1>11. UNCHANGED <<op, source, work, local, result, exit, sync, shell, adb>>
  BY DEF DeviceServes
<1>12. ServesWith(id, k)
  <2>1. id = "DATA" => device.got[2] = Whole[Served \div 2]
    BY <1>2, <1>3
  <2> HIDE DEF Served, k
  <2> QED
    BY <1>1, <1>4, <1>8, <1>9, <1>10, <1>11, <2>1 DEF ServesWith
<1> QED
  BY <1>2, <1>12

-----------------------------------------------------------------------------
(* What each action does, field by field.                                  *)

\* The work begins.
BeginsWith(at, stage) ==
  /\ op = "none" /\ op' # "none"
  /\ work' \in WorkType /\ work'.at = at /\ work'.stage = stage
  /\ work'.then = work.then /\ work'.todo = work.todo
  /\ local' \in {<<>>, local}
  /\ UNCHANGED <<exit, sync, shell, adb, device>>

\* An operation begins with a stream for "sync:", with a command, or is over at once.
LEMMA StartDoes ==
  ASSUME Typed, Start
  PROVE  \/ /\ BeginsWith("open", "none") /\ op' \in {"push", "install"} /\ source' \in {"memory", "packet", "chunks"}
            /\ local' = local /\ result' = result
         \/ /\ BeginsWith("open", "none") /\ op' \in {"pull", "list"} /\ source' = source /\ local' = <<>> /\ result' = result
         \/ /\ BeginsWith("over", work.stage) /\ op' = "pull" /\ source' = source /\ local' = local /\ result' = "failed"
         \/ /\ BeginsWith("shell start", op') /\ op' \in {"exec", "reverse"} /\ source' = source
            /\ local' = local /\ result' = result
<1>1. work \in WorkType
  BY WorkTyped
<1>2. ASSUME NEW at \in {"open", "shell start"}, NEW what, NEW stage \in {"none", "exec", "reverse"},
             Starts(what, at, stage)
      PROVE  /\ op = "none" /\ op' = what
             /\ work' \in WorkType /\ work'.at = at /\ work'.stage = stage
             /\ work'.then = work.then /\ work'.todo = work.todo
             /\ UNCHANGED <<result, exit, sync, shell, adb, device>>
  BY <1>1, <1>2 DEF Starts, WorkType
<1>3. CASE StartPush
  <2>1. PICK what \in {"push", "install"}, from \in {"memory", "packet", "chunks"} :
          Starts(what, "open", "none") /\ source' = from /\ UNCHANGED local
    BY <1>3 DEF StartPush
  <2> QED
    BY <1>2, <2>1 DEF BeginsWith
<1>4. CASE StartList
  <2>1. Starts("list", "open", "none") /\ local' = <<>> /\ UNCHANGED source
    BY <1>4 DEF StartList
  <2>2. /\ op = "none" /\ op' = "list"
        /\ work' \in WorkType /\ work'.at = "open" /\ work'.stage = "none"
        /\ work'.then = work.then /\ work'.todo = work.todo
        /\ UNCHANGED <<result, exit, sync, shell, adb, device>>
    BY <1>2, <2>1
  <2> QED
    BY <2>1, <2>2 DEF BeginsWith
<1>5. CASE StartPull
  <2>1. Starts("pull", "open", "none") /\ local' = <<>> /\ UNCHANGED source
    BY <1>5 DEF StartPull
  <2>2. /\ op = "none" /\ op' = "pull"
        /\ work' \in WorkType /\ work'.at = "open" /\ work'.stage = "none"
        /\ work'.then = work.then /\ work'.todo = work.todo
        /\ UNCHANGED <<result, exit, sync, shell, adb, device>>
    BY <1>2, <2>1
  <2> QED
    BY <2>1, <2>2 DEF BeginsWith
<1>6. CASE PrepareFails
  BY <1>1, <1>6 DEF PrepareFails, BeginsWith, WorkType
<1>7. CASE StartCommand
  <2>1. PICK what \in {"exec", "reverse"} : Starts(what, "shell start", what) /\ UNCHANGED <<source, local>>
    BY <1>7 DEF StartCommand
  <2> QED
    BY <1>2, <2>1 DEF BeginsWith
<1> QED
  BY <1>3, <1>4, <1>5, <1>6, <1>7 DEF Start

\* With the stream open, all that an operation says first is planned.
LEMMA OpenedDoes ==
  ASSUME Typed, Placed, Opened
  PROVE  /\ work.at = "open" /\ sync.open = TRUE /\ sync.closed = FALSE
         /\ work' \in WorkType /\ work'.at = "write" /\ work'.stage = work.stage
         /\ \/ op = "pull" /\ work'.then = "stat" /\ work'.todo = <<<<"STAT">>, <<"path">>>>
            \/ op = "list" /\ work'.then = "entry" /\ work'.todo = <<<<"LIST">>, <<"path">>>>
            \/ Pushing /\ work'.then = "answer" /\ work'.todo = Pushes(source)
         /\ UNCHANGED <<op, source, local, result, exit, sync, shell, adb, device>>
<1>1. work \in WorkType /\ sync \in StreamType /\ source \in {"none", "memory", "packet", "chunks"}
  BY Types
<1>2. op = "pull" \/ op = "list" \/ Pushing
  BY DEF Opened, Placed, OnSync, Asking
<1>3. CASE op = "pull"
  <2>1. work' = [work EXCEPT !.at = "write", !.then = "stat", !.todo = Asks("STAT")]
    BY <1>3 DEF Opened
  <2>2. Asks("STAT") \in Seq(Seq(Token)) /\ Asks("STAT") = <<<<"STAT">>, <<"path">>>>
    BY SingleTokens DEF Asks, Words
  <2> QED
    BY <1>1, <1>3, <2>1, <2>2 DEF Opened, StreamType, WorkType
<1>4. CASE op = "list"
  <2>1. work' = [work EXCEPT !.at = "write", !.then = "entry", !.todo = Asks("LIST")]
    BY <1>4 DEF Opened
  <2>2. Asks("LIST") \in Seq(Seq(Token)) /\ Asks("LIST") = <<<<"LIST">>, <<"path">>>>
    BY SingleTokens DEF Asks, Words
  <2> QED
    BY <1>1, <1>4, <2>1, <2>2 DEF Opened, StreamType, WorkType
<1>5. CASE Pushing
  <2>1. op \notin {"pull", "list"}
    BY <1>5 DEF Pushing
  <2>2. work' = [work EXCEPT !.at = "write", !.then = "answer", !.todo = Pushes(source)]
    BY <2>1 DEF Opened
  <2>3. Pushes(source) \in Seq(Seq(Token))
    BY <1>1, <1>5, PushesMade DEF Placed
  <2> QED
    BY <1>1, <1>5, <2>2, <2>3 DEF Opened, StreamType, WorkType
<1> QED
  BY <1>2, <1>3, <1>4, <1>5

\* One write puts one element of the plan on the wire.
LEMMA WriteDoes ==
  ASSUME Typed, Write
  PROVE  /\ work.at = "write" /\ sync.canWrite = TRUE /\ sync.closed = FALSE /\ adb = "open"
         /\ work.todo # <<>> /\ work' \in WorkType /\ work'.at = "write" /\ work'.then = work.then
         /\ work'.stage = work.stage /\ work'.todo = Tail(work.todo)
         /\ sync' \in StreamType /\ sync'.open = sync.open /\ sync'.closed = FALSE /\ sync'.canWrite = FALSE
         /\ sync'.wire = work.todo[1] /\ sync'.buffer = sync.buffer
         /\ UNCHANGED <<op, source, local, result, exit, shell, adb, device>>
<1>1. work \in WorkType /\ sync \in StreamType /\ work.todo \in Seq(Seq(Token))
  BY Types DEF WorkType
<1>2. work.todo # <<>>
  BY DEF Write
<1>3. Head(work.todo) = work.todo[1] /\ work.todo[1] \in Seq(Token) /\ Tail(work.todo) \in Seq(Seq(Token))
  BY <1>1, <1>2, Tails
<1> QED
  BY <1>1, <1>2, <1>3 DEF Write, WorkType, StreamType

\* An answer, or a part of one, is taken.
Takes(id) ==
  /\ work.at = "wait" /\ sync.buffer # <<>> /\ id = sync.buffer[1]
  /\ After(id).then # "throw" /\ work' = After(id)
  /\ sync' \in StreamType /\ sync'.open = sync.open /\ sync'.closed = sync.closed
  /\ sync'.canWrite = sync.canWrite /\ sync'.wire = sync.wire /\ sync'.buffer = Tail(sync.buffer)
  /\ local' = IF work.then \in {"block", "name"} THEN Append(local, id) ELSE local
  /\ UNCHANGED <<op, source, result, exit, shell, adb, device>>

\* A read takes one token, or what it takes is not what is expected and the work fails.
LEMMA ReadDoes ==
  ASSUME Typed, Read
  PROVE  ThrowsWith(Uncaught) \/ \E id \in Token : Takes(id)
<1>1. sync \in StreamType /\ sync.buffer \in Seq(Token) /\ sync.buffer # <<>>
  BY Types DEF Read, StreamType
<1>2. Head(sync.buffer) = sync.buffer[1] /\ sync.buffer[1] \in Token /\ Tail(sync.buffer) \in Seq(Token)
  BY <1>1, Tails
<1> DEFINE id == Head(sync.buffer)
<1>3. CASE After(id).then = "throw"
  <2>1. Throws
    BY <1>3 DEF Read
  <2> QED
    BY <2>1, ThrowsDoes
<1>4. CASE After(id).then # "throw"
  <2>1. /\ work' = After(id)
        /\ sync' = [sync EXCEPT !.buffer = Tail(@)]
        /\ local' = (IF work.then \in {"block", "name"} THEN Append(local, id) ELSE local)
        /\ UNCHANGED <<op, source, result, exit, shell, adb, device>>
    BY <1>4 DEF Read
  <2>2. /\ sync' \in StreamType /\ sync'.open = sync.open /\ sync'.closed = sync.closed
        /\ sync'.canWrite = sync.canWrite /\ sync'.wire = sync.wire /\ sync'.buffer = Tail(sync.buffer)
    BY <1>1, <1>2, <2>1 DEF StreamType
  <2>3. Takes(id)
    BY <1>1, <1>2, <1>4, <2>1, <2>2 DEF Takes, Read
  <2> QED
    BY <1>2, <2>3
<1> QED
  BY <1>3, <1>4

\* When the plan is written, the work reads an answer or ends.
LEMMA WrittenDoes ==
  ASSUME Typed, Placed, Written
  PROVE  /\ work.at = "write" /\ work.todo = <<>> /\ UNCHANGED <<op, source, local, exit, shell, adb, device>>
         /\ \/ /\ work.then # "end" /\ work' \in WorkType /\ work'.at = "read" /\ work'.then = work.then
               /\ work'.todo = work.todo /\ work'.stage = work.stage /\ UNCHANGED <<result, sync>>
            \/ /\ work.then = "end" /\ work' \in WorkType /\ work'.then = work.then /\ work'.todo = work.todo
               /\ sync' = Closed(sync)
               /\ op # "install" => work'.at = "over" /\ work'.stage = work.stage /\ result' = "done"
               /\ op = "install" => work'.at = "shell start" /\ work'.stage = "pm" /\ result' = result
<1>1. work \in WorkType
  BY WorkTyped
<1>2. CASE work.then # "end"
  BY <1>1, <1>2 DEF Written, WorkType
<1>3. CASE work.then = "end"
  <2>1. Over("done") /\ op = "install" => work.stage = "none"
    BY <1>3 DEF Written, Placed, OnSync
  <2> QED
    BY <1>3, <2>1, OverDoes DEF Written
<1> QED
  BY <1>2, <1>3

\* The work goes from one place to another.
MovesTo(at, stage) ==
  /\ work' \in WorkType /\ work'.at = at /\ work'.stage = stage
  /\ work'.then = work.then /\ work'.todo = work.todo
  /\ UNCHANGED <<op, source, local, result, exit, sync, adb>>

\* The steps that only bring the work from one place to another.
LEMMA MovesDo ==
  ASSUME Typed
  PROVE  /\ ReadBegins => work.at = "read" /\ sync.closed = FALSE /\ MovesTo("wait", work.stage) /\ UNCHANGED <<shell, device>>
         /\ Probe => /\ work.at = "wait" /\ work.then = "rest" /\ MovesTo("shell start", "probe")
                     /\ UNCHANGED <<shell, device>>
         /\ ShellOpened => /\ work.at = "shell open" /\ MovesTo("shell wait", work.stage) /\ UNCHANGED <<shell, device>>
         /\ FallsBack => /\ Broken /\ MovesTo("shell start", work.stage) /\ UNCHANGED <<shell, device>>
         /\ ShellStarts => /\ work.at = "shell start" /\ MovesTo("shell open", work.stage) /\ shell' = NoStream
                           /\ device' \in DeviceType /\ device'.got = device.got /\ device'.out = device.out
                           /\ device'.file = device.file /\ device'.stored = device.stored
                           /\ device'.failed = device.failed /\ device'.code = device.code
                           /\ device'.installed = device.installed
                           /\ device'.ran = FALSE /\ device'.text = <<>>
<1>1. work \in WorkType /\ sync \in StreamType /\ device \in DeviceType
  BY Types
<1>2. ReadBegins => work.at = "read" /\ sync.closed = FALSE /\ MovesTo("wait", work.stage) /\ UNCHANGED <<shell, device>>
  BY <1>1 DEF ReadBegins, MovesTo, WorkType, StreamType
<1>3. Probe => /\ work.at = "wait" /\ work.then = "rest" /\ MovesTo("shell start", "probe")
               /\ UNCHANGED <<shell, device>>
  BY <1>1 DEF Probe, Runs, MovesTo, WorkType
<1>4. ShellOpened => work.at = "shell open" /\ MovesTo("shell wait", work.stage) /\ UNCHANGED <<shell, device>>
  BY <1>1 DEF ShellOpened, MovesTo, WorkType
<1>5. FallsBack => Broken /\ MovesTo("shell start", work.stage) /\ UNCHANGED <<shell, device>>
  BY <1>1 DEF FallsBack, MovesTo, WorkType
<1>6. ASSUME ShellStarts
      PROVE  /\ work.at = "shell start" /\ MovesTo("shell open", work.stage) /\ shell' = NoStream
             /\ device' \in DeviceType /\ device'.got = device.got /\ device'.out = device.out
             /\ device'.file = device.file /\ device'.stored = device.stored
             /\ device'.failed = device.failed /\ device'.code = device.code
             /\ device'.installed = device.installed
             /\ device'.ran = FALSE /\ device'.text = <<>>
  <2>1. work.at = "shell start" /\ MovesTo("shell open", work.stage) /\ shell' = NoStream
    BY <1>1, <1>6 DEF ShellStarts, MovesTo, WorkType
  <2>2. device' = [device EXCEPT !.ran = FALSE, !.text = <<>>] /\ <<>> \in Seq(Token)
    BY <1>6, EmptySeq DEF ShellStarts
  <2> QED
    BY <1>1, <2>1, <2>2 DEF DeviceType
<1> QED
  BY <1>2, <1>3, <1>4, <1>5, <1>6

\* A command is over, and with it the operation or a part of it.
CommandEnds ==
  /\ work' \in WorkType /\ work'.then = IF work.stage = "probe" THEN "end" ELSE work.then
  /\ work'.todo = IF work.stage = "probe" THEN <<<<"QUIT">>>> ELSE work.todo
  /\ work.stage = "probe" => work'.at = "write" /\ work'.stage = "probe" /\ result' = result
  /\ work.stage = "rm" => work'.at = "over" /\ work'.stage = "rm" /\ result' = result
  /\ work.stage = "pm" => work'.at = "shell start" /\ work'.stage = "rm" /\ result' \in {"done", "failed"}
  /\ work.stage \in {"exec", "reverse"} => work'.at = "over" /\ work'.stage = work.stage /\ result' \in {"done", "failed"}
  /\ UNCHANGED <<op, source, local, sync, shell, adb, device>>

\* A command that ends its operation is a command that is over.
LEMMA CommandOver ==
  ASSUME Typed, Placed, NEW r \in {"done", "failed"}, Over(r), work.stage \in {"pm", "exec", "reverse"},
         UNCHANGED <<op, source, local, sync, shell, adb, device>>
  PROVE  CommandEnds /\ result' = r
<1>1. /\ work.stage = "pm" => op = "install"
      /\ work.stage \in {"exec", "reverse"} => op # "install"
  BY DEF Placed, Stages, Pushing
<1> QED
  BY <1>1, OverDoes DEF CommandEnds

\* A probe or the removal of the package tells nothing.
LEMMA NotEnded ==
  ASSUME Typed, Placed, work.stage \in {"probe", "rm"},
         \/ work.stage = "probe" /\ work' = Quit
         \/ work.stage = "rm" /\ work' = [work EXCEPT !.at = "over"],
         UNCHANGED <<op, source, local, result, sync, shell, adb, device>>
  PROVE  CommandEnds
<1>1. work \in WorkType
  BY WorkTyped
<1>2. CASE work.stage = "probe"
  <2>1. work' = Quit
    BY <1>2
  <2> QED
    BY <1>2, <2>1, QuitDoes DEF CommandEnds
<1>3. CASE work.stage = "rm"
  BY <1>1, <1>3 DEF CommandEnds, WorkType
<1> QED
  BY <1>2, <1>3

\* A command that returns: its exit code is the one it printed.
LEMMA ShellReturnsDoes ==
  ASSUME Typed, Placed, ShellReturns
  PROVE  /\ Ended /\ CommandEnds
         /\ exit' = IF work.stage \in {"exec", "pm"} THEN CodeIn(shell.buffer) ELSE exit
         /\ work.stage = "pm" /\ result' = "done" => Installs(shell.buffer)
<1> DEFINE text == shell.buffer
<1>1. /\ work \in WorkType /\ Ended /\ work.stage # "none"
      /\ exit' = IF work.stage \in {"exec", "pm"} THEN CodeIn(text) ELSE exit
      /\ UNCHANGED <<op, source, local, sync, shell, adb, device>>
      /\ Returns(text)
  BY WorkTyped DEF ShellReturns, Returns, Ended, Placed, AtShell
<1>2. CASE work.stage = "probe"
  <2>1. work' = Quit /\ UNCHANGED result
    BY <1>1, <1>2 DEF Returns
  <2> QED
    BY <1>1, <1>2, <2>1, NotEnded
<1>3. CASE work.stage = "rm"
  <2>1. work' = [work EXCEPT !.at = "over"] /\ UNCHANGED result
    BY <1>1, <1>3 DEF Returns
  <2> QED
    BY <1>1, <1>3, <2>1, NotEnded
<1>4. CASE work.stage = "exec"
  <2>1. Over("done")
    BY <1>1, <1>4 DEF Returns
  <2> QED
    BY <1>1, <1>4, <2>1, CommandOver
<1>5. CASE work.stage = "reverse"
  <2>1. \E r \in {"done", "failed"} : Over(r)
    BY <1>1, <1>5 DEF Returns
  <2> QED
    BY <1>1, <1>5, <2>1, CommandOver
<1>6. CASE work.stage = "pm"
  <2>1. \E r \in {"done", "failed"} : Over(r) /\ (r = "done" => Installs(text))
    BY <1>1, <1>6 DEF Returns
  <2>2. PICK r \in {"done", "failed"} : Over(r) /\ (r = "done" => Installs(text))
    BY <2>1
  <2> QED
    BY <1>1, <1>6, <2>2, CommandOver
<1> QED
  BY <1>1, <1>2, <1>3, <1>4, <1>5, <1>6 DEF WorkType

\* A command that fails has no exit code.
LEMMA ShellThrowsDoes ==
  ASSUME Typed, Placed, ShellThrows
  PROVE  /\ Broken /\ CommandEnds /\ exit' = exit
         /\ work.stage = "pm" => result' = "failed"
<1>1. /\ work \in WorkType /\ Broken /\ work.stage # "none" /\ exit' = exit
      /\ UNCHANGED <<op, source, local, sync, shell, adb, device>>
      /\ Fails
  BY WorkTyped DEF ShellThrows, Fails, Broken, Ended, Placed, AtShell
<1>2. CASE work.stage = "probe"
  <2>1. work' = Quit /\ UNCHANGED result
    BY <1>1, <1>2 DEF Fails
  <2> QED
    BY <1>1, <1>2, <2>1, NotEnded
<1>3. CASE work.stage = "rm"
  <2>1. work' = [work EXCEPT !.at = "over"] /\ UNCHANGED result
    BY <1>1, <1>3 DEF Fails
  <2> QED
    BY <1>1, <1>3, <2>1, NotEnded
<1>4. CASE work.stage \in {"exec", "reverse", "pm"}
  <2>1. Over("failed")
    BY <1>1, <1>4 DEF Fails
  <2> QED
    BY <1>1, <1>4, <2>1, CommandOver
<1> QED
  BY <1>1, <1>2, <1>3, <1>4 DEF WorkType

\* The connection closes both streams.
LEMMA CloseStreamsDoes ==
  ASSUME Typed, CloseStreams
  PROVE  /\ adb = "closing" /\ adb' = "closed"
         /\ sync' \in StreamType /\ sync'.open = sync.open /\ sync'.closed = TRUE /\ sync'.canWrite = sync.canWrite
         /\ sync'.wire = sync.wire /\ sync'.buffer = sync.buffer
         /\ shell' \in StreamType /\ shell'.open = shell.open /\ shell'.closed = TRUE /\ shell'.buffer = shell.buffer
         /\ UNCHANGED <<op, source, work, local, result, exit, device>>
<1>1. sync \in StreamType /\ shell \in StreamType
  BY Types
<1>2. sync' = [sync EXCEPT !.closed = TRUE] /\ shell' = [shell EXCEPT !.closed = TRUE]
  BY DEF CloseStreams
<1> QED
  BY <1>1, <1>2 DEF CloseStreams, StreamType

\* One of the streams is opened or closed by the device.
SyncSet(opened, ended) ==
  /\ sync' \in StreamType /\ sync'.open = opened /\ sync'.closed = ended /\ sync'.canWrite = sync.canWrite
  /\ sync'.wire = sync.wire /\ sync'.buffer = sync.buffer /\ UNCHANGED shell
ShellSet(opened, ended) ==
  /\ shell' \in StreamType /\ shell'.open = opened /\ shell'.closed = ended /\ shell'.buffer = shell.buffer
  /\ UNCHANGED sync

\* The device accepts or refuses the stream that is being opened.
LEMMA DeviceOpensDoes ==
  ASSUME Typed, DeviceOpens
  PROVE  /\ adb # "closed" /\ UNCHANGED <<op, source, work, local, result, exit, adb, device>>
         /\ \/ work.at = "open" /\ (SyncSet(TRUE, FALSE) \/ SyncSet(FALSE, TRUE))
            \/ work.at = "shell open" /\ (ShellSet(TRUE, FALSE) \/ ShellSet(FALSE, TRUE))
<1>1. sync \in StreamType /\ shell \in StreamType
  BY Types
<1>2. CASE work.at = "open" /\ ~sync.open /\ ~sync.closed /\ UNCHANGED shell
           /\ sync' \in {[sync EXCEPT !.open = TRUE], [sync EXCEPT !.closed = TRUE]}
  <2>1. CASE sync' = [sync EXCEPT !.open = TRUE]
    <3>1. SyncSet(TRUE, FALSE)
      BY <1>1, <1>2, <2>1 DEF SyncSet, StreamType
    <3> QED
      BY <1>2, <3>1 DEF DeviceOpens, Arrives
  <2>2. CASE sync' = [sync EXCEPT !.closed = TRUE]
    <3>1. SyncSet(FALSE, TRUE)
      BY <1>1, <1>2, <2>2 DEF SyncSet, StreamType
    <3> QED
      BY <1>2, <3>1 DEF DeviceOpens, Arrives
  <2> QED
    BY <1>2, <2>1, <2>2
<1>3. CASE work.at = "shell open" /\ ~shell.open /\ ~shell.closed /\ UNCHANGED sync
           /\ shell' \in {[shell EXCEPT !.open = TRUE], [shell EXCEPT !.closed = TRUE]}
  <2>1. CASE shell' = [shell EXCEPT !.open = TRUE]
    <3>1. ShellSet(TRUE, FALSE)
      BY <1>1, <1>3, <2>1 DEF ShellSet, StreamType
    <3> QED
      BY <1>3, <3>1 DEF DeviceOpens, Arrives
  <2>2. CASE shell' = [shell EXCEPT !.closed = TRUE]
    <3>1. ShellSet(FALSE, TRUE)
      BY <1>1, <1>3, <2>2 DEF ShellSet, StreamType
    <3> QED
      BY <1>3, <3>1 DEF DeviceOpens, Arrives
  <2> QED
    BY <1>3, <2>1, <2>2
<1> QED
  BY <1>2, <1>3 DEF DeviceOpens

\* The device closes one stream.
LEMMA DeviceClosesDoes ==
  ASSUME Typed, DeviceCloses
  PROVE  /\ UNCHANGED <<op, source, work, local, result, exit, adb, device>>
         /\ SyncSet(sync.open, TRUE) \/ ShellSet(shell.open, TRUE)
<1>1. sync \in StreamType /\ shell \in StreamType
  BY Types
<1>2. CASE sync' = [sync EXCEPT !.closed = TRUE] /\ UNCHANGED shell
  <2>1. SyncSet(sync.open, TRUE)
    BY <1>1, <1>2 DEF SyncSet, StreamType
  <2> QED
    BY <2>1 DEF DeviceCloses
<1>3. CASE shell' = [shell EXCEPT !.closed = TRUE] /\ UNCHANGED sync
  <2>1. ShellSet(shell.open, TRUE)
    BY <1>1, <1>3 DEF ShellSet, StreamType
  <2> QED
    BY <2>1 DEF DeviceCloses
<1> QED
  BY <1>2, <1>3 DEF DeviceCloses

\* Of the device only what it has received and has to say changes.
DeviceSays(got, out, failed) ==
  /\ device' \in DeviceType /\ device'.got = got /\ device'.out = out /\ device'.failed = failed
  /\ device'.file = device.file /\ device'.stored = device.stored /\ device'.ran = device.ran
  /\ device'.text = device.text /\ device'.code = device.code /\ device'.installed = device.installed

\* The device receives what is on the wire, and the next write may go.
LEMMA DeviceTakesDoes ==
  ASSUME Typed, DeviceTakes
  PROVE  /\ sync' \in StreamType /\ sync'.open = sync.open /\ sync'.closed = sync.closed /\ sync'.canWrite = TRUE
         /\ sync'.wire = <<>> /\ sync'.buffer = sync.buffer
         /\ DeviceSays(device.got \o sync.wire, device.out, device.failed)
         /\ UNCHANGED <<op, source, work, local, result, exit, shell, adb>>
<1>1. /\ sync \in StreamType /\ device \in DeviceType
      /\ device.got \o sync.wire \in Seq(Token) /\ <<>> \in Seq(Token)
  BY Types, EmptySeq, ConcatProperties DEF StreamType, DeviceType
<1>2. sync' = [sync EXCEPT !.canWrite = TRUE, !.wire = <<>>] /\ device' = [device EXCEPT !.got = device.got \o sync.wire]
  BY DEF DeviceTakes
<1>3. DeviceSays(device.got \o sync.wire, device.out, device.failed)
  BY <1>1, <1>2 DEF DeviceSays, DeviceType
<1>4. /\ sync' \in StreamType /\ sync'.open = sync.open /\ sync'.closed = sync.closed /\ sync'.canWrite = TRUE
      /\ sync'.wire = <<>> /\ sync'.buffer = sync.buffer
  BY <1>1, <1>2 DEF StreamType
<1> QED
  BY <1>3, <1>4 DEF DeviceTakes

\* The device sends one token, and a closed stream drops it.
LEMMA DeviceSendsDoes ==
  ASSUME Typed, DeviceSends
  PROVE  /\ sync.open = TRUE /\ device.out # <<>>
         /\ sync' \in StreamType /\ sync'.open = sync.open /\ sync'.closed = sync.closed
         /\ sync'.canWrite = sync.canWrite /\ sync'.wire = sync.wire
         /\ sync'.buffer = IF sync.closed THEN sync.buffer ELSE Append(sync.buffer, device.out[1])
         /\ DeviceSays(device.got, Tail(device.out), device.failed)
         /\ UNCHANGED <<op, source, work, local, result, exit, shell, adb>>
<1>1. /\ sync \in StreamType /\ device \in DeviceType /\ device.out \in Seq(Token) /\ device.out # <<>>
      /\ sync.buffer \in Seq(Token)
  BY Types DEF StreamType, DeviceType, DeviceSends
<1>2. /\ Head(device.out) = device.out[1] /\ device.out[1] \in Token /\ Tail(device.out) \in Seq(Token)
  BY <1>1, Tails
<1>3. device' = [device EXCEPT !.out = Tail(device.out)] /\ sync' = Store(sync, device.out[1])
  BY <1>2 DEF DeviceSends
<1>4. DeviceSays(device.got, Tail(device.out), device.failed)
  BY <1>1, <1>2, <1>3 DEF DeviceSays, DeviceType
<1>5. Append(sync.buffer, device.out[1]) \in Seq(Token)
  BY <1>1, <1>2, AppendProperties
<1>6. /\ sync' \in StreamType /\ sync'.open = sync.open /\ sync'.closed = sync.closed
      /\ sync'.canWrite = sync.canWrite /\ sync'.wire = sync.wire
      /\ sync'.buffer = IF sync.closed THEN sync.buffer ELSE Append(sync.buffer, device.out[1])
  <2>1. CASE sync.closed
    BY <1>1, <1>3, <2>1 DEF Store
  <2>2. CASE ~sync.closed
    <3>1. sync' = [sync EXCEPT !.buffer = Append(sync.buffer, device.out[1])]
      BY <1>3, <2>2 DEF Store
    <3> QED
      BY <1>1, <1>5, <2>2, <3>1 DEF StreamType
  <2> QED
    BY <2>1, <2>2
<1> QED
  BY <1>1, <1>4, <1>6 DEF DeviceSends, StreamType

\* The device gives up in the middle of a file.
LEMMA DeviceStopsDoes ==
  ASSUME Typed, DeviceStops
  PROVE  /\ work.then \in {"data", "block"} /\ device.out # <<>> /\ device.out[1] = "DATA"
         /\ DeviceSays(device.got, <<"FAIL">>, TRUE)
         /\ UNCHANGED <<op, source, work, local, result, exit, sync, shell, adb>>
<1>1. /\ device \in DeviceType /\ device.out \in Seq(Token) /\ device.out # <<>> /\ <<"FAIL">> \in Seq(Token)
  <2>1. device \in DeviceType /\ device.out \in Seq(Token) /\ device.out # <<>>
    BY Types DEF DeviceType, DeviceStops
  <2>2. "FAIL" \in Words
    BY DEF Words
  <2> QED
    BY <2>1, <2>2, SingleTokens
<1>2. Head(device.out) = device.out[1]
  BY <1>1, Tails
<1>3. device' = [device EXCEPT !.out = <<"FAIL">>, !.failed = TRUE]
  BY DEF DeviceStops
<1>4. DeviceSays(device.got, <<"FAIL">>, TRUE)
  BY <1>1, <1>3 DEF DeviceSays, DeviceType
<1> QED
  BY <1>1, <1>2, <1>4 DEF DeviceStops

\* What a command prints says what it did and with which code.
LEMMA OutputIs ==
  ASSUME Typed, NEW t \in {"Success", "Failure"}, NEW c \in {"0", "1"}
  PROVE  /\ Output(t, c) \in Seq(Token)
         /\ \A i \in 1..Len(Output(t, c)) : Output(t, c)[i] \in {t, c, "end"}
<1>1. t \in Words /\ c \in Words /\ "end" \in Words
  BY DEF Words
<1>2. CASE work.mode = "v2"
  BY <1>1, <1>2, SingleTokens DEF Output
<1>3. CASE work.mode # "v2"
  BY <1>1, <1>3, SingleTokens DEF Output
<1> QED
  BY <1>2, <1>3

\* The device runs the command: what it prints says what it did.
RunsWith(ok) ==
  /\ device' \in DeviceType /\ device'.ran = TRUE
  /\ device'.got = device.got /\ device'.out = device.out /\ device'.failed = device.failed
  /\ device'.stored = device.stored
  /\ device'.code = IF work.stage \in {"exec", "pm"} THEN (IF ok THEN "0" ELSE "1") ELSE device.code
  /\ device'.installed <=> device.installed \/ (ok /\ work.stage = "pm")
  /\ device'.file = IF ok /\ work.stage = "rm" THEN <<>> ELSE device.file
  /\ work.stage # "reverse" => \A i \in 1..Len(device'.text) :
       device'.text[i] \in {IF ok THEN "Success" ELSE "Failure", IF ok THEN "0" ELSE "1", "end"}

\* A command is run once.
LEMMA DeviceRunsDoes ==
  ASSUME Typed, DeviceRuns
  PROVE  /\ shell.open = TRUE /\ shell.closed = FALSE /\ device.ran = FALSE
         /\ \E ok \in BOOLEAN : RunsWith(ok)
         /\ UNCHANGED <<op, source, work, local, result, exit, sync, shell, adb>>
<1>1. device \in DeviceType /\ shell \in StreamType /\ <<>> \in Seq(Token)
  BY Types, EmptySeq
<1>2. PICK ok \in BOOLEAN :
        device' = [device EXCEPT !.ran = TRUE,
            !.text = IF work.stage = "reverse" THEN <<IF ok THEN "OKAY" ELSE "FAIL">>
                     ELSE Output(IF ok THEN "Success" ELSE "Failure", IF ok THEN "0" ELSE "1"),
            !.code = IF work.stage \in {"exec", "pm"} THEN (IF ok THEN "0" ELSE "1") ELSE @,
            !.installed = @ \/ (ok /\ work.stage = "pm"),
            !.file = IF ok /\ work.stage = "rm" THEN <<>> ELSE @]
  BY DEF DeviceRuns
<1> DEFINE word == IF ok THEN "Success" ELSE "Failure"
           code == IF ok THEN "0" ELSE "1"
           text == IF work.stage = "reverse" THEN <<IF ok THEN "OKAY" ELSE "FAIL">> ELSE Output(word, code)
<1>3. /\ text \in Seq(Token)
      /\ work.stage # "reverse" => \A i \in 1..Len(text) : text[i] \in {word, code, "end"}
  <2>1. <<IF ok THEN "OKAY" ELSE "FAIL">> \in Seq(Token)
    BY SingleTokens DEF Words
  <2>2. word \in {"Success", "Failure"} /\ code \in {"0", "1"}
    OBVIOUS
  <2> HIDE DEF word, code
  <2> QED
    BY <2>1, <2>2, OutputIs
<1> DEFINE installed == device.installed \/ (ok /\ work.stage = "pm")
           newCode == IF work.stage \in {"exec", "pm"} THEN code ELSE device.code
           file == IF ok /\ work.stage = "rm" THEN <<>> ELSE device.file
<1>4. device' = [device EXCEPT !.ran = TRUE, !.text = text, !.code = newCode, !.installed = installed, !.file = file]
  BY <1>2
<1>5. newCode \in {"none", "0", "1"} /\ installed \in BOOLEAN /\ file \in Seq(Token)
  BY <1>1 DEF DeviceType
<1> HIDE DEF text, newCode, installed, file
<1>6. /\ device' \in DeviceType /\ device'.ran = TRUE /\ device'.text = text
      /\ device'.got = device.got /\ device'.out = device.out /\ device'.failed = device.failed
      /\ device'.stored = device.stored
      /\ device'.code = newCode /\ device'.file = file /\ device'.installed = installed
  BY <1>1, <1>3, <1>4, <1>5 DEF DeviceType
<1>7. RunsWith(ok)
  BY <1>3, <1>6 DEF RunsWith, newCode, installed, file
<1> QED
  BY <1>1, <1>7 DEF DeviceRuns, DeviceType, StreamType

\* A token printed arrives whole or torn.
LEMMA DevicePrintsDoes ==
  ASSUME Typed, DevicePrints
  PROVE  /\ shell.open = TRUE /\ shell.closed = FALSE /\ device.text # <<>>
         /\ shell' \in StreamType /\ shell'.open = shell.open
         /\ shell'.buffer \in {Append(shell.buffer, device.text[1]), Append(shell.buffer, "half")}
         /\ device' \in DeviceType /\ device'.text = Tail(device.text)
         /\ device'.got = device.got /\ device'.out = device.out /\ device'.failed = device.failed
         /\ device'.file = device.file /\ device'.stored = device.stored /\ device'.ran = device.ran
         /\ device'.code = device.code /\ device'.installed = device.installed
         /\ UNCHANGED <<op, source, work, local, result, exit, sync, adb>>
<1>1. /\ shell \in StreamType /\ device \in DeviceType /\ device.text \in Seq(Token) /\ device.text # <<>>
      /\ shell.buffer \in Seq(Token) /\ shell.open = TRUE /\ shell.closed = FALSE
  BY Types DEF StreamType, DeviceType, DevicePrints
<1>2. /\ Head(device.text) = device.text[1] /\ device.text[1] \in Token /\ Tail(device.text) \in Seq(Token)
      /\ "half" \in Token
  <2>1. "half" \in Words
    BY DEF Words
  <2> QED
    BY <1>1, <2>1, Tails, SingleTokens
<1>3. device' = [device EXCEPT !.text = Tail(device.text)]
  BY DEF DevicePrints
<1>4. /\ device' \in DeviceType /\ device'.text = Tail(device.text)
      /\ device'.got = device.got /\ device'.out = device.out /\ device'.failed = device.failed
      /\ device'.file = device.file /\ device'.stored = device.stored /\ device'.ran = device.ran
      /\ device'.code = device.code /\ device'.installed = device.installed
  BY <1>1, <1>2, <1>3 DEF DeviceType
<1>5. \A t \in Token : Store(shell, t) = [shell EXCEPT !.buffer = Append(shell.buffer, t)]
                       /\ Append(shell.buffer, t) \in Seq(Token)
  BY <1>1, AppendProperties DEF Store
<1>6. \/ shell' = [shell EXCEPT !.buffer = Append(shell.buffer, device.text[1])]
      \/ shell' = [[shell EXCEPT !.buffer = Append(shell.buffer, "half")] EXCEPT !.closed = TRUE]
  BY <1>2, <1>5 DEF DevicePrints
<1>7. /\ shell' \in StreamType /\ shell'.open = shell.open
      /\ shell'.buffer \in {Append(shell.buffer, device.text[1]), Append(shell.buffer, "half")}
  <2>1. CASE shell' = [shell EXCEPT !.buffer = Append(shell.buffer, device.text[1])]
    BY <1>1, <1>2, <1>5, <2>1 DEF StreamType
  <2>2. CASE shell' = [[shell EXCEPT !.buffer = Append(shell.buffer, "half")] EXCEPT !.closed = TRUE]
    BY <1>1, <1>2, <1>5, <2>2 DEF StreamType
  <2> QED
    BY <1>6, <2>1, <2>2
<1> QED
  BY <1>1, <1>4, <1>7 DEF DevicePrints

\* Every failure on the stream of "sync:" is this one.
Fail ==
  /\ work.at \in OnSync
  /\ \E uncaught \in BOOLEAN : ThrowsWith(uncaught) /\ (uncaught => sync.closed \/ adb # "open")

\* Each way in which an operation fails is a Fail.
LEMMA FailDoes ==
  ASSUME Typed, Placed,
         OpenFails \/ WriteThrows \/ ReadRefused \/ ReadThrows \/ LocalReadFails \/ LocalWriteFails
         \/ (Read /\ ThrowsWith(Uncaught))
  PROVE  Fail
<1>1. Uncaught \in BOOLEAN /\ sync \in StreamType
  BY Types DEF Uncaught, Contains
<1>2. Uncaught => work.todo # <<>> /\ work.at \notin {"open", "read", "wait"} /\ source = "memory"
  BY UncaughtWhere
<1>3. CASE OpenFails
  <2>1. /\ work.at = "open" /\ (sync.closed \/ adb # "open") /\ Over("failed")
        /\ UNCHANGED <<op, source, local, exit, sync, shell, adb, device>>
    BY <1>3 DEF OpenFails
  <2>2. local' = IF op = "pull" THEN <<>> ELSE local
    BY <2>1 DEF Placed, Asking
  <2>3. ThrowsWith(TRUE)
    BY <2>1, <2>2, OverDoes DEF ThrowsWith
  <2> QED
    BY <2>1, <2>3 DEF Fail, OnSync
<1>4. CASE WriteThrows
  <2>1. ThrowsWith(Uncaught) /\ work.at = "write" /\ (sync.closed \/ adb # "open")
    BY <1>4, ThrowsDoes DEF WriteThrows
  <2> QED
    BY <1>1, <2>1 DEF Fail, OnSync
<1>5. CASE ReadRefused \/ ReadThrows \/ LocalWriteFails \/ LocalReadFails \/ (Read /\ ThrowsWith(Uncaught))
  <2>1. ThrowsWith(Uncaught)
    <3>1. CASE ReadRefused
      BY <3>1, ThrowsDoes DEF ReadRefused
    <3>2. CASE ReadThrows
      BY <3>2, ThrowsDoes DEF ReadThrows
    <3>3. CASE LocalWriteFails
      BY <3>3, ThrowsDoes DEF LocalWriteFails
    <3>4. CASE LocalReadFails
      BY <3>4, ThrowsDoes DEF LocalReadFails
    <3> QED
      BY <1>5, <3>1, <3>2, <3>3, <3>4
  <2>2. /\ work.at \in OnSync
        /\ work.at \in {"open", "read", "wait"} \/ source \in {"packet", "chunks"}
    BY <1>5 DEF ReadRefused, ReadThrows, LocalWriteFails, LocalReadFails, Read, OnSync
  <2>3. ~Uncaught
    BY <1>2, <2>2
  <2> QED
    BY <1>1, <2>1, <2>2, <2>3 DEF Fail
<1> QED
  BY <1>3, <1>4, <1>5

-----------------------------------------------------------------------------
(* Types are kept.                                                         *)

\* A text has an exit code or none.
LEMMA CodeType == ASSUME NEW text PROVE CodeIn(text) \in {"none", "0", "1"}
  BY DEF CodeIn


\* Every step of the service, as the lemmas above describe it.
LEMMA Steps ==
  ASSUME Typed, Placed, [ServiceNext]_serviceVars
  PROVE  \/ Start \/ Opened \/ Write \/ Written
         \/ ReadBegins \/ Probe \/ ShellOpened \/ FallsBack \/ ShellStarts
         \/ (\E id \in Token : Takes(id)) \/ Fail \/ ShellReturns \/ ShellThrows \/ CloseBegins \/ CloseStreams
         \/ DeviceOpens \/ DeviceCloses \/ DeviceTakes \/ DeviceServes \/ DeviceSends \/ DeviceStops
         \/ DeviceRuns \/ DevicePrints \/ Idle
<1>1. CASE Read
  <2>1. CASE ThrowsWith(Uncaught)
    BY <1>1, <2>1, FailDoes
  <2> QED
    BY <1>1, <2>1, ReadDoes
<1>2. CASE OpenFails \/ WriteThrows \/ ReadRefused \/ ReadThrows \/ LocalReadFails \/ LocalWriteFails
  BY <1>2, FailDoes
<1>7. CASE WriteDozes \/ WriteSleeps
  BY <1>7 DEF WriteDozes, WriteSleeps, Idle, request, outcome
<1>3. CASE Transfer
  BY <1>1, <1>2, <1>3, <1>7 DEF Transfer
<1>4. CASE Command
  BY <1>4 DEF Command
<1>5. CASE Device
  BY <1>5 DEF Device
<1>6. CASE UNCHANGED serviceVars
  BY <1>6 DEF Idle, serviceVars
<1> QED
  BY <1>2, <1>3, <1>4, <1>5, <1>6 DEF ServiceNext, Done

\* While an answer is read, what is read next is what comes next in it, or a failure where an id is due.
LEMMA Fitting ==
  ASSUME Typed, Placed, Requested, Answered, NEW id \in Token, Takes(id), Asking,
         work.then \in {"data", "block", "entry", "name", "rest"}
  PROVE  /\ Served >= Asked /\ Receiving /\ Fits(id, Position + 1)
<1>1. /\ work.at = "wait" /\ sync.buffer # <<>> /\ id = sync.buffer[1]
  BY DEF Takes
<1>2. work.at \in OnSync /\ work.then # "end"
  BY <1>1 DEF OnSync
<1>3. IF Served < Asked THEN Waiting ELSE Receiving
  BY <1>2 DEF Answered
<1>4. ~Waiting
  BY <1>1 DEF Waiting
<1>5. Receiving
  BY <1>3, <1>4
<1>6. sync.buffer \in Seq(Token)
  BY Types DEF StreamType
<1>7. 1 \in 1..Len(sync.buffer)
  BY <1>1, <1>6, EmptySeq
<1>8. Fits(id, Position + 1)
  BY <1>1, <1>5, <1>7 DEF Receiving
<1>9. Served \in Nat /\ Asked \in Nat
  BY DEF Requested, Asked
<1> QED
  BY <1>3, <1>4, <1>5, <1>8, <1>9

\* On an odd position of an answer stands an id, its end, or a failure.
LEMMA FitsOdd ==
  ASSUME Asking, NEW k \in Nat, NEW id, Fits(id, 2 * k + 1)
  PROVE  \/ id = "FAIL"
         \/ k < Len(Content) /\ id = (IF op = "pull" THEN "DATA" ELSE "DENT")
         \/ k = Len(Content) /\ id = "DONE"
<1> DEFINE i == 2 * k + 1
           n == Len(Content)
<1>1. i \in Nat /\ i % 2 = 1 /\ n \in Nat /\ (i <= 2 * n <=> k < n) /\ (i = 2 * n + 1 <=> k = n)
      /\ i # 2 * n + 2
  BY ContentBlocks, SMT
<1>2. i <= AnswerSize /\ (id = Answer(i) \/ id = "FAIL")
  BY DEF Fits
<1>3. AnswerSize \in {2 * n + 1, 2 * n + 2}
  BY DEF AnswerSize
<1> HIDE DEF i, n
<1>4. CASE k < n
  <2>1. Answer(i) = IF op = "pull" THEN "DATA" ELSE "DENT"
    BY <1>1, <1>4 DEF Answer, n
  <2> QED
    BY <1>2, <1>4, <2>1 DEF n
<1>5. CASE k = n
  <2>1. Answer(i) = "DONE"
    BY <1>1, <1>5 DEF Answer, n
  <2> QED
    BY <1>2, <1>5, <2>1 DEF n
<1> QED
  BY <1>1, <1>2, <1>3, <1>4, <1>5

\* On an even position of an answer stands a block of the file.
LEMMA FitsEven ==
  ASSUME Asking, NEW k \in Nat, k < Len(Content), NEW id, Fits(id, 2 * k + 2)
  PROVE  id = Content[k + 1]
<1> DEFINE i == 2 * k + 2
           n == Len(Content)
<1>1. i \in Nat /\ i % 2 = 0 /\ i \div 2 = k + 1 /\ n \in Nat /\ i <= 2 * n /\ i # 2 * n + 1 /\ i # 2 * n + 2
  BY ContentBlocks, SMT
<1>2. id = Answer(i) \/ i % 2 = 1
  BY DEF Fits
<1> HIDE DEF i
<1>3. Answer(i) = Content[i \div 2]
  BY <1>1 DEF Answer
<1> QED
  BY <1>1, <1>2, <1>3

\* A block that is taken is the next of the file.
LEMMA BlockTaken ==
  ASSUME Typed, Placed, Requested, Answered, NEW id \in Token, Takes(id), work.then \in {"block", "name"}
  PROVE  Len(local) \in Nat /\ Len(local) < Len(Content) /\ id = Content[Len(local) + 1] /\ id \in ToSet(Content)
<1>1. Asking
  BY DEF Placed, Thens, Pushing, Asking
<1>2. Receiving /\ Fits(id, Position + 1)
  BY <1>1, Fitting
<1>3. Len(local) \in Nat
  BY Types, LenProperties
<1>4. Len(local) < Len(Content)
  BY <1>2 DEF Receiving
<1>5. Position + 1 = 2 * Len(local) + 2
  BY <1>3 DEF Position
<1>6. id = Content[Len(local) + 1]
  BY <1>1, <1>2, <1>3, <1>4, <1>5, FitsEven
<1> QED
  BY <1>3, <1>4, <1>6, ContentBlocks

\* The types are kept: no token of the protocol ever stands for a block of the file.
LEMMA TypedStep ==
  ASSUME Typed, Placed, Told, Requested, Answered, [ServiceNext]_serviceVars
  PROVE  Typed'
<1> DEFINE L == Seq(ToSet(Content) \union {"old"})
<1>0. /\ op \in {"none", "push", "pull", "list", "exec", "install", "reverse"}
      /\ source \in {"none", "memory", "packet", "chunks"}
      /\ work \in WorkType /\ local \in L /\ <<>> \in L
      /\ result \in {"none", "done", "failed"} /\ exit \in {"none", "0", "1"}
      /\ sync \in StreamType /\ shell \in StreamType
      /\ adb \in {"open", "closing", "closed"}
      /\ (work.at = "over" => result # "none")
      /\ device \in DeviceType
  BY Types, EmptySeq
<1> HIDE DEF L
<1> USE <1>0
<1> SUFFICES
      /\ op' \in {"none", "push", "pull", "list", "exec", "install", "reverse"}
      /\ source' \in {"none", "memory", "packet", "chunks"}
      /\ work' \in WorkType /\ local' \in L
      /\ result' \in {"none", "done", "failed"} /\ exit' \in {"none", "0", "1"}
      /\ sync' \in StreamType /\ shell' \in StreamType
      /\ adb' \in {"open", "closing", "closed"}
      /\ (work'.at = "over" => result' # "none")
      /\ device' \in DeviceType
  BY DEF Typed, WorkType, L
<1>1. CASE Start
  BY <1>1, StartDoes DEF BeginsWith
<1>2. CASE Opened
  BY <1>2, OpenedDoes
<1>3. CASE Write
  BY <1>3, WriteDoes
<1>4. CASE Written
  <2>1. Closed(sync) \in StreamType
    BY ClosedIs
  <2> QED
    BY <1>4, <2>1, WrittenDoes
<1>5. CASE ReadBegins \/ Probe \/ ShellOpened \/ FallsBack
  BY <1>5, MovesDo DEF MovesTo
<1>6. CASE ShellStarts
  BY <1>6, MovesDo, NoStreamType DEF MovesTo
<1>7. CASE \E id \in Token : Takes(id)
  <2>1. PICK id \in Token : Takes(id)
    BY <1>7
  <2>2. work' \in WorkType /\ work'.at # "over"
    BY <2>1, AfterDoes DEF Takes
  <2>3. local' \in L
    <3>1. CASE work.then \in {"block", "name"}
      <4>1. id \in ToSet(Content)
        BY <2>1, <3>1, BlockTaken
      <4>2. Append(local, id) \in L
        BY <4>1, AppendProperties DEF L
      <4> QED
        BY <2>1, <3>1, <4>2 DEF Takes
    <3> QED
      BY <2>1, <3>1 DEF Takes
  <2> QED
    BY <2>1, <2>2, <2>3 DEF Takes
<1>8. CASE Fail
  <2>1. Closed(sync) \in StreamType
    BY ClosedIs
  <2> QED
    BY <1>8, <2>1 DEF Fail, ThrowsWith
<1>9. CASE ShellReturns \/ ShellThrows
  <2>1. CommandEnds /\ (exit' = exit \/ \E text \in {shell.buffer} : exit' = CodeIn(text)) /\ (Ended \/ Broken)
    BY <1>9, ShellReturnsDoes, ShellThrowsDoes
  <2>2. work.stage \in {"pm", "rm", "probe", "exec", "reverse"}
    BY <2>1 DEF Ended, Broken, Placed, AtShell, WorkType
  <2>3. exit' \in {"none", "0", "1"}
    BY <2>1, CodeType
  <2>4. work'.at = "over" => result' # "none"
    BY <2>1, <2>2 DEF CommandEnds, Told
  <2> QED
    BY <2>1, <2>2, <2>3, <2>4 DEF CommandEnds
<1>10. CASE CloseBegins
  BY <1>10 DEF CloseBegins
<1>11. CASE CloseStreams
  BY <1>11, CloseStreamsDoes
<1>12. CASE DeviceOpens
  BY <1>12, DeviceOpensDoes DEF SyncSet, ShellSet
<1>13. CASE DeviceCloses
  BY <1>13, DeviceClosesDoes DEF SyncSet, ShellSet
<1>14. CASE DeviceTakes
  BY <1>14, DeviceTakesDoes DEF DeviceSays
<1>15. CASE DeviceServes
  BY <1>15, DeviceServesDoes DEF ServesWith
<1>16. CASE DeviceSends
  BY <1>16, DeviceSendsDoes DEF DeviceSays
<1>17. CASE DeviceStops
  BY <1>17, DeviceStopsDoes DEF DeviceSays
<1>18. CASE DeviceRuns
  BY <1>18, DeviceRunsDoes DEF RunsWith
<1>19. CASE DevicePrints
  BY <1>19, DevicePrintsDoes
<1>20. CASE Idle
  BY <1>20 DEF Idle
<1> QED
  BY Steps, <1>1, <1>2, <1>3, <1>4, <1>5, <1>6, <1>7, <1>8, <1>9, <1>10, <1>11, <1>12, <1>13, <1>14, <1>15, <1>16,
     <1>17, <1>18, <1>19, <1>20

-----------------------------------------------------------------------------
(* Where the work is fits what it does.                                    *)

\* Before it starts, an operation is at its place.
LEMMA PlacedInit == ServiceInit => Placed
  BY DEF ServiceInit, Placed, Pushing, Asking, Thens, Stages, OnSync, AtShell

\* Asked once, an operation stays the same; its place, part and command may change.
LEMMA PlacedKept ==
  ASSUME Placed, UNCHANGED <<op, source>>, op # "none",
         work'.at # "idle",
         work'.then \in Thens, work'.stage \in Stages,
         work'.at \in OnSync => (Pushing \/ Asking) /\ (op = "install" => work'.stage = "none"),
         work'.at = "open" <=> (work'.at \in OnSync /\ work'.then = "nothing"),
         work'.at = "open" => work'.stage = "none" /\ (Asking => local' = <<>>),
         work'.then = "nothing" => work'.todo = <<>>,
         work'.at \in {"read", "wait"} => work'.then # "end" /\ work'.todo = <<>>,
         work'.at \in AtShell => work'.stage # "none",
         work'.at \in AtShell /\ work'.stage = "probe" => work'.then = "rest" /\ work'.todo = <<>>
  PROVE  Placed'
<1>1. Thens' = Thens /\ Stages' = Stages /\ (Pushing' <=> Pushing) /\ (Asking' <=> Asking)
  BY DEF Thens, Stages, Pushing, Asking
<1> HIDE DEF Thens, Stages, Pushing, Asking
<1> QED
  BY <1>1 DEF Placed, OnSync, AtShell

\* A work that stays as it is stays at its place.
LEMMA PlacedSame ==
  ASSUME Placed, UNCHANGED <<op, source, work>>, UNCHANGED local \/ work.at # "open"
  PROVE  Placed'
<1>1. Thens' = Thens /\ Stages' = Stages /\ (Pushing' <=> Pushing) /\ (Asking' <=> Asking)
  BY DEF Thens, Stages, Pushing, Asking
<1> HIDE DEF Thens, Stages, Pushing, Asking
<1> QED
  BY <1>1 DEF Placed, OnSync, AtShell

\* An operation starts at its place.
LEMMA PlacedStart ==
  ASSUME Typed, Placed, Start
  PROVE  Placed'
<1>1. /\ op = "none" /\ source = "none" /\ work.then = "nothing" /\ work.todo = <<>> /\ work.stage = "none"
      /\ work.at = "idle"
  BY StartDoes DEF Placed, BeginsWith, Thens, Stages, Pushing, Asking
<1>2. \/ /\ BeginsWith("open", "none") /\ op' \in {"push", "install"} /\ source' \in {"memory", "packet", "chunks"}
            /\ local' = local /\ result' = result
      \/ /\ BeginsWith("open", "none") /\ op' \in {"pull", "list"} /\ source' = source /\ local' = <<>> /\ result' = result
      \/ /\ BeginsWith("over", work.stage) /\ op' = "pull" /\ source' = source /\ local' = local /\ result' = "failed"
      \/ /\ BeginsWith("shell start", op') /\ op' \in {"exec", "reverse"} /\ source' = source
            /\ local' = local /\ result' = result
  BY StartDoes
<1>3. CASE BeginsWith("open", "none") /\ op' \in {"push", "install"} /\ source' \in {"memory", "packet", "chunks"}
  BY <1>1, <1>3 DEF BeginsWith, Placed, Pushing, Asking, Thens, Stages, OnSync, AtShell
<1>4. CASE BeginsWith("open", "none") /\ op' \in {"pull", "list"} /\ source' = source /\ local' = <<>>
  BY <1>1, <1>4 DEF BeginsWith, Placed, Pushing, Asking, Thens, Stages, OnSync, AtShell
<1>5. CASE BeginsWith("over", work.stage) /\ op' = "pull" /\ source' = source
  BY <1>1, <1>5 DEF BeginsWith, Placed, Pushing, Asking, Thens, Stages, OnSync, AtShell
<1>6. CASE BeginsWith("shell start", op') /\ op' \in {"exec", "reverse"} /\ source' = source
  BY <1>1, <1>6 DEF BeginsWith, Placed, Pushing, Asking, Thens, Stages, OnSync, AtShell
<1> QED
  BY <1>2, <1>3, <1>4, <1>5, <1>6

\* The place of the work is kept by every step.
LEMMA PlacedStep ==
  ASSUME Typed, Placed, Requested, [ServiceNext]_serviceVars
  PROVE  Placed'
<1>0. /\ op = "none" <=> work.at = "idle"
      /\ work.then \in Thens /\ work.stage \in Stages
      /\ work.at \in OnSync => Pushing \/ Asking
      /\ work.at \in OnSync /\ op = "install" => work.stage = "none"
      /\ work.at = "open" <=> (work.at \in OnSync /\ work.then = "nothing")
      /\ work.at = "open" => work.stage = "none" /\ (Asking => local = <<>>)
      /\ work.then = "nothing" => work.todo = <<>>
      /\ work.at \in {"read", "wait"} => work.then # "end" /\ work.todo = <<>>
      /\ work.at \in AtShell => work.stage # "none"
      /\ work.at \in AtShell /\ work.stage = "probe" => work.then = "rest" /\ work.todo = <<>>
      /\ work \in WorkType
  BY WorkTyped DEF Placed
<1>1. CASE Start
  BY <1>1, PlacedStart
<1>2. CASE Opened
  <2>1. /\ work.at = "open" /\ work'.at = "write" /\ work'.stage = "none" /\ UNCHANGED <<op, source>>
        /\ \/ op = "pull" /\ work'.then = "stat"
           \/ op = "list" /\ work'.then = "entry"
           \/ Pushing /\ work'.then = "answer"
    BY <1>0, <1>2, OpenedDoes
  <2>2. work'.then \in Thens /\ work'.then # "nothing" /\ work'.stage \in Stages /\ op # "none"
    BY <1>0, <2>1 DEF Thens, Pushing, OnSync, Asking
  <2> QED
    BY <1>0, <2>1, <2>2, PlacedKept DEF OnSync, AtShell
<1>3. CASE Write
  <2>1. /\ work.at = "write" /\ work'.at = "write" /\ work'.stage = work.stage /\ work'.then = work.then
        /\ UNCHANGED <<op, source>>
    BY <1>3, WriteDoes
  <2> QED
    BY <1>0, <2>1, PlacedKept DEF OnSync, AtShell
<1>4. CASE Written
  <2>1. /\ work.at = "write" /\ UNCHANGED <<op, source>> /\ work.todo = <<>>
        /\ work'.then = work.then /\ work'.todo = work.todo
        /\ \/ work.then # "end" /\ work'.at = "read" /\ work'.stage = work.stage
           \/ op # "install" /\ work'.at = "over" /\ work'.stage = work.stage
           \/ op = "install" /\ work'.at = "shell start" /\ work'.stage = "pm"
    BY <1>4, WrittenDoes
  <2>2. op = "install" => "pm" \in Stages
    BY DEF Stages
  <2> QED
    BY <1>0, <2>1, <2>2, PlacedKept DEF OnSync, AtShell
<1>5. CASE ReadBegins
  <2>1. work.at = "read" /\ MovesTo("wait", work.stage)
    BY <1>5, MovesDo
  <2> QED
    BY <1>0, <2>1, PlacedKept DEF OnSync, AtShell, MovesTo
<1>6. CASE Probe
  <2>1. work.at = "wait" /\ work.then = "rest" /\ MovesTo("shell start", "probe")
    BY <1>6, MovesDo
  <2>2. op = "list"
    BY <1>0, <2>1 DEF Thens
  <2>3. "probe" \in Stages
    BY <2>2 DEF Stages
  <2> QED
    BY <1>0, <2>1, <2>2, <2>3, PlacedKept DEF OnSync, AtShell, MovesTo
<1>7. CASE ShellOpened \/ FallsBack \/ ShellStarts
  <2>1. work.at \in AtShell /\ \E at \in AtShell : MovesTo(at, work.stage)
    BY <1>7, MovesDo DEF Broken, Ended, AtShell
  <2> QED
    BY <1>0, <2>1, PlacedKept DEF OnSync, AtShell, MovesTo
<1>8. CASE \E id \in Token : Takes(id)
  <2>1. PICK id \in Token : Takes(id)
    BY <1>8
  <2>2. work.at = "wait" /\ UNCHANGED <<op, source>> /\ work' = After(id) /\ After(id).then # "throw"
    BY <2>1 DEF Takes
  <2>3. /\ work'.stage = work.stage
        /\ \/ work'.at = "write" /\ work'.then = "end"
           \/ work'.at = "write" /\ work.then = "stat" /\ work'.then = "data"
           \/ work'.at = "read" /\ work'.todo = work.todo /\ work.then \in {"data", "block"}
              /\ work'.then \in {"data", "block"}
           \/ work'.at = "read" /\ work'.todo = work.todo /\ work.then \in {"entry", "name"}
              /\ work'.then \in {"entry", "name", "rest"}
    BY <2>2, AfterDoes
  <2>4. work'.then \in Thens /\ work'.then # "nothing"
    BY <1>0, <2>2, <2>3 DEF Thens, OnSync, Pushing, Asking
  <2> QED
    BY <1>0, <2>2, <2>3, <2>4, PlacedKept DEF OnSync, AtShell
<1>9. CASE Fail
  <2>1. /\ work.at \in OnSync /\ UNCHANGED <<op, source>> /\ work'.then = work.then /\ work'.todo = work.todo
        /\ \/ op # "install" /\ work'.at = "over" /\ work'.stage = work.stage
           \/ op = "install" /\ work'.at = "shell start" /\ work'.stage = "rm"
    BY <1>9 DEF Fail, ThrowsWith
  <2>2. op = "install" => "rm" \in Stages
    BY DEF Stages
  <2> QED
    BY <1>0, <2>1, <2>2, PlacedKept DEF OnSync, AtShell
<1>10. CASE ShellReturns \/ ShellThrows
  <2>1. CommandEnds /\ (Ended \/ Broken)
    BY <1>10, ShellReturnsDoes, ShellThrowsDoes
  <2>2. work.stage \in {"pm", "rm", "probe", "exec", "reverse"} /\ work.at \in AtShell
    BY <1>0, <2>1 DEF Ended, Broken, AtShell, WorkType
  <2>3. /\ work.stage = "probe" => op = "list" /\ "end" \in Thens
        /\ work.stage \in {"pm", "rm"} => op = "install" /\ "rm" \in Stages
    BY <1>0 DEF Stages, Thens, Pushing
  <2>4. UNCHANGED <<op, source>>
    BY <2>1 DEF CommandEnds
  <2>5. CASE work.stage = "probe"
    <3>1. work'.at = "write" /\ work'.stage = "probe" /\ work'.then = "end"
      BY <2>1, <2>5 DEF CommandEnds
    <3> QED
      BY <1>0, <2>2, <2>3, <2>4, <2>5, <3>1, PlacedKept DEF OnSync, AtShell, Asking
  <2>6. CASE work.stage # "probe"
    <3>1. /\ work'.then = work.then /\ work'.todo = work.todo
          /\ \/ work'.at = "over" /\ work'.stage = work.stage
             \/ work.stage = "pm" /\ work'.at = "shell start" /\ work'.stage = "rm"
      BY <2>1, <2>2, <2>6 DEF CommandEnds
    <3> QED
      BY <1>0, <2>2, <2>3, <2>4, <2>6, <3>1, PlacedKept DEF OnSync, AtShell
  <2> QED
    BY <2>5, <2>6
<1>11. CASE CloseBegins \/ CloseStreams \/ DeviceOpens \/ DeviceCloses \/ DeviceTakes \/ DeviceSends
            \/ DeviceStops \/ DeviceRuns \/ DevicePrints \/ DeviceServes \/ Idle
  <2>1. UNCHANGED <<op, source, work, local>>
    BY <1>11 DEF CloseBegins, CloseStreams, DeviceOpens, DeviceCloses, DeviceTakes, DeviceSends, DeviceStops,
                 DeviceRuns, DevicePrints, DeviceServes, Idle
  <2> QED
    BY <2>1, PlacedSame
<1> QED
  BY Steps, <1>1, <1>2, <1>3, <1>4, <1>5, <1>6, <1>7, <1>8, <1>9, <1>10, <1>11

-----------------------------------------------------------------------------
(* What is told, and what is left open.                                    *)

\* Before it starts, an operation has told nothing.
LEMMA ToldInit == ServiceInit => Told
  BY DEF ServiceInit, Told

\* The steps that leave the work as it is, and what it tells.
LEMMA Elsewhere ==
  ASSUME CloseBegins \/ CloseStreams \/ DeviceOpens \/ DeviceCloses \/ DeviceTakes \/ DeviceSends
         \/ DeviceStops \/ DeviceRuns \/ DevicePrints \/ DeviceServes \/ Idle
  PROVE  UNCHANGED <<op, source, work, local, result, exit>>
  BY DEF CloseBegins, CloseStreams, DeviceOpens, DeviceCloses, DeviceTakes, DeviceSends, DeviceStops,
         DeviceRuns, DevicePrints, DeviceServes, Idle

\* A result is told at the end and is not taken back.
LEMMA ToldStep ==
  ASSUME Typed, Placed, Told, [ServiceNext]_serviceVars
  PROVE  Told'
<1>0. /\ work \in WorkType /\ result \in {"none", "done", "failed"}
      /\ work.at = "over" \/ work.stage = "rm" <=> result # "none"
      /\ result = "done" /\ op \in {"push", "pull", "list"} => work.then = "end"
      /\ work.at \in OnSync /\ op = "install" => work.stage = "none"
      /\ work.stage = "rm" => op = "install"
      /\ work.stage = "probe" => op = "list"
      /\ work.stage = "exec" \/ work.stage = "reverse" => op \in {"exec", "reverse"}
      /\ work.stage = "pm" => op = "install"
      /\ work.at = "idle" <=> op = "none"
      /\ work.stage \in {"none", "pm", "rm", "probe", "exec", "reverse"}
  BY Types DEF Told, Placed, Stages, Pushing, WorkType
<1> SUFFICES /\ work'.at = "over" \/ work'.stage = "rm" <=> result' # "none"
             /\ result' = "done" /\ op' \in {"push", "pull", "list"} => work'.then = "end"
  BY DEF Told
<1>1. CASE Start
  <2>1. work.stage = "none" /\ result = "none"
    BY <1>0, <1>1, StartDoes DEF BeginsWith, Placed, Stages, Pushing
  <2> QED
    BY <1>0, <1>1, <2>1, StartDoes DEF BeginsWith
<1>2. CASE Opened
  BY <1>0, <1>2, OpenedDoes DEF OnSync
<1>3. CASE Write
  BY <1>0, <1>3, WriteDoes
<1>4. CASE Written
  <2>1. work.at = "write" /\ work.stage # "rm"
    BY <1>0, <1>4, WrittenDoes DEF OnSync
  <2> QED
    BY <1>0, <1>4, <2>1, WrittenDoes
<1>5. CASE ReadBegins
  BY <1>0, <1>5, MovesDo DEF MovesTo
<1>6. CASE Probe
  <2>1. work.at = "wait" /\ work.stage # "rm" /\ MovesTo("shell start", "probe")
    BY <1>0, <1>6, MovesDo DEF OnSync
  <2> QED
    BY <1>0, <2>1 DEF MovesTo
<1>7. CASE ShellOpened \/ FallsBack \/ ShellStarts
  <2>1. work.at # "over" /\ \E at \in AtShell : MovesTo(at, work.stage)
    BY <1>7, MovesDo DEF Broken, Ended, AtShell
  <2> QED
    BY <1>0, <2>1 DEF MovesTo, AtShell
<1>8. CASE \E id \in Token : Takes(id)
  <2>1. PICK id \in Token : Takes(id)
    BY <1>8
  <2>2. /\ work.at = "wait" /\ UNCHANGED <<op, result>>
        /\ work'.at \in {"write", "read"} /\ work'.stage = work.stage
    BY <2>1, AfterDoes DEF Takes
  <2> QED
    BY <1>0, <2>2
<1>9. CASE Fail
  BY <1>0, <1>9 DEF Fail, ThrowsWith, OnSync
<1>10. CASE ShellReturns \/ ShellThrows
  <2>1. CommandEnds /\ (Ended \/ Broken)
    BY <1>10, ShellReturnsDoes, ShellThrowsDoes
  <2>2. work.stage \in {"pm", "rm", "probe", "exec", "reverse"} /\ work.at \in AtShell
    BY <1>0, <2>1 DEF Ended, Broken, AtShell, Placed
  <2> QED
    BY <1>0, <2>1, <2>2 DEF CommandEnds, AtShell
<1>11. CASE CloseBegins \/ CloseStreams \/ DeviceOpens \/ DeviceCloses \/ DeviceTakes \/ DeviceSends
            \/ DeviceStops \/ DeviceRuns \/ DevicePrints \/ DeviceServes \/ Idle
  BY <1>0, <1>11, Elsewhere
<1> QED
  BY Steps, <1>1, <1>2, <1>3, <1>4, <1>5, <1>6, <1>7, <1>8, <1>9, <1>10, <1>11

\* Before anything starts, no stream is open.
LEMMA LeftInit == ServiceInit => Left
  BY DEF ServiceInit, Left, NoStream

\* Who leaves a stream closes it: a returning operation, an exception, the connection.
LEMMA LeftStep ==
  ASSUME Typed, Placed, Told, Left, [ServiceNext]_serviceVars
  PROVE  Left'
<1>0. /\ work \in WorkType /\ sync \in StreamType /\ shell \in StreamType /\ adb \in {"open", "closing", "closed"}
      /\ adb = "closed" => sync.closed /\ (shell.open => shell.closed)
      /\ work.at \notin InShell => (shell.open => shell.closed \/ adb # "open")
      /\ work.at = "over" \/ work.stage \in {"pm", "rm"} => (sync.open => sync.closed \/ adb # "open")
      /\ sync.open => Pushing \/ Asking
      /\ work.at = "open" => work.stage = "none" /\ (Pushing \/ Asking)
  BY Types DEF Left, Placed, OnSync
<1> SUFFICES
      /\ adb' = "closed" => sync'.closed /\ (shell'.open => shell'.closed)
      /\ work'.at \notin InShell => (shell'.open => shell'.closed \/ adb' # "open")
      /\ work'.at = "over" \/ work'.stage \in {"pm", "rm"} => (sync'.open => sync'.closed \/ adb' # "open")
      /\ sync'.open => (Pushing \/ Asking)'
  BY DEF Left
<1>op. UNCHANGED op => ((Pushing \/ Asking)' <=> Pushing \/ Asking)
  BY DEF Pushing, Asking
<1> HIDE DEF Pushing, Asking
<1>1. CASE Start
  <2>1. /\ op = "none" /\ UNCHANGED <<sync, shell, adb>> /\ work'.at \notin InShell
    BY <1>1, StartDoes DEF BeginsWith, InShell
  <2>2. ~sync.open /\ work.at = "idle"
    BY <1>0, <2>1 DEF Pushing, Asking, Placed
  <2> QED
    BY <1>0, <2>1, <2>2 DEF InShell
<1>2. CASE Opened
  <2>1. work.at = "open" /\ work'.at = "write" /\ work'.stage = work.stage /\ UNCHANGED <<op, sync, shell, adb>>
    BY <1>2, OpenedDoes
  <2> QED
    BY <1>0, <1>op, <2>1 DEF InShell
<1>3. CASE Write
  <2>1. /\ work.at = "write" /\ work'.at = "write" /\ work'.stage = work.stage /\ UNCHANGED <<op, shell, adb>>
        /\ sync'.open = sync.open /\ sync'.closed = sync.closed
    BY <1>3, WriteDoes
  <2> QED
    BY <1>0, <1>op, <2>1 DEF InShell
<1>4. CASE Written
  <2>1. /\ work.at = "write" /\ UNCHANGED <<op, shell, adb>> /\ work'.at \notin InShell
        /\ \/ UNCHANGED sync /\ work'.at = "read" /\ work'.stage = work.stage
           \/ sync' = Closed(sync)
    BY <1>4, WrittenDoes DEF InShell
  <2>2. Closed(sync).open = sync.open /\ Closed(sync).closed = TRUE
    BY <1>0, ClosedIs
  <2> QED
    BY <1>0, <1>op, <2>1, <2>2 DEF InShell
<1>5. CASE ReadBegins \/ Probe
  <2>1. /\ work.at \in {"read", "wait"} /\ UNCHANGED <<op, sync, shell, adb>>
        /\ work'.at \in {"wait", "shell start"} /\ (work'.stage = work.stage \/ work'.stage = "probe")
    BY <1>5, MovesDo DEF MovesTo
  <2> QED
    BY <1>0, <1>op, <2>1 DEF InShell
<1>6. CASE ShellOpened
  <2>1. work.at = "shell open" /\ MovesTo("shell wait", work.stage) /\ UNCHANGED shell
    BY <1>6, MovesDo
  <2> QED
    BY <1>0, <1>op, <2>1 DEF MovesTo, InShell
<1>7. CASE FallsBack
  <2>1. Broken /\ MovesTo("shell start", work.stage) /\ UNCHANGED shell
    BY <1>7, MovesDo
  <2>2. shell.closed \/ adb # "open"
    BY <2>1 DEF Broken, Ended
  <2> QED
    BY <1>0, <1>op, <2>1, <2>2 DEF MovesTo, InShell
<1>8. CASE ShellStarts
  <2>1. work.at = "shell start" /\ MovesTo("shell open", work.stage) /\ shell' = NoStream
    BY <1>8, MovesDo
  <2>2. shell'.open = FALSE
    BY <2>1 DEF NoStream
  <2> QED
    BY <1>0, <1>op, <2>1, <2>2 DEF MovesTo, InShell
<1>9. CASE \E id \in Token : Takes(id)
  <2>1. PICK id \in Token : Takes(id)
    BY <1>9
  <2>2. /\ work.at = "wait" /\ UNCHANGED <<op, shell, adb>> /\ sync'.open = sync.open /\ sync'.closed = sync.closed
        /\ work'.at \in {"write", "read"} /\ work'.stage = work.stage
    BY <2>1, AfterDoes DEF Takes
  <2> QED
    BY <1>0, <1>op, <2>2 DEF InShell
<1>10. CASE Fail
  <2>1. /\ work.at \in OnSync /\ UNCHANGED <<op, shell, adb>> /\ work'.at \notin InShell
        /\ sync' = Closed(sync) \/ (sync' = sync /\ (sync.closed \/ adb # "open"))
    BY <1>10 DEF Fail, ThrowsWith, InShell
  <2>2. Closed(sync).open = sync.open /\ Closed(sync).closed = TRUE
    BY <1>0, ClosedIs
  <2> QED
    BY <1>0, <1>op, <2>1, <2>2 DEF InShell, OnSync
<1>11. CASE ShellReturns \/ ShellThrows
  <2>1. CommandEnds /\ (Ended \/ Broken)
    BY <1>11, ShellReturnsDoes, ShellThrowsDoes
  <2>2. /\ work.stage \in {"pm", "rm", "probe", "exec", "reverse"}
        /\ work.stage \in {"exec", "reverse"} => op \in {"exec", "reverse"}
    BY <1>0, <2>1 DEF Ended, Broken, AtShell, Placed, Stages, WorkType, Pushing
  <2>3. shell.closed \/ adb # "open"
    BY <2>1 DEF Ended, Broken
  <2>4. work.stage \in {"exec", "reverse"} => ~sync.open
    BY <1>0, <2>2 DEF Pushing, Asking
  <2> QED
    BY <1>0, <1>op, <2>1, <2>2, <2>3, <2>4 DEF CommandEnds, InShell
<1>12. CASE CloseBegins
  BY <1>0, <1>op, <1>12 DEF CloseBegins
<1>13. CASE CloseStreams
  BY <1>0, <1>op, <1>13, CloseStreamsDoes
<1>14. CASE DeviceOpens
  <2>1. /\ adb # "closed" /\ UNCHANGED <<op, work, adb>>
        /\ \/ work.at = "open" /\ (SyncSet(TRUE, FALSE) \/ SyncSet(FALSE, TRUE))
           \/ work.at = "shell open" /\ (ShellSet(TRUE, FALSE) \/ ShellSet(FALSE, TRUE))
    BY <1>14, DeviceOpensDoes
  <2>2. CASE work.at = "open" /\ (SyncSet(TRUE, FALSE) \/ SyncSet(FALSE, TRUE))
    BY <1>0, <1>op, <2>1, <2>2 DEF SyncSet, InShell
  <2>3. CASE work.at = "shell open" /\ (ShellSet(TRUE, FALSE) \/ ShellSet(FALSE, TRUE))
    BY <1>0, <1>op, <2>1, <2>3 DEF ShellSet, InShell
  <2> QED
    BY <2>1, <2>2, <2>3
<1>15. CASE DeviceCloses
  BY <1>0, <1>op, <1>15, DeviceClosesDoes DEF SyncSet, ShellSet
<1>16. CASE DeviceTakes
  BY <1>0, <1>op, <1>16, DeviceTakesDoes
<1>17. CASE DeviceSends
  BY <1>0, <1>op, <1>17, DeviceSendsDoes
<1>18. CASE DevicePrints
  <2>1. shell'.open = shell.open /\ shell.closed = FALSE /\ shell.open /\ UNCHANGED <<op, work, sync, adb>>
    BY <1>18, DevicePrintsDoes
  <2>2. shell.open /\ ~shell.closed /\ adb # "closed"
    BY <1>18, <2>1 DEF DevicePrints, Arrives
  <2>3. work.at \notin InShell => adb # "open"
    BY <1>0, <2>2
  <2> QED
    BY <1>0, <1>op, <2>1, <2>2, <2>3
<1>19. CASE DeviceServes \/ DeviceStops \/ DeviceRuns \/ Idle
  <2>1. UNCHANGED <<op, work, sync, shell, adb>>
    BY <1>19 DEF DeviceServes, DeviceStops, DeviceRuns, Idle
  <2> QED
    BY <1>0, <1>op, <2>1
<1> QED
  BY Steps, <1>1, <1>2, <1>3, <1>4, <1>5, <1>6, <1>7, <1>8, <1>9, <1>10, <1>11, <1>12, <1>13, <1>14, <1>15, <1>16,
     <1>17, <1>18, <1>19

-----------------------------------------------------------------------------
(* Commands.                                                               *)

\* Before anything runs, there is no exit code.
LEMMA CommandedInit == ServiceInit => Commanded
  BY DEF ServiceInit, Commanded, InShell

\* A code found in a text is the code of the command.
LEMMA CodeFound ==
  ASSUME NEW text \in Seq(Token), Codes(text), CodeIn(text) # "none"
  PROVE  CodeIn(text) = device.code /\ text # <<>>
<1>1. \E d \in {"0", "1"} : Contains(text, d)
  BY DEF CodeIn
<1>2. CodeIn(text) \in {"0", "1"} /\ Contains(text, CodeIn(text))
  BY <1>1 DEF CodeIn
<1>3. PICK i \in 1..Len(text) : text[i] = CodeIn(text)
  BY <1>2 DEF Contains
<1>4. text[i] = device.code
  BY <1>2, <1>3 DEF Codes
<1> QED
  BY <1>3, <1>4

\* Exit codes and installations are told as the device has done them.
LEMMA CommandedStep ==
  ASSUME Typed, Placed, Told, Requested, Commanded, [ServiceNext]_serviceVars
  PROVE  Commanded'
<1>0. /\ work \in WorkType /\ device \in DeviceType /\ shell \in StreamType
      /\ exit \in {"none", "0", "1"} /\ result \in {"none", "done", "failed"}
      /\ device.text \in Seq(Token) /\ shell.buffer \in Seq(Token)
      /\ work.at \in InShell /\ ~device.ran => device.text = <<>> /\ shell.buffer = <<>>
      /\ work.at \in InShell /\ work.stage \in {"exec", "pm"} => Codes(device.text) /\ Codes(shell.buffer)
      /\ work.at \in InShell /\ work.stage = "pm" => Successes(device.text) /\ Successes(shell.buffer)
      /\ exit # "none" => exit = device.code /\ (work.stage = "rm" \/ (work.at = "over" /\ device.ran))
      /\ result = "done" /\ op = "install" => device.installed
  BY Types DEF Commanded, DeviceType, StreamType
<1>s. /\ work.at \in OnSync => work.stage \notin {"exec", "pm", "rm"}
      /\ op = "none" <=> work.at = "idle"
      /\ work.stage = "rm" => op = "install"
      /\ work.at = "over" \/ work.stage = "rm" <=> result # "none"
  BY <1>0 DEF Placed, OnSync, Stages, Told, Pushing, Asking
<1>1. CASE Start
  <2>1. /\ UNCHANGED <<exit, device>> /\ work'.at \notin InShell /\ op = "none" /\ result = "none" /\ result' # "done"
    BY <1>0, <1>1, <1>s, StartDoes DEF BeginsWith, InShell, Told, Stages, Placed
  <2>2. exit = "none"
    BY <1>0, <1>s, <2>1
  <2> QED
    BY <2>1, <2>2 DEF Commanded
<1>2. CASE Opened \/ Write \/ Written \/ ReadBegins \/ Probe \/ (\E id \in Token : Takes(id)) \/ Fail
  <2>1. work.at \in OnSync
    BY <1>2 DEF Opened, Write, Written, ReadBegins, Probe, Takes, Fail, OnSync
  <2>2. exit = "none" /\ result = "none"
    BY <1>0, <1>s, <2>1 DEF OnSync
  <2>3. UNCHANGED <<exit, device, op>> /\ work'.at \notin InShell
    <3>1. CASE Opened \/ Write
      BY <3>1, OpenedDoes, WriteDoes DEF InShell
    <3>2. CASE Written
      BY <3>2, WrittenDoes DEF InShell
    <3>3. CASE ReadBegins \/ Probe
      BY <3>3, MovesDo DEF InShell, MovesTo
    <3>4. CASE \E id \in Token : Takes(id)
      BY <3>4, AfterDoes DEF InShell, Takes
    <3>5. CASE Fail
      BY <3>5 DEF InShell, Fail, ThrowsWith
    <3> QED
      BY <1>2, <3>1, <3>2, <3>3, <3>4, <3>5
  <2>4. ~(result' = "done" /\ op' = "install")
    <3>1. CASE Opened \/ Write
      BY <2>2, <3>1, OpenedDoes, WriteDoes
    <3>2. CASE Written
      BY <2>2, <3>2, WrittenDoes
    <3>3. CASE ReadBegins \/ Probe
      BY <2>2, <3>3, MovesDo DEF MovesTo
    <3>4. CASE \E id \in Token : Takes(id)
      BY <2>2, <3>4 DEF Takes
    <3>5. CASE Fail
      BY <3>5 DEF Fail, ThrowsWith
    <3> QED
      BY <1>2, <3>1, <3>2, <3>3, <3>4, <3>5
  <2> QED
    BY <2>2, <2>3, <2>4 DEF Commanded
<1>3. CASE FallsBack
  <2>1. Broken /\ MovesTo("shell start", work.stage) /\ UNCHANGED device
    BY <1>3, MovesDo
  <2> QED
    BY <1>0, <2>1 DEF Commanded, MovesTo, Broken, Ended, InShell
<1>4. CASE ShellOpened
  <2>1. work.at = "shell open" /\ MovesTo("shell wait", work.stage) /\ UNCHANGED <<shell, device>>
    BY <1>4, MovesDo
  <2> QED
    BY <1>0, <2>1 DEF Commanded, MovesTo, InShell, Codes, Successes
<1>5. CASE ShellStarts
  <2>1. /\ work.at = "shell start" /\ MovesTo("shell open", work.stage) /\ shell' = NoStream
        /\ device'.code = device.code /\ device'.installed = device.installed
        /\ device'.ran = FALSE /\ device'.text = <<>>
    BY <1>5, MovesDo
  <2>2. shell'.buffer = <<>> /\ Len(<<>>) = 0
    BY <2>1 DEF NoStream
  <2>3. 1..Len(shell'.buffer) = {} /\ 1..Len(device'.text) = {}
    <3>1. Len(shell'.buffer) = 0
      BY <2>2
    <3>2. device'.text = <<>> /\ Len(<<>>) = 0
      BY <2>1
    <3>3. Len(device'.text) = 0
      BY <3>2
    <3>4. 1..0 = {}
      BY SMT
    <3> QED
      BY <3>1, <3>3, <3>4
  <2>4. Codes(device.text)' /\ Codes(shell.buffer)' /\ Successes(device.text)' /\ Successes(shell.buffer)'
    BY <2>3 DEF Codes, Successes
  <2>5. exit' # "none" => exit' = device'.code /\ work'.stage = "rm"
    BY <1>0, <2>1 DEF MovesTo
  <2>6. result' = "done" /\ op' = "install" => device'.installed
    BY <1>0, <2>1 DEF MovesTo
  <2> HIDE DEF Codes, Successes
  <2> QED
    BY <2>1, <2>2, <2>4, <2>5, <2>6 DEF Commanded
<1>6. CASE ShellReturns
  <2>1. /\ work.at = "shell wait" /\ CommandEnds
        /\ exit' = IF work.stage \in {"exec", "pm"} THEN CodeIn(shell.buffer) ELSE exit
        /\ work.stage = "pm" /\ result' = "done" => Installs(shell.buffer)
    BY <1>6, ShellReturnsDoes DEF Ended
  <2>2. work.stage \in {"pm", "rm", "probe", "exec", "reverse"} /\ work.at \in InShell
    BY <1>0, <2>1 DEF InShell, AtShell, Placed, WorkType
  <2>3. UNCHANGED <<op, shell, device>> /\ work'.at \notin InShell
    BY <2>1, <2>2 DEF CommandEnds, InShell
  <2>4. exit' # "none" => exit' = device'.code /\ (work'.stage = "rm" \/ (work'.at = "over" /\ device'.ran))
    <3>1. CASE work.stage \in {"exec", "pm"}
      <4>1. exit' # "none" => exit' = device.code /\ shell.buffer # <<>>
        <5>1. Codes(shell.buffer)
          BY <1>0, <2>2, <3>1
        <5>2. CodeIn(shell.buffer) # "none" => CodeIn(shell.buffer) = device.code /\ shell.buffer # <<>>
          BY <1>0, <5>1, CodeFound
        <5> QED
          BY <2>1, <3>1, <5>2
      <4>2. exit' # "none" => device.ran
        BY <1>0, <2>2, <4>1
      <4> QED
        BY <2>1, <2>3, <3>1, <4>1, <4>2 DEF CommandEnds
    <3>2. CASE work.stage \notin {"exec", "pm"}
      BY <1>0, <2>1, <2>2, <2>3, <3>2 DEF CommandEnds, InShell
    <3> QED
      BY <3>1, <3>2
  <2>5. result' = "done" /\ op = "install" => device.installed
    <3>1. CASE work.stage = "pm"
      <4> SUFFICES ASSUME result' = "done" PROVE device.installed
        OBVIOUS
      <4>1. Contains(shell.buffer, "Success")
        BY <2>1, <3>1 DEF Installs
      <4>2. PICK i \in 1..Len(shell.buffer) : shell.buffer[i] = "Success"
        BY <4>1 DEF Contains
      <4> QED
        BY <1>0, <2>2, <3>1, <4>2 DEF Successes
    <3>2. CASE work.stage \in {"rm", "probe"}
      BY <1>0, <2>1, <3>2 DEF CommandEnds
    <3>3. CASE work.stage \in {"exec", "reverse"}
      BY <3>3 DEF Placed, Stages
    <3> QED
      BY <2>2, <3>1, <3>2, <3>3
  <2> QED
    BY <2>3, <2>4, <2>5 DEF Commanded
<1>7. CASE ShellThrows
  <2>1. Broken /\ CommandEnds /\ exit' = exit /\ (work.stage = "pm" => result' = "failed")
    BY <1>7, ShellThrowsDoes
  <2>2. work.stage \in {"pm", "rm", "probe", "exec", "reverse"} /\ work.at \in InShell
    BY <1>0, <2>1 DEF Broken, Ended, InShell, AtShell, Placed, WorkType
  <2>3. UNCHANGED <<op, shell, device>> /\ work'.at \notin InShell
    BY <2>1, <2>2 DEF CommandEnds, InShell
  <2>4. exit' # "none" => exit' = device'.code /\ (work'.stage = "rm" \/ (work'.at = "over" /\ device'.ran))
    BY <1>0, <2>1, <2>2, <2>3 DEF CommandEnds, InShell
  <2>5. result' = "done" /\ op = "install" => device.installed
    <3>1. work.stage \in {"exec", "reverse"} => op # "install"
      BY DEF Placed, Stages
    <3> QED
      BY <1>0, <2>1, <2>2, <3>1 DEF CommandEnds
  <2> QED
    BY <2>3, <2>4, <2>5 DEF Commanded
<1>8. CASE DeviceRuns
  <2>1. shell.open /\ ~device.ran /\ (\E ok \in BOOLEAN : RunsWith(ok)) /\ UNCHANGED <<op, work, result, exit, shell>>
    BY <1>8, DeviceRunsDoes
  <2>2. PICK ok \in BOOLEAN : RunsWith(ok)
    BY <2>1
  <2>3. /\ device'.ran = TRUE
        /\ device'.code = IF work.stage \in {"exec", "pm"} THEN (IF ok THEN "0" ELSE "1") ELSE device.code
        /\ device'.installed <=> device.installed \/ (ok /\ work.stage = "pm")
        /\ work.stage # "reverse" => \A i \in 1..Len(device'.text) :
             device'.text[i] \in {IF ok THEN "Success" ELSE "Failure", IF ok THEN "0" ELSE "1", "end"}
    BY <2>2 DEF RunsWith
  <2>4. exit' # "none" => exit' = device'.code /\ (work'.stage = "rm" \/ (work'.at = "over" /\ device'.ran))
    BY <1>0, <2>1, <2>3
  <2>5. work.at \in InShell => shell'.buffer = <<>>
    BY <1>0, <2>1
  <2>6. work.stage \in {"exec", "pm"} => \A i \in 1..Len(device'.text) : device'.text[i] \in {"0", "1"} => device'.text[i] = device'.code
    BY <2>3
  <2>7. work.stage = "pm" => \A i \in 1..Len(device'.text) : device'.text[i] = "Success" => device'.installed
    BY <2>3
  <2>8. Len(<<>>) = 0
    OBVIOUS
  <2> QED
    BY <1>0, <2>1, <2>3, <2>4, <2>5, <2>6, <2>7, <2>8 DEF Commanded, Codes, Successes
<1>9. CASE DevicePrints
  <2>1. /\ device.text # <<>> /\ shell'.buffer \in {Append(shell.buffer, device.text[1]), Append(shell.buffer, "half")}
        /\ device'.text = Tail(device.text) /\ device'.ran = device.ran
        /\ device'.code = device.code /\ device'.installed = device.installed
        /\ UNCHANGED <<op, work, result, exit>>
    BY <1>9, DevicePrintsDoes
  <2>2. /\ Len(device.text) \in Nat \ {0}
        /\ Len(device'.text) = Len(device.text) - 1
        /\ \A i \in 1..(Len(device.text) - 1) : device'.text[i] = device.text[i + 1]
        /\ device.text[1] \in Token
    BY <1>0, <2>1, Tails
  <2>3. \A i \in 1..Len(device'.text) : \E j \in 1..Len(device.text) : device'.text[i] = device.text[j]
    <3>1. \A i \in 1..Len(device'.text) : i \in 1..(Len(device.text) - 1) /\ i + 1 \in 1..Len(device.text)
      BY <2>2
    <3> QED
      BY <2>2, <3>1
  <2>4. "half" \in Token
    <3>1. "half" \in Words
      BY DEF Words
    <3> QED
      BY <3>1, SingleTokens
  <2>5. PICK t \in {device.text[1], "half"} : shell'.buffer = Append(shell.buffer, t) /\ t \in Token
    BY <2>1, <2>2, <2>4
  <2>6. \A i \in 1..Len(shell'.buffer) :
          \/ shell'.buffer[i] = "half"
          \/ \E j \in 1..Len(device.text) : shell'.buffer[i] = device.text[j]
          \/ \E j \in 1..Len(shell.buffer) : shell'.buffer[i] = shell.buffer[j]
    <3>1. /\ Len(shell'.buffer) = Len(shell.buffer) + 1 /\ Len(shell.buffer) \in Nat
          /\ \A i \in 1..Len(shell.buffer) : shell'.buffer[i] = shell.buffer[i]
          /\ shell'.buffer[Len(shell.buffer) + 1] = t
      BY <1>0, <2>5, AppendProperties, LenProperties
    <3>2. 1 \in 1..Len(device.text)
      BY <2>2
    <3>3. \A i \in 1..Len(shell'.buffer) : i \in 1..Len(shell.buffer) \/ i = Len(shell.buffer) + 1
      BY <3>1
    <3> QED
      BY <2>5, <3>1, <3>2, <3>3
  <2>7. work.at \in InShell => device.ran
    BY <1>0, <2>1
  <2>8. work.at \in InShell /\ work.stage \in {"exec", "pm"} => Codes(device.text)' /\ Codes(shell.buffer)'
    BY <1>0, <2>1, <2>3, <2>6 DEF Codes
  <2>9. work.at \in InShell /\ work.stage = "pm" => Successes(device.text)' /\ Successes(shell.buffer)'
    BY <1>0, <2>1, <2>3, <2>6 DEF Successes
  <2> HIDE DEF Codes, Successes
  <2> QED
    BY <1>0, <2>1, <2>7, <2>8, <2>9 DEF Commanded
<1>10. CASE CloseBegins \/ CloseStreams \/ DeviceOpens \/ DeviceCloses \/ DeviceTakes \/ DeviceSends
            \/ DeviceStops \/ DeviceServes \/ Idle
  <2>1. UNCHANGED <<op, source, work, local, result, exit>>
    BY <1>10, Elsewhere
  <2>2. /\ device'.ran = device.ran /\ device'.text = device.text /\ device'.code = device.code
        /\ device'.installed = device.installed /\ shell'.buffer = shell.buffer
    <3>1. CASE CloseBegins \/ Idle
      BY <3>1 DEF CloseBegins, Idle
    <3>2. CASE CloseStreams
      BY <3>2, CloseStreamsDoes
    <3>3. CASE DeviceOpens
      BY <3>3, DeviceOpensDoes DEF SyncSet, ShellSet
    <3>4. CASE DeviceCloses
      BY <3>4, DeviceClosesDoes DEF SyncSet, ShellSet
    <3>5. CASE DeviceTakes
      BY <3>5, DeviceTakesDoes DEF DeviceSays
    <3>6. CASE DeviceSends
      BY <3>6, DeviceSendsDoes DEF DeviceSays
    <3>7. CASE DeviceStops
      BY <3>7, DeviceStopsDoes DEF DeviceSays
    <3>8. CASE DeviceServes
      BY <3>8, DeviceServesDoes DEF ServesWith
    <3> QED
      BY <1>10, <3>1, <3>2, <3>3, <3>4, <3>5, <3>6, <3>7, <3>8
  <2> QED
    BY <1>0, <2>1, <2>2 DEF Commanded, Codes, Successes
<1> QED
  BY Steps, <1>1, <1>2, <1>3, <1>4, <1>5, <1>6, <1>7, <1>8, <1>9, <1>10

-----------------------------------------------------------------------------
(* Requests: what is to be written, underway and received is the script.   *)

\* The script depends on the operation and its source only.
LEMMA ScriptSame ==
  ASSUME UNCHANGED <<op, source>>
  PROVE  /\ Whole' = Whole /\ Blocks' = Blocks /\ ScriptSize' = ScriptSize /\ (Pushing' <=> Pushing) /\ (Asking' <=> Asking)
         /\ \A k : Word(k)' = Word(k)
         /\ Asked' = Asked
<1>1. Whole' = Whole /\ (Pushing' <=> Pushing) /\ (Asking' <=> Asking)
  BY DEF Whole, Pushing, Asking
<1>2. Blocks' = Blocks
  BY <1>1 DEF Blocks
<1>3. ScriptSize' = ScriptSize
  BY <1>1, <1>2 DEF ScriptSize
<1>4. ASSUME NEW k PROVE Word(k)' = Word(k)
  <2>1. PushWord(k)' = PushWord(k)
    BY <1>1, <1>2 DEF PushWord
  <2>2. PullWord(k)' = PullWord(k) /\ ListWord(k)' = ListWord(k)
    BY DEF PullWord, ListWord
  <2> QED
    BY <1>1, <2>1, <2>2 DEF Word
<1>5. Asked' = Asked
  BY DEF Asked
<1> QED
  BY <1>1, <1>2, <1>3, <1>4, <1>5

\* The counters of the script are numbers.
LEMMA CountTypes ==
  ASSUME Typed, Requested
  PROVE  /\ Len(sync.wire) \in Nat /\ Len(device.got) \in Nat /\ Len(work.todo) \in Nat
         /\ ScriptSize \in Nat /\ Planned \in Int /\ Pending \in Int /\ Sent \in Nat /\ Taken \in Nat /\ Served \in Nat
         /\ Sent = Planned - Pending /\ Taken = Sent - Len(sync.wire) /\ Served = Taken - Len(device.got)
         /\ sync.wire \in Seq(Token) /\ device.got \in Seq(Token) /\ work.todo \in Seq(Seq(Token))
<1>1. /\ Len(sync.wire) \in Nat /\ Len(device.got) \in Nat /\ Len(work.todo) \in Nat
      /\ sync.wire \in Seq(Token) /\ device.got \in Seq(Token) /\ work.todo \in Seq(Seq(Token))
      /\ work.then \in {"nothing", "answer", "stat", "data", "block", "entry", "name", "rest", "end"}
  BY Types, LenProperties DEF StreamType, DeviceType, WorkType
<1>2. ScriptSize \in Nat
  BY SizeType
<1>3. Planned \in Int
  BY <1>1, <1>2 DEF Planned
<1>4. Pending \in Int
  BY <1>1, <1>2 DEF Pending
<1>5. Sent \in Int /\ Sent = Planned - Pending
  BY <1>3, <1>4 DEF Sent
<1>6. Taken \in Int /\ Taken = Sent - Len(sync.wire)
  BY <1>1, <1>5 DEF Taken
<1>7. Served \in Nat
  BY DEF Requested
<1>8. Served = Taken - Len(device.got)
  BY DEF Served
<1> HIDE DEF Served, Taken, Sent, Planned, Pending, ScriptSize
<1>9. Taken \in Nat /\ Sent \in Nat
  BY <1>1, <1>5, <1>6, <1>7, <1>8
<1> QED
  BY <1>1, <1>2, <1>3, <1>4, <1>5, <1>6, <1>7, <1>8, <1>9

\* Before anything is asked for, nothing is underway.
LEMMA NothingSent ==
  ASSUME Typed, Placed, Requested, work.then = "nothing"
  PROVE  /\ work.todo = <<>> /\ Planned = 0 /\ Pending = 0 /\ Sent = 0 /\ Taken = 0 /\ Served = 0
         /\ Len(sync.wire) = 0 /\ Len(device.got) = 0 /\ sync.wire = <<>> /\ device.got = <<>>
<1>1. work.todo = <<>> /\ Len(<<>>) = 0
  BY DEF Placed
<1>2. Planned = 0 /\ Pending = 0
  BY <1>1 DEF Planned, Pending, Bundled
<1>3. Sent = 0 /\ Taken = 0 /\ Served = 0 /\ Len(sync.wire) = 0 /\ Len(device.got) = 0
  BY <1>2, CountTypes
<1>4. sync.wire = <<>> /\ device.got = <<>>
  BY <1>3, CountTypes, EmptySeq
<1> QED
  BY <1>1, <1>2, <1>3, <1>4

\* Before it starts, an operation has said nothing.
LEMMA RequestedInit == ServiceInit => Requested
<1> SUFFICES ASSUME ServiceInit PROVE Requested
  OBVIOUS
<1>1. /\ op = "none" /\ work.then = "nothing" /\ work.todo = <<>> /\ sync.wire = <<>> /\ device.got = <<>>
      /\ Len(<<>>) = 0 /\ sync.canWrite = TRUE
  BY DEF ServiceInit, NoStream
<1>2. Planned = 0 /\ Pending = 0 /\ ~Bundled
  BY <1>1 DEF Planned, Pending, Bundled
<1>3. Sent = 0 /\ Taken = 0 /\ Served = 0
  <2>1. Len(sync.wire) = 0 /\ Len(device.got) = 0
    BY <1>1
  <2>2. Sent = 0
    BY <1>2 DEF Sent
  <2>3. Taken = 0
    BY <2>1, <2>2 DEF Taken
  <2> QED
    BY <2>1, <2>2, <2>3 DEF Served
<1>4. 0 % 2 = 0
  BY SMT
<1>5. TodoFollows
  BY <1>1 DEF TodoFollows
<1>6. Follows(device.got, Served) /\ Follows(sync.wire, Taken)
  BY <1>1 DEF Follows
<1> QED
  BY <1>1, <1>2, <1>3, <1>4, <1>5, <1>6 DEF Requested, Boundary

\* Nothing that has to do with requests changes.
LEMMA RequestedSame ==
  ASSUME Typed, Requested, UNCHANGED <<op, source>>, work'.then = work.then, work'.todo = work.todo,
         sync'.wire = sync.wire, device'.got = device.got, sync'.canWrite = sync.canWrite
  PROVE  Requested' /\ Served' = Served /\ Sent' = Sent
<1>1. /\ ScriptSize' = ScriptSize /\ (Pushing' <=> Pushing) /\ \A k : Word(k)' = Word(k)
  BY ScriptSame
<1>2. Planned' = Planned /\ (Bundled' <=> Bundled)
  BY <1>1 DEF Planned, Bundled
<1>3. Pending' = Pending
  BY <1>1, <1>2 DEF Pending
<1>4. Sent' = Sent /\ Taken' = Taken /\ Served' = Served
  BY <1>2, <1>3 DEF Sent, Taken, Served
<1> HIDE DEF Sent, Taken, Served, Planned, Pending, Bundled, ScriptSize, Word, Pushing
<1>5. TodoFollows'
  BY <1>1, <1>2, <1>4 DEF Requested, TodoFollows, Follows
<1>6. Follows(device.got, Served)' /\ Follows(sync.wire, Taken)'
  BY <1>1, <1>4 DEF Requested, Follows
<1>7. Boundary(Served)'
  BY <1>1, <1>4 DEF Requested, Boundary
<1> QED
  BY <1>2, <1>3, <1>4, <1>5, <1>6, <1>7 DEF Requested

\* The work has written all and writes something more, token by token.
LEMMA RequestedMore ==
  ASSUME Typed, Requested, UNCHANGED <<op, source>>,
         sync'.wire = sync.wire, device'.got = device.got, sync'.canWrite = sync.canWrite,
         ~Bundled', work'.todo \in Seq(Seq(Token)), Planned' \in Nat, Planned' = Sent + Len(work'.todo),
         \A i \in 1..Len(work'.todo) : Len(work'.todo[i]) = 1 /\ Sent + i <= ScriptSize /\ work'.todo[i][1] = Word(Sent + i)
  PROVE  Requested' /\ Served' = Served /\ Sent' = Sent
<1>0. /\ Len(sync.wire) \in Nat /\ Len(device.got) \in Nat /\ Len(work'.todo) \in Nat
      /\ ScriptSize \in Nat /\ Sent \in Nat /\ Taken \in Nat /\ Served \in Nat
      /\ Taken = Sent - Len(sync.wire) /\ Served = Taken - Len(device.got)
  BY CountTypes, LenProperties
<1>1. /\ ScriptSize' = ScriptSize /\ (Pushing' <=> Pushing) /\ \A k : Word(k)' = Word(k)
  BY ScriptSame
<1>2. Pending' = Len(work'.todo)
  BY DEF Pending
<1>3. Sent' = Sent
  BY <1>0, <1>2 DEF Sent
<1>4. Taken' = Taken /\ Served' = Served
  BY <1>3 DEF Taken, Served
<1> HIDE DEF Sent, Taken, Served, Planned, Pending, Bundled, ScriptSize, Word, Pushing
<1>5. TodoFollows'
  <2> SUFFICES ASSUME NEW i \in 1..Len(work'.todo)
               PROVE  Len(work'.todo[i]) = 1 /\ Follows(work.todo[i], Sent + i - 1)'
    BY DEF TodoFollows
  <2>1. Len(work'.todo[i]) = 1 /\ Sent + i <= ScriptSize /\ work'.todo[i][1] = Word(Sent + i)
    OBVIOUS
  <2>2. Sent + i - 1 + 1 = Sent + i
    BY <1>0
  <2>3. 1..Len(work'.todo[i]) = {1}
    <3>1. 1..1 = {1}
      BY SMT
    <3> QED
      BY <2>1, <3>1
  <2> QED
    BY <1>0, <1>1, <1>3, <2>1, <2>2, <2>3 DEF Follows
<1>6. Follows(device.got, Served)' /\ Follows(sync.wire, Taken)'
  BY <1>1, <1>4 DEF Requested, Follows
<1>7. Boundary(Served)'
  BY <1>1, <1>4 DEF Requested, Boundary
<1>8. Pending' <= Planned'
  BY <1>0, <1>2
<1> QED
  BY <1>0, <1>4, <1>3, <1>5, <1>6, <1>7, <1>8 DEF Requested

\* Nothing is asked for yet.
LEMMA RequestedNothing ==
  ASSUME work'.then = "nothing", work'.todo = <<>>, sync'.wire = <<>>, device'.got = <<>>
  PROVE  Requested' /\ Served' = 0
<1>1. Planned' = 0 /\ Pending' = 0 /\ ~Bundled' /\ Len(<<>>) = 0
  BY DEF Planned, Pending, Bundled
<1>2. Len(sync'.wire) = 0 /\ Len(device'.got) = 0
  OBVIOUS
<1>3. Planned' - Pending' = 0
  BY <1>1
<1>4. Sent' = 0 /\ Taken' = 0 /\ Served' = 0
  <2>1. Sent' = 0
    BY <1>3 DEF Sent
  <2>2. Taken' = 0 - 0
    BY <1>2, <2>1 DEF Taken
  <2>3. Served' = 0 - 0 - 0
    BY <1>2, <2>2 DEF Served
  <2> QED
    BY <2>1, <2>2, <2>3
<1>5. 0 % 2 = 0
  BY SMT
<1>6. TodoFollows'
  BY <1>1 DEF TodoFollows
<1>7. Follows(device.got, Served)' /\ Follows(sync.wire, Taken)'
  BY <1>1 DEF Follows
<1> QED
  BY <1>1, <1>4, <1>5, <1>6, <1>7 DEF Requested, Boundary

\* With nothing left to write, all that was planned is sent.
LEMMA AllWritten ==
  ASSUME Typed, Requested, work.todo = <<>>
  PROVE  Pending = 0 /\ Sent = Planned
<1>1. Pending = 0
  BY DEF Pending
<1> QED
  BY <1>1, CountTypes

\* The plan of an operation is the beginning of its script.
LEMMA RequestedOpened ==
  ASSUME Typed, Placed, Requested, Opened
  PROVE  Requested' /\ Served' = Served
<1>1. /\ work.at = "open" /\ work' \in WorkType /\ UNCHANGED <<op, source, sync, device>>
      /\ \/ op = "pull" /\ work'.then = "stat" /\ work'.todo = <<<<"STAT">>, <<"path">>>>
         \/ op = "list" /\ work'.then = "entry" /\ work'.todo = <<<<"LIST">>, <<"path">>>>
         \/ Pushing /\ work'.then = "answer" /\ work'.todo = Pushes(source)
  BY OpenedDoes
<1>2. work.then = "nothing" /\ Typed /\ source \in {"none", "memory", "packet", "chunks"}
  BY <1>1, Types DEF Placed
<1>3. /\ Sent = 0 /\ Served = 0 /\ sync.wire = <<>> /\ device.got = <<>>
  BY <1>2, NothingSent
<1>4. work'.todo \in Seq(Seq(Token)) /\ UNCHANGED <<sync, device, op, source>>
  BY <1>1 DEF WorkType
<1>5. CASE op = "pull" \/ op = "list"
  <2>1. /\ Planned' = 2 /\ ~Bundled' /\ Len(work'.todo) = 2
        /\ \A i \in 1..2 : Len(work'.todo[i]) = 1 /\ i <= ScriptSize /\ work'.todo[i][1] = Word(i)
    <3>1. CASE op = "pull"
      BY <1>1, <3>1, PullScript DEF Planned, Bundled, Pushing
    <3>2. CASE op = "list"
      BY <1>1, <3>2, ListScript DEF Planned, Bundled, Pushing
    <3> QED
      BY <1>5, <3>1, <3>2
  <2>2. \A i \in 1..Len(work'.todo) : Sent + i = i
    BY <1>3, <2>1
  <2>3. \A i \in 1..Len(work'.todo) : Len(work'.todo[i]) = 1 /\ Sent + i <= ScriptSize /\ work'.todo[i][1] = Word(Sent + i)
    BY <2>1, <2>2
  <2>4. Planned' \in Nat /\ Planned' = Sent + Len(work'.todo)
    BY <1>3, <2>1
  <2> QED
    BY <1>4, <2>1, <2>3, <2>4, RequestedMore
<1>6. CASE Pushing
  <2>1. work'.then = "answer" /\ work'.todo = Pushes(source) /\ source \in {"memory", "packet", "chunks"}
    BY <1>1, <1>2, <1>6 DEF Pushing, Placed
  <2>2. /\ Blocks \in Nat \ {0} /\ ScriptSize = 2 * Blocks + 4 /\ ScriptSize' = ScriptSize /\ (Pushing' <=> Pushing)
        /\ \A k : Word(k)' = Word(k)
        /\ \A k \in 1..(2 * Blocks + 3) : Word(k) = PushWord(k)
    BY <1>1, <1>6, PushScript, ScriptSame
  <2>3. Planned' = 2 * Blocks + 3
    BY <2>1, <2>2 DEF Planned
  <2> HIDE DEF Planned
  <2>4. CASE source = "memory"
    <3>1. /\ Len(work'.todo) = 2 * Blocks + 3
          /\ \A i \in 1..(2 * Blocks + 3) : work'.todo[i] = <<PushWord(i)>>
      BY <2>1, <2>4, PushesMade
    <3>2. ~Bundled'
      BY <1>1, <2>4 DEF Bundled
    <3>3. ASSUME NEW i \in 1..Len(work'.todo)
          PROVE  Len(work'.todo[i]) = 1 /\ Sent + i <= ScriptSize /\ work'.todo[i][1] = Word(Sent + i)
      <4>1. i \in 1..(2 * Blocks + 3) /\ 2 * Blocks + 3 \in Nat
        BY <2>2, <3>1
      <4>2. Sent + i = i /\ i <= ScriptSize
        BY <1>3, <2>2, <4>1
      <4>3. work'.todo[i] = <<PushWord(i)>> /\ Word(i) = PushWord(i)
        BY <2>2, <3>1, <4>1
      <4> QED
        BY <4>2, <4>3
    <3>4. \A i \in 1..Len(work'.todo) : Len(work'.todo[i]) = 1 /\ Sent + i <= ScriptSize /\ work'.todo[i][1] = Word(Sent + i)
      BY <3>3
    <3>5. Planned' \in Nat /\ Planned' = Sent + Len(work'.todo)
      BY <1>3, <2>2, <2>3, <3>1
    <3> QED
      BY <1>4, <3>2, <3>4, <3>5, RequestedMore
  <2>5. CASE source # "memory"
    <3>1. Bundled' /\ work'.todo # <<>> /\ Pending' = 2 * Blocks + 3
      <4>1. Bundled'
        BY <1>1, <2>1, <2>5 DEF Bundled
      <4>2. CASE source = "packet"
        <5>1. work'.todo = <<Said>> /\ source' = "packet"
          BY <1>1, <2>1, <4>2, PushesMade
        <5> QED
          BY <2>2, <4>1, <5>1 DEF Pending
      <4>3. CASE source = "chunks"
        <5>1. Len(work'.todo) = Blocks + 2 /\ source' = "chunks"
          BY <1>1, <2>1, <4>3, PushesMade
        <5>2. work'.todo # <<>>
          BY <2>2, <5>1
        <5> QED
          BY <2>2, <4>1, <5>1, <5>2 DEF Pending
      <4> QED
        BY <2>1, <2>5, <4>1, <4>2, <4>3
    <3>2. Sent' = 0
      BY <2>2, <2>3, <3>1 DEF Sent
    <3>3. Len(sync'.wire) = 0 /\ Len(device'.got) = 0
      BY <1>1, <1>3
    <3>4. Taken' = 0
      BY <3>2, <3>3 DEF Taken
    <3>5. Served' = 0
      BY <3>3, <3>4 DEF Served
    <3> HIDE DEF Sent, Taken, Served, Pending, Bundled
    <3>6. /\ source = "packet" => Len(work'.todo) = 1
          /\ \A i \in 1..Len(work'.todo) :
               /\ Len(work'.todo[i]) = IF source = "packet" THEN ScriptSize - 1 ELSE IF i = Len(work'.todo) THEN 1 ELSE 2
               /\ \A j \in 1..Len(work'.todo[i]) :
                    /\ 2 * i - 2 + j \in 1..(2 * Blocks + 3) /\ work'.todo[i][j] = PushWord(2 * i - 2 + j)
      <4>1. CASE source = "packet"
        <5>1. /\ work'.todo = <<Said>>
              /\ Len(Said) = 2 * Blocks + 3 /\ \A j \in 1..(2 * Blocks + 3) : Said[j] = PushWord(j)
          BY <2>1, <4>1, PushesMade, SaidMade
        <5> HIDE DEF Said
        <5>2. Len(work'.todo) = 1 /\ work'.todo[1] = Said /\ \A i \in 1..1 : i = 1
          BY <5>1
        <5>3. \A j \in 1..(2 * Blocks + 3) : 2 * 1 - 2 + j = j
          BY <2>2
        <5> QED
          BY <2>2, <4>1, <5>1, <5>2, <5>3
      <4>2. CASE source = "chunks"
        <5>1. /\ Len(work'.todo) = Blocks + 2
              /\ \A i \in 1..(Blocks + 2) :
                   work'.todo[i] = IF i = Blocks + 2 THEN <<PushWord(2 * i - 1)>>
                                   ELSE <<PushWord(2 * i - 1), PushWord(2 * i)>>
          BY <2>1, <4>2, PushesMade
        <5> SUFFICES ASSUME NEW i \in 1..(Blocks + 2)
                     PROVE  /\ Len(work'.todo[i]) = IF i = Blocks + 2 THEN 1 ELSE 2
                            /\ \A j \in 1..Len(work'.todo[i]) :
                                 2 * i - 2 + j \in 1..(2 * Blocks + 3) /\ work'.todo[i][j] = PushWord(2 * i - 2 + j)
          BY <4>2, <5>1
        <5>2. 2 * i - 2 + 1 = 2 * i - 1 /\ 2 * i - 2 + 2 = 2 * i /\ 2 * i - 1 \in 1..(2 * Blocks + 3)
              /\ (i # Blocks + 2 => 2 * i \in 1..(2 * Blocks + 3))
          BY <2>2
        <5>3. CASE i = Blocks + 2
          <6>1. work'.todo[i] = <<PushWord(2 * i - 1)>>
            BY <5>1, <5>3
          <6>2. Len(work'.todo[i]) = 1 /\ work'.todo[i][1] = PushWord(2 * i - 1) /\ \A j \in 1..1 : j = 1
            BY <6>1
          <6> QED
            BY <5>2, <5>3, <6>2
        <5>4. CASE i # Blocks + 2
          <6>1. work'.todo[i] = <<PushWord(2 * i - 1), PushWord(2 * i)>>
            BY <5>1, <5>4
          <6>2. /\ Len(work'.todo[i]) = 2 /\ work'.todo[i][1] = PushWord(2 * i - 1) /\ work'.todo[i][2] = PushWord(2 * i)
                /\ \A j \in 1..2 : j = 1 \/ j = 2
            BY <6>1
          <6> QED
            BY <5>2, <5>4, <6>2
        <5> QED
          BY <5>3, <5>4
      <4> QED
        BY <2>1, <2>5, <4>1, <4>2
    <3>7. \A i \in 1..Len(work'.todo) : \A j \in 1..Len(work'.todo[i]) :
            /\ 0 + 2 * i - 2 + j = 2 * i - 2 + j /\ 2 * i - 2 + j <= ScriptSize
            /\ work'.todo[i][j] = Word(2 * i - 2 + j)
      BY <2>2, <3>6
    <3>8. TodoFollows'
      <4> SUFFICES ASSUME NEW i \in 1..Len(work'.todo)
                   PROVE  /\ Len(work'.todo[i]) = IF source' = "packet" THEN ScriptSize' - 1 ELSE IF i = Len(work'.todo) THEN 1 ELSE 2
                          /\ Follows(work.todo[i], Sent + 2 * i - 2)'
        BY <3>1 DEF TodoFollows
      <4>1. Follows(work.todo[i], Sent + 2 * i - 2)'
        BY <2>2, <3>2, <3>7 DEF Follows
      <4> QED
        BY <1>1, <2>2, <3>6, <4>1
    <3>9. Follows(device.got, Served)' /\ Follows(sync.wire, Taken)'
      BY <3>3 DEF Follows
    <3>10. 0 % 2 = 0
      BY SMT
    <3>11. Pending' <= Planned' /\ (source' = "packet" => Len(work'.todo) <= 1)
      BY <1>1, <2>2, <2>3, <3>1, <3>6
    <3> QED
      BY <1>3, <3>1, <3>3, <3>5, <3>8, <3>9, <3>10, <3>11 DEF Requested, Boundary
  <2> QED
    BY <2>4, <2>5
<1> QED
  BY <1>1, <1>5, <1>6

\* A write moves the next of the script from the plan to the wire.
LEMMA RequestedWrite ==
  ASSUME Typed, Placed, Requested, Write
  PROVE  Requested' /\ Served' = Served
<1> DEFINE n == Len(work.todo)
           w == work.todo[1]
<1>1. /\ UNCHANGED <<op, source, device>> /\ work'.then = work.then /\ work'.todo = Tail(work.todo)
      /\ sync'.wire = w /\ sync'.canWrite = FALSE /\ work.todo # <<>> /\ sync.canWrite = TRUE
  BY WriteDoes
<1>2. /\ Len(sync.wire) \in Nat /\ Len(device.got) \in Nat /\ work.todo \in Seq(Seq(Token))
      /\ ScriptSize \in Nat /\ Planned \in Int /\ Pending \in Int /\ Sent \in Nat /\ Taken \in Nat /\ Served \in Nat
      /\ Sent = Planned - Pending /\ Taken = Sent - Len(sync.wire) /\ Served = Taken - Len(device.got)
  BY CountTypes
<1>3. /\ n \in Nat \ {0} /\ Len(work'.todo) = n - 1 /\ Len(work'.todo) \in Nat /\ w \in Seq(Token)
      /\ \A i \in 1..(n - 1) : work'.todo[i] = work.todo[i + 1]
  BY <1>1, <1>2, Tails
<1>4. Taken = Sent
  <2>1. Len(sync.wire) = 0
    BY <1>1 DEF Requested
  <2> QED
    BY <1>2, <2>1
<1>5. /\ ScriptSize' = ScriptSize /\ (Pushing' <=> Pushing) /\ \A k : Word(k)' = Word(k)
  BY <1>1, ScriptSame
<1>6. Planned' = Planned /\ (Bundled' <=> Bundled)
  BY <1>1, <1>5 DEF Planned, Bundled
<1>7. /\ \A i \in 1..n :
           /\ Len(work.todo[i]) = IF ~Bundled THEN 1 ELSE IF source = "packet" THEN ScriptSize - 1 ELSE IF i = n THEN 1 ELSE 2
           /\ Follows(work.todo[i], IF ~Bundled THEN Sent + i - 1 ELSE Sent + 2 * i - 2)
      /\ Pending <= Planned /\ (Bundled /\ source = "packet" => n <= 1) /\ Boundary(Served) /\ Follows(device.got, Served)
  BY DEF Requested, TodoFollows
<1>8. Pending = IF ~Bundled THEN n ELSE IF source = "packet" THEN ScriptSize - 1 ELSE 2 * n - 1
  BY <1>1 DEF Pending
<1>9. Pending' = IF ~Bundled THEN n - 1 ELSE IF n - 1 = 0 THEN 0 ELSE IF source = "packet" THEN ScriptSize - 1 ELSE 2 * (n - 1) - 1
  <2>1. work'.todo = <<>> <=> n - 1 = 0
    <3>1. work'.todo \in Seq(Seq(Token))
      BY <1>1, <1>2, Tails
    <3> QED
      BY <1>3, <3>1, EmptySeq
  <2> QED
    BY <1>1, <1>3, <1>5, <1>6, <2>1 DEF Pending
<1> HIDE DEF n, w, Sent, Taken, Served, Planned, Pending, Bundled, ScriptSize, Word, Pushing
<1>10. /\ Len(w) = IF ~Bundled THEN 1 ELSE IF source = "packet" THEN ScriptSize - 1 ELSE IF n = 1 THEN 1 ELSE 2
       /\ Follows(w, Sent)
  <2>1. 1 \in 1..n /\ Sent + 1 - 1 = Sent /\ Sent + 2 * 1 - 2 = Sent /\ (1 = n <=> n = 1)
    BY <1>2, <1>3
  <2>2. /\ Len(w) = IF ~Bundled THEN 1 ELSE IF source = "packet" THEN ScriptSize - 1 ELSE IF 1 = n THEN 1 ELSE 2
        /\ Follows(w, IF ~Bundled THEN Sent + 1 - 1 ELSE Sent + 2 * 1 - 2)
    BY <1>7, <2>1 DEF w
  <2>3. (IF ~Bundled THEN Sent + 1 - 1 ELSE Sent + 2 * 1 - 2) = Sent
    BY <2>1
  <2> QED
    BY <2>1, <2>2, <2>3
<1>11. Pending' = Pending - Len(w) /\ Len(w) \in Nat
  <2>1. CASE ~Bundled
    BY <1>3, <1>8, <1>9, <1>10, <2>1
  <2>2. CASE Bundled /\ source = "packet"
    <3>1. n = 1
      BY <1>3, <1>7, <2>2
    <3>2. ScriptSize - 1 \in Nat
      <4>1. Len(w) = ScriptSize - 1
        BY <1>10, <2>2
      <4> QED
        BY <1>3, <4>1, LenProperties
    <3> QED
      BY <1>2, <1>8, <1>9, <1>10, <2>2, <3>1, <3>2
  <2>3. CASE Bundled /\ source # "packet"
    BY <1>3, <1>8, <1>9, <1>10, <2>3
  <2> QED
    BY <2>1, <2>2, <2>3
<1>12. Sent' = Sent + Len(w)
  BY <1>2, <1>6, <1>11 DEF Sent
<1>13. Taken' = Sent
  BY <1>1, <1>2, <1>11, <1>12 DEF Taken
<1>14. Served' = Served
  BY <1>1, <1>2, <1>4, <1>13 DEF Served
<1>15. TodoFollows'
  <2> SUFFICES ASSUME NEW i \in 1..(n - 1)
               PROVE  /\ Len(work'.todo[i]) = IF ~Bundled THEN 1 ELSE IF source = "packet" THEN ScriptSize - 1
                                              ELSE IF i = n - 1 THEN 1 ELSE 2
                      /\ Follows(work.todo[i], IF ~Bundled THEN Sent + i - 1 ELSE Sent + 2 * i - 2)'
    BY <1>1, <1>3, <1>5, <1>6 DEF TodoFollows
  <2>1. /\ i + 1 \in 1..n /\ work'.todo[i] = work.todo[i + 1] /\ (i + 1 = n <=> i = n - 1)
    BY <1>3
  <2>2. /\ Len(work.todo[i + 1]) = IF ~Bundled THEN 1 ELSE IF source = "packet" THEN ScriptSize - 1 ELSE IF i + 1 = n THEN 1 ELSE 2
        /\ Follows(work.todo[i + 1], IF ~Bundled THEN Sent + (i + 1) - 1 ELSE Sent + 2 * (i + 1) - 2)
    BY <1>7, <2>1
  <2>3. (IF ~Bundled THEN Sent + (i + 1) - 1 ELSE Sent + 2 * (i + 1) - 2)
        = (IF ~Bundled THEN Sent' + i - 1 ELSE Sent' + 2 * i - 2)
    <3>1. CASE ~Bundled
      BY <1>2, <1>10, <1>12, <3>1
    <3>2. CASE Bundled
      <4>1. n # 1
        BY <1>3
      <4>2. source # "packet" /\ Len(w) = 2
        BY <1>3, <1>7, <1>10, <3>2, <4>1
      <4> QED
        BY <1>2, <1>12, <3>2, <4>2
    <3> QED
      BY <3>1, <3>2
  <2>4. Follows(work.todo[i + 1], IF ~Bundled THEN Sent' + i - 1 ELSE Sent' + 2 * i - 2)
    BY <2>2, <2>3
  <2>5. Follows(work.todo[i], IF ~Bundled THEN Sent + i - 1 ELSE Sent + 2 * i - 2)'
    BY <1>5, <1>6, <2>1, <2>4 DEF Follows
  <2> QED
    BY <2>1, <2>2, <2>5
<1>16. Follows(device.got, Served)'
  BY <1>1, <1>5, <1>7, <1>14 DEF Follows
<1>17. Follows(sync.wire, Taken)'
  BY <1>1, <1>5, <1>10, <1>13 DEF Follows
<1>18. Boundary(Served)'
  BY <1>5, <1>7, <1>14 DEF Boundary
<1>19. Pending' <= Planned' /\ (Bundled' /\ source' = "packet" => Len(work'.todo) <= 1)
  BY <1>1, <1>2, <1>3, <1>6, <1>7, <1>11
<1> QED
  BY <1>1, <1>2, <1>14, <1>15, <1>16, <1>17, <1>18, <1>19 DEF Requested

\* A request that is served leaves the next one of the script first.
LEMMA RequestedServes ==
  ASSUME Typed, Placed, Requested, NEW id, NextRequest(id), NEW k \in {1, 2}, k = (IF id \in {"DONE", "QUIT"} THEN 1 ELSE 2),
         ServesWith(id, k)
  PROVE  Requested' /\ Served' = Served + k
<1>1. /\ UNCHANGED <<op, source, work, sync>>
      /\ Len(device.got) >= k /\ Len(device'.got) = Len(device.got) - k
      /\ \A i \in 1..(Len(device.got) - k) : device'.got[i] = device.got[i + k]
  BY DEF ServesWith
<1>2. /\ Len(sync.wire) \in Nat /\ Len(device.got) \in Nat /\ work.todo \in Seq(Seq(Token))
      /\ ScriptSize \in Nat /\ Planned \in Int /\ Pending \in Int /\ Sent \in Nat /\ Taken \in Nat /\ Served \in Nat
      /\ Sent = Planned - Pending /\ Taken = Sent - Len(sync.wire) /\ Served = Taken - Len(device.got)
  BY CountTypes
<1>3. /\ ScriptSize' = ScriptSize /\ (Pushing' <=> Pushing) /\ \A j : Word(j)' = Word(j)
  BY <1>1, ScriptSame
<1>4. Planned' = Planned /\ (Bundled' <=> Bundled)
  BY <1>1, <1>3 DEF Planned, Bundled
<1>5. Pending' = Pending
  BY <1>1, <1>3, <1>4 DEF Pending
<1>6. Sent' = Sent /\ Taken' = Taken
  BY <1>1, <1>4, <1>5 DEF Sent, Taken
<1>7. Served' = Served + k
  <2>1. Served' = Taken' - Len(device'.got)
    BY DEF Served
  <2> QED
    BY <1>1, <1>2, <1>6, <2>1
<1>8. /\ Pushing => ScriptSize % 2 = 0
      /\ op = "pull" => ScriptSize = 5 /\ ~Pushing
      /\ op = "list" => ScriptSize = 3 /\ ~Pushing
  <2>1. Pushing => ScriptSize % 2 = 0
    <3>1. Pushing => Blocks \in Nat /\ ScriptSize = 2 * Blocks + 4
      BY PushScript
    <3>2. \A b \in Nat : (2 * b + 4) % 2 = 0
      BY SMT
    <3> QED
      BY <3>1, <3>2
  <2> QED
    BY <2>1, PullScript, ListScript DEF Pushing
<1> HIDE DEF Sent, Taken, Served, Planned, Pending, Bundled, ScriptSize, Word, Pushing
<1>n. Served \in Nat /\ ScriptSize \in Nat /\ k \in {1, 2}
  BY <1>2
<1>9. Boundary(Served)'
  <2> SUFFICES (Served + k) % 2 = 0 \/ Served + k = (IF Pushing THEN ScriptSize - 1 ELSE ScriptSize)
    BY <1>3, <1>7 DEF Boundary
  <2>1. CASE id \notin {"DONE", "QUIT"}
    <3>1. k = 2 /\ Served % 2 = 0
      <4>1. 0 % 2 = 0 /\ 2 % 2 = 0
        BY SMT
      <4> QED
        BY <2>1, <4>1 DEF NextRequest
    <3>2. (Served + 2) % 2 = Served % 2
      BY <1>2, Halves
    <3> QED
      BY <3>1, <3>2
  <2>2. CASE id = "DONE"
    <3>1. k = 1 /\ Pushing /\ Served = ScriptSize - 2
      BY <2>2 DEF NextRequest
    <3>2. Served + k = ScriptSize - 1
      BY <1>n, <3>1
    <3> QED
      BY <3>1, <3>2
  <2>3. CASE id = "QUIT"
    <3>1. k = 1 /\ (Pushing \/ Asking) /\ Served = ScriptSize - 1
      BY <2>3 DEF NextRequest
    <3>2. Served + k = ScriptSize
      BY <1>n, <3>1
    <3> QED
      BY <1>8, <3>1, <3>2 DEF Asking
  <2> QED
    BY <2>1, <2>2, <2>3
<1>10. Follows(device.got, Served)'
  <2> SUFFICES ASSUME NEW i \in 1..(Len(device.got) - k)
               PROVE  Served + k + i <= ScriptSize /\ device'.got[i] = Word(Served + k + i)
    BY <1>1, <1>3, <1>7 DEF Follows
  <2>1. i + k \in 1..Len(device.got) /\ Served + (i + k) = Served + k + i
    BY <1>2
  <2>2. Served + (i + k) <= ScriptSize /\ device.got[i + k] = Word(Served + (i + k))
    BY <2>1 DEF Requested, Follows
  <2> QED
    BY <1>1, <2>1, <2>2
<1>11. TodoFollows'
  BY <1>1, <1>3, <1>4, <1>6 DEF Requested, TodoFollows, Follows
<1>12. Follows(sync.wire, Taken)'
  BY <1>1, <1>3, <1>6 DEF Requested, Follows
<1>13. Served' \in Nat
  BY <1>n, <1>7
<1> QED
  BY <1>1, <1>4, <1>5, <1>7, <1>9, <1>10, <1>11, <1>12, <1>13 DEF Requested

\* What arrives at the device is the next of the script.
LEMMA RequestedArrives ==
  ASSUME Typed, Placed, Requested, DeviceTakes
  PROVE  Requested' /\ Served' = Served
<1>1. /\ UNCHANGED <<op, source, work>> /\ sync'.wire = <<>> /\ device'.got = device.got \o sync.wire
  BY DeviceTakesDoes DEF DeviceSays
<1>2. /\ Len(sync.wire) \in Nat /\ Len(device.got) \in Nat /\ work.todo \in Seq(Seq(Token))
      /\ ScriptSize \in Nat /\ Planned \in Int /\ Pending \in Int /\ Sent \in Nat /\ Taken \in Nat /\ Served \in Nat
      /\ Sent = Planned - Pending /\ Taken = Sent - Len(sync.wire) /\ Served = Taken - Len(device.got)
      /\ sync.wire \in Seq(Token) /\ device.got \in Seq(Token)
  BY CountTypes
<1> DEFINE m == Len(device.got)
           n == Len(sync.wire)
<1>3. /\ Len(device'.got) = m + n /\ m \in Nat /\ n \in Nat
      /\ \A i \in 1..(m + n) : device'.got[i] = IF i <= m THEN device.got[i] ELSE sync.wire[i - m]
  <2>1. /\ Len(device.got \o sync.wire) = Len(device.got) + Len(sync.wire)
        /\ \A i \in 1..(Len(device.got) + Len(sync.wire)) :
             (device.got \o sync.wire)[i] = IF i <= Len(device.got) THEN device.got[i] ELSE sync.wire[i - Len(device.got)]
    BY <1>2, ConcatProperties
  <2> QED
    BY <1>1, <1>2, <2>1
<1>4. /\ ScriptSize' = ScriptSize /\ (Pushing' <=> Pushing) /\ \A j : Word(j)' = Word(j)
  BY <1>1, ScriptSame
<1>5. Planned' = Planned /\ (Bundled' <=> Bundled)
  BY <1>1, <1>4 DEF Planned, Bundled
<1>6. Pending' = Pending
  BY <1>1, <1>4, <1>5 DEF Pending
<1>7. Sent' = Sent
  BY <1>5, <1>6 DEF Sent
<1>8. Taken' = Sent
  <2>1. Taken' = Sent' - Len(sync'.wire) /\ Len(sync'.wire) = 0
    BY <1>1 DEF Taken
  <2> QED
    BY <1>2, <1>7, <2>1
<1> HIDE DEF Sent, Taken, Planned, Pending, Bundled, ScriptSize, Word, Pushing
<1>9. Served' = Served
  <2>1. Served' = Taken' - Len(device'.got)
    BY DEF Served
  <2> QED
    BY <1>2, <1>3, <1>8, <2>1
<1> HIDE DEF Served
<1>m. Taken = Served + m
  BY <1>2
<1>n. /\ \A i \in 1..m : Served + i <= ScriptSize /\ device.got[i] = Word(Served + i)
      /\ \A i \in 1..n : Taken + i <= ScriptSize /\ sync.wire[i] = Word(Taken + i)
  BY DEF Requested, Follows
<1> HIDE DEF m, n
<1>10. Follows(device.got, Served)'
  <2> SUFFICES ASSUME NEW i \in 1..(m + n)
               PROVE  Served + i <= ScriptSize /\ device'.got[i] = Word(Served + i)
    BY <1>3, <1>4, <1>9 DEF Follows
  <2>1. CASE i <= m
    BY <1>3, <1>n, <2>1
  <2>2. CASE ~(i <= m)
    <3>1. i - m \in 1..n /\ Taken + (i - m) = Served + i
      <4>1. Taken \in Nat /\ Served \in Nat /\ m \in Nat /\ n \in Nat
        BY <1>2, <1>3
      <4> QED
        BY <1>m, <2>2, <4>1
    <3>2. Taken + (i - m) <= ScriptSize /\ sync.wire[i - m] = Word(Taken + (i - m))
      BY <1>n, <3>1
    <3> QED
      BY <1>3, <2>2, <3>1, <3>2
  <2> QED
    BY <2>1, <2>2
<1>11. TodoFollows'
  BY <1>1, <1>4, <1>5, <1>7 DEF Requested, TodoFollows, Follows
<1>12. Follows(sync.wire, Taken)'
  <2>1. Len(sync'.wire) = 0 /\ 1..0 = {}
    BY <1>1
  <2> QED
    BY <2>1 DEF Follows
<1>13. Boundary(Served)'
  BY <1>4, <1>9 DEF Requested, Boundary
<1> QED
  BY <1>1, <1>2, <1>5, <1>6, <1>9, <1>10, <1>11, <1>12, <1>13 DEF Requested

\* All is written that was planned, and QUIT is the next.
LEMMA RequestedQuit ==
  ASSUME Typed, Placed, Requested, UNCHANGED <<op, source>>,
         sync'.wire = sync.wire, device'.got = device.got, sync'.canWrite = sync.canWrite,
         work.todo = <<>>, work'.then = "end", work'.todo = <<<<"QUIT">>>>,
         \/ work.then = "answer" /\ Pushing
         \/ work.then = "data" /\ op = "pull"
         \/ work.then = "rest" /\ op = "list"
  PROVE  Requested' /\ Served' = Served
<1>1. Sent = Planned
  BY AllWritten
<1>2. ScriptSize \in Nat /\ Sent \in Nat /\ ScriptSize' = ScriptSize
  BY CountTypes, ScriptSame
<1>3. Sent + 1 = ScriptSize /\ Word(ScriptSize) = "QUIT"
  <2>1. CASE work.then = "answer" /\ Pushing
    <3>1. Planned = ScriptSize - 1
      BY <2>1 DEF Planned
    <3>2. ScriptSize = 2 * Blocks + 4 /\ Word(2 * Blocks + 4) = "QUIT"
      BY <2>1, PushScript
    <3> QED
      BY <1>1, <1>2, <3>1, <3>2
  <2>2. CASE work.then = "data" /\ op = "pull"
    BY <1>1, <2>2, PullScript DEF Planned
  <2>3. CASE work.then = "rest" /\ op = "list"
    BY <1>1, <2>3, ListScript DEF Planned
  <2> QED
    BY <2>1, <2>2, <2>3
<1>4. Planned' = ScriptSize
  BY <1>2 DEF Planned
<1>5. ~Bundled'
  BY DEF Bundled
<1>6. work'.todo \in Seq(Seq(Token)) /\ Len(work'.todo) = 1 /\ Len(work'.todo[1]) = 1 /\ work'.todo[1][1] = "QUIT"
  <2>1. "QUIT" \in Words
    BY DEF Words
  <2> QED
    BY <2>1, SingleTokens
<1>7. \A i \in 1..Len(work'.todo) : Len(work'.todo[i]) = 1 /\ Sent + i <= ScriptSize /\ work'.todo[i][1] = Word(Sent + i)
  <2>1. \A i \in 1..Len(work'.todo) : i = 1
    BY <1>6
  <2> QED
    BY <1>2, <1>3, <1>6, <2>1
<1>8. Planned' \in Nat /\ Planned' = Sent + Len(work'.todo)
  BY <1>2, <1>3, <1>4, <1>6
<1> QED
  BY <1>5, <1>6, <1>7, <1>8, RequestedMore

\* An answer that is taken may extend the plan along the script.
LEMMA RequestedAnswer ==
  ASSUME Typed, Placed, Requested, NEW id \in Token, Takes(id)
  PROVE  Requested' /\ Served' = Served
<1>1. /\ UNCHANGED <<op, source>> /\ work.at = "wait" /\ work.todo = <<>>
      /\ sync'.wire = sync.wire /\ device'.got = device.got /\ sync'.canWrite = sync.canWrite
      /\ After(id).then # "throw" /\ work' = After(id)
  BY DEF Takes, Placed
<1>2. /\ work.then = "answer" => Pushing
      /\ work.then \in {"stat", "data", "block"} => op = "pull"
      /\ work.then \in {"entry", "name", "rest"} => op = "list"
  BY <1>1 DEF Placed, Thens, OnSync, Asking
<1>3. /\ work' \in WorkType
      /\ \/ /\ work.then \in {"answer", "data", "rest"}
            /\ work'.then = "end" /\ work'.todo = <<<<"QUIT">>>>
         \/ work.then = "stat" /\ work'.then = "data" /\ work'.todo = <<<<"RECV">>, <<"path">>>>
         \/ work'.todo = work.todo /\ work.then \in {"data", "block"} /\ work'.then \in {"data", "block"}
         \/ work'.todo = work.todo /\ work.then \in {"entry", "name"} /\ work'.then \in {"entry", "name", "rest"}
  BY <1>1, AfterDoes
<1>4. work'.todo \in Seq(Seq(Token)) /\ Sent = Planned
  BY <1>1, <1>3, AllWritten DEF WorkType
<1>5. CASE /\ work.then \in {"answer", "data", "rest"}
           /\ work'.then = "end" /\ work'.todo = <<<<"QUIT">>>>
  BY <1>1, <1>2, <1>5, RequestedQuit
<1>6. CASE work.then = "stat" /\ work'.then = "data" /\ work'.todo = <<<<"RECV">>, <<"path">>>>
  <2>1. Sent = 2 /\ Planned' = 4 /\ ~Bundled' /\ Len(work'.todo) = 2
    BY <1>4, <1>6 DEF Planned, Bundled
  <2>2. /\ ScriptSize = 5 /\ Word(3) = "RECV" /\ Word(4) = "path"
        /\ \A i \in 1..2 : i = 1 \/ i = 2
    BY <1>2, <1>6, PullScript
  <2>3. \A i \in 1..Len(work'.todo) : Len(work'.todo[i]) = 1 /\ Sent + i <= ScriptSize /\ work'.todo[i][1] = Word(Sent + i)
    <3>1. /\ Len(work'.todo[1]) = 1 /\ work'.todo[1][1] = "RECV"
          /\ Len(work'.todo[2]) = 1 /\ work'.todo[2][1] = "path"
      BY <1>6
    <3> QED
      BY <2>1, <2>2, <3>1
  <2>4. Planned' \in Nat /\ Planned' = Sent + Len(work'.todo)
    BY <2>1
  <2> QED
    BY <1>1, <1>4, <2>1, <2>3, <2>4, RequestedMore
<1>7. CASE /\ work'.todo = work.todo
           /\ \/ work.then \in {"data", "block"} /\ work'.then \in {"data", "block"}
              \/ work.then \in {"entry", "name"} /\ work'.then \in {"entry", "name", "rest"}
  <2>1. Planned' = Planned
    BY <1>7 DEF Planned
  <2>2. ~Bundled'
    BY <1>7 DEF Bundled
  <2>3. Len(work'.todo) = 0
    BY <1>1, <1>7
  <2>4. Planned' \in Nat /\ Planned' = Sent + Len(work'.todo)
    <3>1. Sent \in Nat
      BY CountTypes
    <3> QED
      BY <1>4, <2>1, <2>3, <3>1
  <2>5. \A i \in 1..Len(work'.todo) : FALSE
    BY <2>3
  <2> QED
    BY <1>1, <1>4, <2>2, <2>4, <2>5, RequestedMore
<1> QED
  BY <1>3, <1>5, <1>6, <1>7

\* The script is followed by every step, and only the device serves it.
LEMMA RequestedStep ==
  ASSUME Typed, Placed, Requested, [ServiceNext]_serviceVars
  PROVE  Requested' /\ (DeviceServes \/ Served' = Served)
<1>1. CASE Start
  <2>1. UNCHANGED <<sync, device>> /\ work'.then = work.then /\ work'.todo = work.todo /\ op = "none"
    BY <1>1, StartDoes DEF BeginsWith
  <2>2. work.then = "nothing"
    BY <2>1 DEF Placed, Thens, Pushing
  <2>3. work.todo = <<>> /\ sync.wire = <<>> /\ device.got = <<>> /\ Served = 0
    BY <2>2, NothingSent
  <2> QED
    BY <2>1, <2>2, <2>3, RequestedNothing
<1>2. CASE Opened
  BY <1>2, RequestedOpened
<1>3. CASE Write
  BY <1>3, RequestedWrite
<1>4. CASE \E id \in Token : Takes(id)
  BY <1>4, RequestedAnswer
<1>5. CASE DeviceTakes
  BY <1>5, RequestedArrives
<1>6. CASE DeviceServes
  <2>1. PICK id \in Words : NextRequest(id) /\ ServesWith(id, IF id \in {"DONE", "QUIT"} THEN 1 ELSE 2)
    BY <1>6, DeviceServesDoes
  <2>2. PICK k \in {1, 2} : k = (IF id \in {"DONE", "QUIT"} THEN 1 ELSE 2)
    OBVIOUS
  <2> QED
    BY <1>6, <2>1, <2>2, RequestedServes
<1>7. CASE ShellReturns \/ ShellThrows
  <2>1. CommandEnds /\ (Ended \/ Broken)
    BY <1>7, ShellReturnsDoes, ShellThrowsDoes
  <2>2. UNCHANGED <<op, source, sync, device>>
    BY <2>1 DEF CommandEnds
  <2>3. CASE work.stage = "probe"
    <3>1. work.then = "rest" /\ work.todo = <<>> /\ op = "list"
      BY <2>1, <2>3 DEF Placed, Ended, Broken, AtShell, Stages
    <3>2. work'.then = "end" /\ work'.todo = <<<<"QUIT">>>>
      BY <2>1, <2>3 DEF CommandEnds
    <3> QED
      BY <2>2, <3>1, <3>2, RequestedQuit
  <2>4. CASE work.stage # "probe"
    <3>1. work'.then = work.then /\ work'.todo = work.todo
      BY <2>1, <2>4 DEF CommandEnds
    <3> QED
      BY <2>2, <3>1, RequestedSame
  <2> QED
    BY <2>3, <2>4
<1>8. CASE \/ Written \/ ReadBegins \/ Probe \/ ShellOpened \/ FallsBack \/ ShellStarts \/ Fail \/ CloseBegins
           \/ CloseStreams \/ DeviceOpens \/ DeviceCloses \/ DeviceSends \/ DeviceStops \/ DeviceRuns
           \/ DevicePrints \/ Idle
  <2> SUFFICES /\ UNCHANGED <<op, source>> /\ work'.then = work.then /\ work'.todo = work.todo
               /\ sync'.wire = sync.wire /\ device'.got = device.got /\ sync'.canWrite = sync.canWrite
    BY RequestedSame
  <2>1. sync \in StreamType
    BY Types
  <2>2. /\ Closed(sync).wire = sync.wire /\ Closed(sync).canWrite = sync.canWrite
    BY <2>1, ClosedIs
  <2>3. CASE Written
    BY <2>2, <2>3, WrittenDoes
  <2>4. CASE ReadBegins \/ Probe \/ ShellOpened \/ FallsBack
    BY <2>4, MovesDo DEF MovesTo
  <2>5. CASE ShellStarts
    BY <2>5, MovesDo DEF MovesTo
  <2>6. CASE Fail
    BY <2>2, <2>6 DEF Fail, ThrowsWith
  <2>7. CASE CloseBegins \/ Idle
    BY <2>7 DEF CloseBegins, Idle, request, outcome
  <2>8. CASE CloseStreams
    BY <2>8, CloseStreamsDoes
  <2>9. CASE DeviceOpens \/ DeviceCloses
    BY <2>9, DeviceOpensDoes, DeviceClosesDoes DEF SyncSet, ShellSet
  <2>10. CASE DeviceSends \/ DeviceStops
    BY <2>10, DeviceSendsDoes, DeviceStopsDoes DEF DeviceSays
  <2>11. CASE DeviceRuns
    BY <2>11, DeviceRunsDoes DEF RunsWith
  <2>12. CASE DevicePrints
    BY <2>12, DevicePrintsDoes
  <2> QED
    BY <1>8, <2>3, <2>4, <2>5, <2>6, <2>7, <2>8, <2>9, <2>10, <2>11, <2>12
<1> QED
  BY Steps, <1>1, <1>2, <1>3, <1>4, <1>5, <1>6, <1>7, <1>8

-----------------------------------------------------------------------------
(* What the device says, and what it has stored.                           *)

\* A service that has not begun is fresh.
LEMMA FreshInit == ServiceInit => Fresh
  BY DEF ServiceInit, Fresh, NoStream

\* The steps that neither serve a request nor hand on an answer nor take one.
Quiet ==
  \/ Opened \/ Write \/ Written \/ ReadBegins \/ Probe \/ ShellOpened \/ FallsBack \/ ShellStarts \/ Fail
  \/ ShellReturns \/ ShellThrows \/ CloseBegins \/ CloseStreams \/ DeviceOpens \/ DeviceCloses \/ DeviceTakes
  \/ DevicePrints \/ Idle

\* Quiet steps hand on nothing.
LEMMA QuietDoes ==
  ASSUME Typed, Placed, Quiet
  PROVE  /\ UNCHANGED <<op, source>>
         /\ device'.out = device.out /\ device'.file = device.file
         /\ device'.stored = device.stored /\ device'.failed = device.failed
         /\ sync.closed => sync'.closed
         /\ sync'.buffer = sync.buffer \/ (sync'.buffer = <<>> /\ sync'.closed)
         /\ local' = local \/ Fail
<1>0. sync \in StreamType
  BY Types
<1>1. /\ Closed(sync).closed = TRUE /\ Closed(sync).buffer = <<>>
  BY <1>0, ClosedIs
<1>2. CASE Opened
  BY <1>2, OpenedDoes
<1>3. CASE Write
  BY <1>3, WriteDoes
<1>4. CASE Written
  BY <1>1, <1>4, WrittenDoes
<1>5. CASE ReadBegins \/ Probe \/ ShellOpened \/ FallsBack
  BY <1>5, MovesDo DEF MovesTo
<1>6. CASE ShellStarts
  BY <1>6, MovesDo DEF MovesTo
<1>7. CASE Fail
  BY <1>1, <1>7 DEF Fail, ThrowsWith
<1>8. CASE ShellReturns \/ ShellThrows
  BY <1>8, ShellReturnsDoes, ShellThrowsDoes DEF CommandEnds
<1>9. CASE CloseBegins \/ Idle
  BY <1>9 DEF CloseBegins, Idle, request, outcome
<1>10. CASE CloseStreams
  BY <1>10, CloseStreamsDoes
<1>11. CASE DeviceOpens
  <2>1. UNCHANGED <<op, source, local, device>> /\ sync'.buffer = sync.buffer
    BY <1>11, DeviceOpensDoes DEF SyncSet, ShellSet
  <2>2. ~sync.closed \/ UNCHANGED sync
    BY <1>11 DEF DeviceOpens
  <2> QED
    BY <2>1, <2>2
<1>12. CASE DeviceCloses
  <2>1. UNCHANGED <<op, source, local, device>> /\ (SyncSet(sync.open, TRUE) \/ ShellSet(shell.open, TRUE))
    BY <1>12, DeviceClosesDoes
  <2> QED
    BY <2>1 DEF SyncSet, ShellSet
<1>13. CASE DeviceTakes
  BY <1>13, DeviceTakesDoes DEF DeviceSays
<1>14. CASE DevicePrints
  BY <1>14, DevicePrintsDoes
<1> QED
  BY <1>2, <1>3, <1>4, <1>5, <1>6, <1>7, <1>8, <1>9, <1>10, <1>11, <1>12, <1>13, <1>14 DEF Quiet

\* The other steps that may do so.
LEMMA LoudOrQuiet ==
  ASSUME Typed, Placed, [ServiceNext]_serviceVars
  PROVE  Quiet \/ Start \/ (\E id \in Token : Takes(id)) \/ DeviceServes \/ DeviceSends \/ DeviceStops \/ DeviceRuns
  BY Steps DEF Quiet

\* Before an operation starts, nothing makes the service talk.
LEMMA FreshStep ==
  ASSUME Typed, Placed, Requested, Left, Fresh, [ServiceNext]_serviceVars
  PROVE  Fresh'
<1> SUFFICES ASSUME op' = "none"
             PROVE  sync'.buffer = <<>> /\ device'.out = <<>> /\ ~device'.stored /\ local' = <<"old">>
  BY DEF Fresh
<1>1. CASE Start
  BY <1>1, StartDoes DEF BeginsWith
<1>2. CASE ~Start
  <2>1. op = "none" => work.at = "idle" /\ ~Pushing /\ ~Asking
    BY DEF Placed, Pushing, Asking
  <2>2. CASE Quiet
    BY <2>1, <2>2, QuietDoes DEF Fresh, Fail, OnSync
  <2>3. CASE \E id \in Token : Takes(id)
    BY <2>1, <2>3 DEF Takes
  <2>4. CASE DeviceServes
    <3>1. PICK id \in Words : NextRequest(id) /\ ServesWith(id, IF id \in {"DONE", "QUIT"} THEN 1 ELSE 2)
      BY <2>4, DeviceServesDoes
    <3> QED
      BY <2>1, <3>1 DEF NextRequest, ServesWith, Pushing, Asking
  <2>5. CASE DeviceSends
    BY <2>1, <2>5, DeviceSendsDoes DEF Left
  <2>6. CASE DeviceStops
    BY <2>1, <2>6, DeviceStopsDoes DEF Fresh
  <2>7. CASE DeviceRuns
    BY <2>7, DeviceRunsDoes DEF RunsWith, Fresh
  <2> QED
    BY <1>2, LoudOrQuiet, <2>2, <2>3, <2>4, <2>5, <2>6, <2>7
<1> QED
  BY <1>1, <1>2

\* Before it starts, nothing is stored.
LEMMA StoredInit == ServiceInit => Stored
  BY DEF ServiceInit, Stored, Pushing

\* Neither the file nor what is known of it changes.
LEMMA StoredSame ==
  ASSUME Stored, UNCHANGED <<op, source>>, Served' = Served, device'.stored = device.stored,
         device.failed => device'.failed, op = "push" => device'.file = device.file,
         Pushing /\ work'.then = "end" => work.then = "end" \/ device.stored,
         Pushing => \A i \in 1..Len(sync'.buffer) : sync'.buffer[i] = "OKAY" => device.stored,
         Pushing => \A i \in 1..Len(device'.out) : device'.out[i] = "OKAY" => device.stored
  PROVE  Stored'
<1>1. /\ Whole' = Whole /\ Blocks' = Blocks /\ ScriptSize' = ScriptSize /\ (Pushing' <=> Pushing)
  BY ScriptSame
<1>2. Kept' = Kept
  BY <1>1 DEF Kept
<1> SUFFICES ASSUME Pushing PROVE Stored'
  BY <1>1 DEF Stored
<1> HIDE DEF Kept, Served, ScriptSize, Whole, Blocks, Pushing
<1>3. Okays(sync.buffer)' /\ Okays(device.out)'
  BY DEF Okays
<1>4. (work'.then = "end" => device'.stored) /\ (device'.stored => Served' >= ScriptSize' - 1)
  BY <1>1 DEF Stored
<1>5. op' = "push" /\ Served' >= 2 /\ (~device'.failed \/ device'.stored) =>
        Len(device'.file) = Kept' /\ \A i \in 1..Kept' : device'.file[i] = Whole'[i]
  BY <1>1, <1>2 DEF Stored
<1> QED
  BY <1>1, <1>3, <1>4, <1>5 DEF Stored

\* A push starts with nothing stored and nothing acknowledged.
LEMMA StoredStart ==
  ASSUME Typed, Placed, Requested, Fresh, Start
  PROVE  Stored'
<1> SUFFICES ASSUME Pushing' PROVE Stored'
  BY DEF Stored
<1>1. op = "none" /\ UNCHANGED <<sync, device>> /\ work'.then = work.then /\ work'.todo = work.todo
  BY StartDoes DEF BeginsWith
<1>2. work.then = "nothing" /\ sync.buffer = <<>> /\ device.out = <<>> /\ ~device.stored
  BY <1>1 DEF Placed, Thens, Pushing, Fresh
<1>3. work.todo = <<>> /\ sync.wire = <<>> /\ device.got = <<>>
  BY <1>2, NothingSent
<1>4. Served' = 0
  BY <1>1, <1>2, <1>3, RequestedNothing
<1>5. Okays(sync.buffer)' /\ Okays(device.out)'
  BY <1>1, <1>2 DEF Okays
<1>6. ~(Served' >= 2)
  BY <1>4
<1> QED
  BY <1>1, <1>2, <1>5, <1>6 DEF Stored

\* A served request of a push leaves the blocks served so far in the file, in order.
LEMMA StoredServes ==
  ASSUME Typed, Placed, Requested, Stored, Pushing, NEW id, NextRequest(id), NEW k \in {1, 2},
         k = (IF id \in {"DONE", "QUIT"} THEN 1 ELSE 2), ServesWith(id, k)
  PROVE  Stored'
<1>1. UNCHANGED <<op, source, work, sync>> /\ ~device.failed /\ device.out = <<>> /\ device'.file \in Seq(Token)
      /\ device \in DeviceType /\ device.file \in Seq(Token) /\ device.stored \in BOOLEAN
  BY Types DEF ServesWith, DeviceType
<1>2. /\ Whole' = Whole /\ Blocks' = Blocks /\ ScriptSize' = ScriptSize /\ (Pushing' <=> Pushing)
  BY <1>1, ScriptSame
<1>3. Served \in Nat /\ Served' = Served + k
  BY CountTypes, RequestedServes
<1>4. Blocks \in Nat \ {0} /\ ScriptSize = 2 * Blocks + 4
  BY PushScript
<1>5. /\ \A i \in 1..Len(sync.buffer) : sync.buffer[i] = "OKAY" => device.stored
      /\ work.then = "end" => device.stored
      /\ device.stored => Served >= ScriptSize - 1
      /\ op = "push" /\ Served >= 2 => Len(device.file) = Kept /\ \A i \in 1..Kept : device.file[i] = Whole[i]
  BY <1>1 DEF Stored, Okays
<1>6. Kept = IF Served >= 2 * Blocks + 3 THEN Blocks ELSE (Served - 2) \div 2
  <2>1. Served >= ScriptSize - 1 <=> Served >= 2 * Blocks + 3
    BY <1>3, <1>4
  <2> QED
    BY <2>1 DEF Kept
<1>7. Kept' = IF Served + k >= 2 * Blocks + 3 THEN Blocks ELSE (Served + k - 2) \div 2
  <2>1. Served' >= ScriptSize' - 1 <=> Served + k >= 2 * Blocks + 3
    BY <1>2, <1>3, <1>4
  <2> QED
    BY <1>2, <1>3, <2>1 DEF Kept
<1>8. \/ id = "SEND" /\ Served = 0
      \/ id = "DATA" /\ Served \in 2..(2 * Blocks) /\ Served % 2 = 0
      \/ id = "DONE" /\ Served = 2 * Blocks + 2
      \/ id = "QUIT" /\ Served = 2 * Blocks + 3
  <2>1. 2 * Blocks + 4 - 4 = 2 * Blocks /\ 2 * Blocks + 4 - 2 = 2 * Blocks + 2 /\ 2 * Blocks + 4 - 1 = 2 * Blocks + 3
    BY <1>4
  <2> QED
    BY <1>4, <2>1 DEF NextRequest, Pushing
<1> HIDE DEF Kept, Served, ScriptSize, Whole, Blocks, Pushing
\* What is to be shown of the state after: answers, the mark, and the file.
<1>9. SUFFICES /\ \A i \in 1..Len(device'.out) : device'.out[i] = "OKAY" => device'.stored
               /\ device.stored => device'.stored
               /\ device'.stored => Served + k >= 2 * Blocks + 3
               /\ op = "push" /\ Served + k >= 2 /\ (~device'.failed \/ device'.stored) =>
                    Len(device'.file) = Kept' /\ \A i \in 1..Kept' : device'.file[i] = Whole[i]
  <2>1. Served' >= ScriptSize' - 1 <=> Served + k >= 2 * Blocks + 3
    BY <1>2, <1>3, <1>4
  <2>2. Okays(sync.buffer)' /\ Okays(device.out)'
    BY <1>1, <1>5, <1>9 DEF Okays
  <2>3. (work'.then = "end" => device'.stored) /\ (device'.stored => Served' >= ScriptSize' - 1)
    BY <1>1, <1>5, <1>9, <2>1
  <2>4. op' = "push" /\ Served' >= 2 /\ (~device'.failed \/ device'.stored) =>
          Len(device'.file) = Kept' /\ \A i \in 1..Kept' : device'.file[i] = Whole'[i]
    BY <1>1, <1>2, <1>3, <1>9
  <2> QED
    BY <2>2, <2>3, <2>4 DEF Stored
<1>10. CASE id = "SEND"
  <2>1. device'.file = <<>> /\ device'.stored = FALSE /\ device'.out = <<>> /\ Served = 0 /\ k = 2
    BY <1>8, <1>10 DEF ServesWith
  <2>2. ~device.stored
    BY <1>4, <1>5, <2>1
  <2>3. Kept' = 0
    <3>1. ~(2 >= 2 * Blocks + 3) /\ (0 + 2 - 2) \div 2 = 0
      BY <1>4, SMT
    <3> QED
      BY <1>7, <2>1, <3>1
  <2>4. Len(<<>>) = 0 /\ 1..0 = {}
    BY SMT
  <2> QED
    BY <2>1, <2>2, <2>3, <2>4
<1>11. CASE id = "DATA"
  <2>1. /\ Served \in 2..(2 * Blocks) /\ Served % 2 = 0 /\ k = 2 /\ device'.stored = device.stored
        /\ \/ device'.file = Append(device.file, Whole[Served \div 2]) /\ device'.out = <<>>
           \/ device'.out = <<"FAIL">> /\ device'.failed = TRUE
    BY <1>8, <1>11 DEF ServesWith
  <2>2. ~device.stored
    BY <1>4, <1>5, <2>1
  <2>3. \A i \in 1..Len(device'.out) : device'.out[i] # "OKAY"
    BY <2>1
  <2>4. Kept = (Served \div 2) - 1 /\ Kept' = Served \div 2 /\ Kept \in Nat /\ Served \div 2 = Kept + 1
    <3>1. /\ ~(Served >= 2 * Blocks + 3) /\ ~(Served + 2 >= 2 * Blocks + 3) /\ Served \in Nat /\ Served >= 2
      BY <1>3, <1>4, <2>1
    <3>2. (Served - 2) \div 2 = (Served \div 2) - 1 /\ (Served + 2 - 2) \div 2 = Served \div 2 /\ (Served \div 2) \in Nat \ {0}
      BY <3>1, SMT
    <3>3. Kept = (Served \div 2) - 1 /\ Kept' = Served \div 2
      BY <1>6, <1>7, <2>1, <3>1, <3>2
    <3> QED
      BY <3>2, <3>3
  <2>5. ASSUME op = "push", ~device'.failed
        PROVE  Len(device'.file) = Kept' /\ \A i \in 1..Kept' : device'.file[i] = Whole[i]
    <3>1. /\ device'.file = Append(device.file, Whole[Kept + 1]) /\ device'.file \in Seq(Token)
          /\ Len(device.file) = Kept /\ \A i \in 1..Kept : device.file[i] = Whole[i]
      BY <1>1, <1>5, <2>1, <2>4, <2>5
    <3>2. /\ Len(Append(device.file, Whole[Kept + 1])) = Kept + 1
          /\ \A i \in 1..Kept : Append(device.file, Whole[Kept + 1])[i] = device.file[i]
          /\ Append(device.file, Whole[Kept + 1])[Kept + 1] = Whole[Kept + 1]
      BY <1>1, <3>1, AppendProperties
    <3>3. \A i \in 1..(Kept + 1) : i \in 1..Kept \/ i = Kept + 1
      BY <2>4
    <3> QED
      BY <2>4, <3>1, <3>2, <3>3
  <2> QED
    BY <2>1, <2>2, <2>3, <2>5
<1>12. CASE id \in {"DONE", "QUIT"}
  <2>1. /\ Served \in {2 * Blocks + 2, 2 * Blocks + 3} /\ k = 1 /\ device'.file = device.file
    BY <1>8, <1>12 DEF ServesWith
  <2>2. /\ Served + k >= 2 * Blocks + 3 /\ Served + k >= 2 /\ Served >= 2
    BY <1>3, <1>4, <2>1
  <2>3. Kept = Blocks /\ Kept' = Blocks
    <3>1. (2 * Blocks + 2 - 2) \div 2 = Blocks
      BY <1>4, SMT
    <3> QED
      BY <1>4, <1>6, <1>7, <2>1, <2>2, <3>1
  <2>4. op = "push" => Len(device'.file) = Kept' /\ \A i \in 1..Kept' : device'.file[i] = Whole[i]
    BY <1>5, <2>1, <2>2, <2>3
  <2>5. device.stored => device'.stored
    BY <1>12 DEF ServesWith
  <2>6. \A i \in 1..Len(device'.out) : device'.out[i] = "OKAY" => device'.stored
    <3>1. device'.out = <<>> \/ device'.out = <<"FAIL">> \/ (device'.out = <<"OKAY">> /\ device'.stored)
      BY <1>12 DEF ServesWith
    <3> QED
      BY <3>1
  <2> QED
    BY <2>2, <2>4, <2>5, <2>6
<1> QED
  BY <1>8, <1>10, <1>11, <1>12

\* The file of the device is what was served of the push, by every step.
LEMMA StoredStep ==
  ASSUME Typed, Placed, Requested, Fresh, Stored, [ServiceNext]_serviceVars
  PROVE  Stored'
<1>0. /\ sync \in StreamType /\ device \in DeviceType /\ sync.buffer \in Seq(Token) /\ device.out \in Seq(Token)
      /\ Served \in Nat
  BY Types, CountTypes DEF StreamType, DeviceType
<1>1. Requested' /\ (DeviceServes \/ Served' = Served)
  BY RequestedStep
<1>2. Pushing => /\ \A i \in 1..Len(sync.buffer) : sync.buffer[i] = "OKAY" => device.stored
                 /\ \A i \in 1..Len(device.out) : device.out[i] = "OKAY" => device.stored
  BY DEF Stored, Okays
<1>3. CASE Start
  BY <1>3, StoredStart
<1>4. CASE DeviceServes
  <2>1. PICK id \in Words : NextRequest(id) /\ ServesWith(id, IF id \in {"DONE", "QUIT"} THEN 1 ELSE 2)
    BY <1>4, DeviceServesDoes
  <2>2. PICK k \in {1, 2} : k = (IF id \in {"DONE", "QUIT"} THEN 1 ELSE 2)
    OBVIOUS
  <2>3. CASE Pushing
    BY <2>1, <2>2, <2>3, StoredServes
  <2>4. CASE ~Pushing
    BY <2>1, <2>4 DEF ServesWith, Stored, Pushing
  <2> QED
    BY <2>3, <2>4
<1>5. CASE ~DeviceServes /\ Quiet
  <2>1. /\ UNCHANGED <<op, source>> /\ Served' = Served
        /\ device'.out = device.out /\ device'.file = device.file
        /\ device'.stored = device.stored /\ device'.failed = device.failed
        /\ sync'.buffer = sync.buffer \/ sync'.buffer = <<>>
    BY <1>1, <1>5, QuietDoes
  <2>2. Pushing /\ work'.then = "end" => work.then = "end"
    <3>1. CASE ShellReturns \/ ShellThrows
      <4>1. CommandEnds
        BY <3>1, ShellReturnsDoes, ShellThrowsDoes
      <4>2. Pushing => work.stage # "probe"
        BY DEF Placed, Stages, Pushing
      <4> QED
        BY <4>1, <4>2 DEF CommandEnds
    <3>2. CASE Opened
      BY <3>2, OpenedDoes
    <3>3. CASE Write
      BY <3>3, WriteDoes
    <3>4. CASE Written
      BY <3>4, WrittenDoes
    <3>5. CASE ReadBegins \/ Probe \/ ShellOpened \/ FallsBack \/ ShellStarts
      BY <3>5, MovesDo DEF MovesTo
    <3>6. CASE Fail
      BY <3>6 DEF Fail, ThrowsWith
    <3>7. CASE CloseBegins \/ CloseStreams \/ DeviceOpens \/ DeviceCloses \/ DeviceTakes \/ DevicePrints
               \/ Idle
      BY <3>7, Elsewhere
    <3> QED
      BY <1>5, <3>1, <3>2, <3>3, <3>4, <3>5, <3>6, <3>7 DEF Quiet
  <2>3. Pushing => \A i \in 1..Len(sync'.buffer) : sync'.buffer[i] = "OKAY" => device.stored
    BY <1>2, <2>1
  <2>4. Pushing => \A i \in 1..Len(device'.out) : device'.out[i] = "OKAY" => device.stored
    BY <1>2, <2>1
  <2> QED
    BY <2>1, <2>2, <2>3, <2>4, StoredSame
<1>6. CASE ~DeviceServes /\ \E id \in Token : Takes(id)
  <2>1. PICK id \in Token : Takes(id)
    BY <1>6
  <2>2. /\ UNCHANGED <<op, source, device>> /\ sync'.buffer = Tail(sync.buffer) /\ sync.buffer # <<>>
        /\ id = sync.buffer[1] /\ After(id).then # "throw" /\ work' = After(id) /\ work.at = "wait"
    BY <2>1 DEF Takes
  <2>3. /\ Len(sync.buffer) \in Nat \ {0} /\ Len(Tail(sync.buffer)) = Len(sync.buffer) - 1
        /\ \A i \in 1..(Len(sync.buffer) - 1) : Tail(sync.buffer)[i] = sync.buffer[i + 1]
    BY <1>0, <2>2, Tails
  <2>4. Pushing => \A i \in 1..Len(sync'.buffer) : sync'.buffer[i] = "OKAY" => device.stored
    <3>1. \A i \in 1..(Len(sync.buffer) - 1) : i + 1 \in 1..Len(sync.buffer)
      BY <2>3
    <3> QED
      BY <1>2, <2>2, <2>3, <3>1
  <2>5. Pushing /\ work'.then = "end" => device.stored
    <3>1. Pushing => work.then = "answer"
      <4>1. Pushing => work.then \in {"nothing", "answer", "end"}
        BY DEF Placed, Thens, Pushing
      <4> QED
        BY <2>2, <4>1 DEF Placed, OnSync
    <3>2. work.then = "answer" => id = "OKAY"
      BY <2>2, AfterDoes
    <3>3. 1 \in 1..Len(sync.buffer)
      BY <2>3
    <3> QED
      BY <1>2, <2>2, <3>1, <3>2, <3>3
  <2> QED
    BY <1>1, <1>2, <1>6, <2>2, <2>4, <2>5, StoredSame
<1>7. CASE ~DeviceServes /\ DeviceSends
  <2>1. /\ UNCHANGED <<op, source, work>> /\ device.out # <<>>
        /\ sync'.buffer = (IF sync.closed THEN sync.buffer ELSE Append(sync.buffer, device.out[1]))
        /\ DeviceSays(device.got, Tail(device.out), device.failed)
    BY <1>7, DeviceSendsDoes
  <2>2. /\ Len(device.out) \in Nat \ {0} /\ Len(Tail(device.out)) = Len(device.out) - 1
        /\ \A i \in 1..(Len(device.out) - 1) : Tail(device.out)[i] = device.out[i + 1]
    BY <1>0, <2>1, Tails
  <2>3. Pushing => \A i \in 1..Len(device'.out) : device'.out[i] = "OKAY" => device.stored
    <3>1. \A i \in 1..(Len(device.out) - 1) : i + 1 \in 1..Len(device.out)
      BY <2>2
    <3>2. device'.out = Tail(device.out)
      BY <2>1 DEF DeviceSays
    <3> QED
      BY <1>2, <2>2, <3>1, <3>2
  <2>4. Pushing => \A i \in 1..Len(sync'.buffer) : sync'.buffer[i] = "OKAY" => device.stored
    <3>1. CASE sync.closed
      BY <1>2, <2>1, <3>1
    <3>2. CASE ~sync.closed
      <4>1. /\ Len(sync'.buffer) = Len(sync.buffer) + 1 /\ Len(sync.buffer) \in Nat
            /\ \A i \in 1..Len(sync.buffer) : sync'.buffer[i] = sync.buffer[i]
            /\ sync'.buffer[Len(sync.buffer) + 1] = device.out[1]
        <5>1. device.out[1] \in Token
          BY <1>0, <2>1, Tails
        <5> QED
          BY <1>0, <2>1, <3>2, <5>1, AppendProperties, LenProperties
      <4>2. \A i \in 1..Len(sync'.buffer) : i \in 1..Len(sync.buffer) \/ i = Len(sync.buffer) + 1
        BY <4>1
      <4>3. 1 \in 1..Len(device.out)
        BY <2>2
      <4> QED
        BY <1>2, <4>1, <4>2, <4>3
    <3> QED
      BY <3>1, <3>2
  <2> QED
    BY <1>1, <1>7, <2>1, <2>3, <2>4, StoredSame DEF DeviceSays
<1>8. CASE ~DeviceServes /\ DeviceStops
  <2>1. work.then \in {"data", "block"} /\ UNCHANGED op
    BY <1>8, DeviceStopsDoes
  <2>2. Pushing => work.then \in {"nothing", "answer", "end"}
    BY DEF Placed, Thens, Pushing
  <2> QED
    BY <2>1, <2>2 DEF Stored, Pushing
<1>9. CASE ~DeviceServes /\ DeviceRuns
  <2>1. (\E ok \in BOOLEAN : RunsWith(ok)) /\ UNCHANGED <<op, source, work, sync>>
    BY <1>9, DeviceRunsDoes
  <2>2. op = "push" => work.stage # "rm"
    BY DEF Placed, Stages, Pushing
  <2>3. /\ device'.stored = device.stored /\ device'.failed = device.failed /\ device'.out = device.out
        /\ op = "push" => device'.file = device.file
    BY <2>1, <2>2 DEF RunsWith
  <2> QED
    BY <1>1, <1>2, <1>9, <2>1, <2>3, StoredSame
<1> QED
  BY LoudOrQuiet, <1>3, <1>4, <1>5, <1>6, <1>7, <1>8, <1>9

-----------------------------------------------------------------------------
(* The answers to a pull and to a listing.                                 *)

\* Before it starts, nothing is answered.
LEMMA AnsweredInit == ServiceInit => Answered
  BY DEF ServiceInit, Answered, Asking

\* What the device has to say fits, element by element.
LEMMA AnswerMade ==
  /\ op = "pull" => \A i \in 1..Len(Pairs("DATA", Content) \o <<"DONE">>) : Fits((Pairs("DATA", Content) \o <<"DONE">>)[i], i)
  /\ op = "list" => \A i \in 1..Len(Pairs("DENT", Content) \o <<"DONE", "zeros">>) :
                      Fits((Pairs("DENT", Content) \o <<"DONE", "zeros">>)[i], i)
  /\ Fits("FAIL", 1)
<1> DEFINE n == Len(Content)
<1>1. Content \in Seq(Token) /\ n \in Nat \ {0}
  BY ContentBlocks, WordTokens, SeqMonotonic
<1>2. /\ "DATA" \in Token /\ "DENT" \in Token
      /\ <<"DONE">> \in Seq(Token) /\ <<"DONE", "zeros">> \in Seq(Token)
  <2>1. "DATA" \in Words /\ "DENT" \in Words /\ "DONE" \in Words /\ "zeros" \in Words
    BY DEF Words
  <2> QED
    BY <2>1, SingleTokens
<1>3. ASSUME NEW id \in {"DATA", "DENT"}
      PROVE  /\ Pairs(id, Content) \in Seq(Token) /\ Len(Pairs(id, Content)) = 2 * n
             /\ \A i \in 1..(2 * n) : Pairs(id, Content)[i] = IF i % 2 = 1 THEN id ELSE Content[i \div 2]
  <2>1. id \in Token
    BY <1>2
  <2> QED
    BY <1>1, <2>1, PairsMade
<1> HIDE DEF n
<1>4. 2 * n \in Nat
  BY <1>1
<1>5. ASSUME op = "pull"
      PROVE  \A i \in 1..Len(Pairs("DATA", Content) \o <<"DONE">>) : Fits((Pairs("DATA", Content) \o <<"DONE">>)[i], i)
  <2> DEFINE P == Pairs("DATA", Content)
             L == <<"DONE">>
             A == P \o L
  <2>1. /\ P \in Seq(Token) /\ Len(P) = 2 * n /\ L \in Seq(Token) /\ Len(L) = 1 /\ L[1] = "DONE"
        /\ \A i \in 1..(2 * n) : P[i] = IF i % 2 = 1 THEN "DATA" ELSE Content[i \div 2]
    BY <1>2, <1>3
  <2> HIDE DEF P, L
  <2>2. Len(A) = Len(P) + Len(L) /\ \A i \in 1..(Len(P) + Len(L)) : A[i] = IF i <= Len(P) THEN P[i] ELSE L[i - Len(P)]
    BY <2>1, ConcatProperties
  <2> HIDE DEF A
  <2>3. Len(A) = 2 * n + 1 /\ \A i \in 1..(2 * n + 1) : A[i] = IF i <= 2 * n THEN P[i] ELSE L[i - 2 * n]
    BY <1>4, <2>1, <2>2
  <2>4. AnswerSize = 2 * n + 1
    BY <1>5 DEF AnswerSize, n
  <2>5. ASSUME NEW i \in 1..(2 * n + 1) PROVE Fits(A[i], i)
    <3>1. CASE i <= 2 * n
      <4>1. i \in 1..(2 * n) /\ i % 2 \in {0, 1}
        BY <1>4, <3>1, SMT
      <4>2. A[i] = IF i % 2 = 1 THEN "DATA" ELSE Content[i \div 2]
        BY <2>1, <2>3, <3>1, <4>1
      <4>3. Answer(i) = IF i % 2 = 1 THEN "DATA" ELSE Content[i \div 2]
        BY <1>4, <1>5, <3>1, <4>1 DEF Answer, n
      <4>4. i <= AnswerSize
        BY <2>4
      <4> QED
        BY <4>2, <4>3, <4>4 DEF Fits
    <3>2. CASE i = 2 * n + 1
      <4>1. A[i] = "DONE" /\ i - 2 * n = 1 /\ ~(i <= 2 * n) /\ i # 2 * n + 2
        BY <1>4, <2>1, <2>3, <3>2
      <4>2. Answer(i) = "DONE"
        BY <3>2, <4>1 DEF Answer, n
      <4> QED
        BY <2>4, <3>2, <4>1, <4>2 DEF Fits
    <3> QED
      BY <1>4, <3>1, <3>2
  <2> QED
    BY <2>3, <2>5 DEF A, P, L
<1>6. ASSUME op = "list"
      PROVE  \A i \in 1..Len(Pairs("DENT", Content) \o <<"DONE", "zeros">>) :
               Fits((Pairs("DENT", Content) \o <<"DONE", "zeros">>)[i], i)
  <2> DEFINE P == Pairs("DENT", Content)
             L == <<"DONE", "zeros">>
             A == P \o L
  <2>1. /\ P \in Seq(Token) /\ Len(P) = 2 * n /\ L \in Seq(Token) /\ Len(L) = 2 /\ L[1] = "DONE" /\ L[2] = "zeros"
        /\ \A i \in 1..(2 * n) : P[i] = IF i % 2 = 1 THEN "DENT" ELSE Content[i \div 2]
    BY <1>2, <1>3
  <2> HIDE DEF P, L
  <2>2. Len(A) = Len(P) + Len(L) /\ \A i \in 1..(Len(P) + Len(L)) : A[i] = IF i <= Len(P) THEN P[i] ELSE L[i - Len(P)]
    BY <2>1, ConcatProperties
  <2> HIDE DEF A
  <2>3. Len(A) = 2 * n + 2 /\ \A i \in 1..(2 * n + 2) : A[i] = IF i <= 2 * n THEN P[i] ELSE L[i - 2 * n]
    BY <1>4, <2>1, <2>2
  <2>4. AnswerSize = 2 * n + 2
    BY <1>6 DEF AnswerSize, n
  <2>5. ASSUME NEW i \in 1..(2 * n + 2) PROVE Fits(A[i], i)
    <3>1. CASE i <= 2 * n
      <4>1. i \in 1..(2 * n) /\ i % 2 \in {0, 1}
        BY <1>4, <3>1, SMT
      <4>2. A[i] = IF i % 2 = 1 THEN "DENT" ELSE Content[i \div 2]
        BY <2>1, <2>3, <3>1, <4>1
      <4>3. Answer(i) = IF i % 2 = 1 THEN "DENT" ELSE Content[i \div 2]
        BY <1>4, <1>6, <3>1, <4>1 DEF Answer, n
      <4>4. i <= AnswerSize
        BY <2>4
      <4> QED
        BY <4>2, <4>3, <4>4 DEF Fits
    <3>2. CASE i = 2 * n + 1
      <4>1. A[i] = "DONE" /\ i - 2 * n = 1 /\ ~(i <= 2 * n) /\ i # 2 * n + 2
        BY <1>4, <2>1, <2>3, <3>2
      <4>2. Answer(i) = "DONE"
        BY <3>2, <4>1 DEF Answer, n
      <4>3. i <= AnswerSize
        BY <2>4
      <4> QED
        BY <4>1, <4>2, <4>3 DEF Fits
    <3>3. CASE i = 2 * n + 2
      <4>1. A[i] = "zeros" /\ i - 2 * n = 2 /\ ~(i <= 2 * n) /\ i # 2 * n + 1
        BY <1>4, <2>1, <2>3, <3>3
      <4>2. Answer(i) = "zeros"
        BY <3>3, <4>1 DEF Answer, n
      <4>3. i <= AnswerSize
        BY <2>4
      <4> QED
        BY <4>1, <4>2, <4>3 DEF Fits
    <3> QED
      BY <1>4, <3>1, <3>2, <3>3
  <2> QED
    BY <2>3, <2>5 DEF A, P, L
<1>7. Fits("FAIL", 1)
  <2>1. 1 <= AnswerSize /\ 1 % 2 = 1
    BY <1>1, SMT DEF AnswerSize, n
  <2> QED
    BY <2>1 DEF Fits
<1> QED
  BY <1>5, <1>6, <1>7

\* What Receiving asks of the next state.
LEMMA ReceivingKept ==
  ASSUME UNCHANGED op, Len(local') <= Len(Content), \A i \in 1..Len(local') : local'[i] = Content[i],
         work'.then \in {"block", "name"} => Len(local') < Len(Content),
         \A i \in 1..Len(sync'.buffer) : Fits(sync'.buffer[i], Position' + i),
         ~sync'.closed => \A i \in 1..Len(device'.out) : Fits(device'.out[i], Position' + Len(sync'.buffer) + i)
  PROVE  Receiving'
<1>1. AnswerSize' = AnswerSize
  BY DEF AnswerSize
<1>2. ASSUME NEW i PROVE Answer(i)' = Answer(i)
  BY DEF Answer
<1> HIDE DEF Position, Answer, AnswerSize
<1>3. \A i \in 1..Len(sync'.buffer) : Fits(sync.buffer[i], Position + i)'
  BY <1>1, <1>2 DEF Fits
<1>4. ~sync'.closed => \A i \in 1..Len(device'.out) : Fits(device.out[i], Position + Len(sync.buffer) + i)'
  BY <1>1, <1>2 DEF Fits
<1> QED
  BY <1>3, <1>4 DEF Receiving

\* Nothing of the answers changes, or the stream is closed and they are dropped.
LEMMA AnsweredSame ==
  ASSUME Typed, Requested, Answered, UNCHANGED <<op, source, local>>, Served' = Served,
         work'.then = work.then, work'.at \in OnSync /\ work'.then # "end" => work.at \in OnSync,
         result' = "failed" <=> result = "failed", device'.out = device.out,
         sync'.buffer = sync.buffer \/ (sync'.buffer = <<>> /\ sync'.closed), sync.closed => sync'.closed
  PROVE  Answered'
<1>1. (Asking' <=> Asking) /\ Asked' = Asked
  BY ScriptSame
<1> SUFFICES ASSUME Asking PROVE Answered'
  BY <1>1 DEF Answered
<1>2. /\ sync.buffer \in Seq(Token) /\ device.out \in Seq(Token) /\ Len(sync.buffer) \in Nat /\ Len(device.out) \in Nat
  BY Types, LenProperties DEF StreamType, DeviceType
<1>3. Position' = Position
  BY DEF Position
<1>4. ASSUME Waiting PROVE Waiting'
  <2>1. /\ local = <<>> /\ work.then \in {"nothing", "stat", "data", "entry"} /\ (work.then = "data" => Served >= 2)
        /\ IF work.then = "stat" /\ Served = 2 THEN Len(sync.buffer) + Len(device.out) <= 1
           ELSE sync.buffer = <<>> /\ device.out = <<>>
    BY <1>4 DEF Waiting
  <2>3. Len(sync.buffer) + Len(device.out) <= 1 => Len(sync'.buffer) + Len(device'.out) <= 1
    <3>1. CASE sync'.buffer = sync.buffer
      BY <3>1
    <3>2. CASE sync'.buffer = <<>>
      <4>1. Len(sync'.buffer) = 0 /\ Len(device'.out) = Len(device.out)
        BY <3>2
      <4>2. Len(sync.buffer) + Len(device.out) <= 1 => 0 + Len(device.out) <= 1
        <5>1. \A m, n \in Nat : m + n <= 1 => 0 + n <= 1
          OBVIOUS
        <5>2. Len(sync.buffer) \in Nat /\ Len(device.out) \in Nat
          BY <1>2
        <5> HIDE DEF Waiting
        <5> QED
          BY <5>1, <5>2
      <4> QED
        BY <4>1, <4>2
    <3> QED
      BY <3>1, <3>2
  <2> HIDE DEF Served
  <2> QED
    BY <2>1, <2>3 DEF Waiting
<1>5. ASSUME Receiving PROVE Receiving'
  <2>1. /\ Len(local) <= Len(Content) /\ \A i \in 1..Len(local) : local[i] = Content[i]
        /\ work.then \in {"block", "name"} => Len(local) < Len(Content)
        /\ \A i \in 1..Len(sync.buffer) : Fits(sync.buffer[i], Position + i)
        /\ ~sync.closed => \A i \in 1..Len(device.out) : Fits(device.out[i], Position + Len(sync.buffer) + i)
    BY <1>5 DEF Receiving
  <2>2. \A i \in 1..Len(sync'.buffer) : Fits(sync'.buffer[i], Position' + i)
    <3>1. CASE sync'.buffer = sync.buffer
      BY <1>3, <2>1, <3>1
    <3>2. CASE sync'.buffer = <<>>
      BY <3>2
    <3> QED
      BY <3>1, <3>2
  <2>3. ~sync'.closed => \A i \in 1..Len(device'.out) : Fits(device'.out[i], Position' + Len(sync'.buffer) + i)
    BY <1>3, <2>1
  <2> QED
    BY <2>1, <2>2, <2>3, ReceivingKept
<1> HIDE DEF Waiting, Receiving, Served, Asked, Asking
<1> QED
  BY <1>1, <1>4, <1>5 DEF Answered

\* An operation starts with nothing answered.
LEMMA AnsweredStart ==
  ASSUME Typed, Placed, Told, Requested, Fresh, Start
  PROVE  Answered'
<1>1. /\ op = "none" /\ UNCHANGED <<sync, device>> /\ work'.then = work.then /\ work'.todo = work.todo
      /\ \/ op' \in {"push", "install", "exec", "reverse"}
         \/ op' \in {"pull", "list"} /\ local' = <<>> /\ result' = result
         \/ op' = "pull" /\ work'.at = "over" /\ local' = local
  BY StartDoes DEF BeginsWith
<1>2. /\ work.then = "nothing" /\ sync.buffer = <<>> /\ device.out = <<>> /\ local = <<"old">>
  BY <1>1 DEF Placed, Thens, Pushing, Fresh
<1>3. work.todo = <<>> /\ sync.wire = <<>> /\ device.got = <<>>
  BY <1>2, NothingSent
<1>4. Served' = 0
  BY <1>1, <1>2, <1>3, RequestedNothing
<1>5. result # "failed"
  <2>1. work.stage = "none" /\ work.at = "idle"
    BY <1>1 DEF Placed, Stages, Pushing
  <2> QED
    BY <2>1 DEF Told
<1>6. Asked' \in {2, 4} /\ 0 # 2
  BY DEF Asked
<1>7. Served' < Asked'
  BY <1>4, <1>6
<1>8. local' = <<>> => Waiting'
  BY <1>1, <1>2, <1>4, <1>6 DEF Waiting
<1> HIDE DEF Waiting, Served, Asked
<1> QED
  BY <1>1, <1>2, <1>5, <1>7, <1>8 DEF Answered, Asking, OnSync

\* Asking does not answer.
LEMMA AnsweredOpened ==
  ASSUME Typed, Placed, Told, Requested, Answered, Opened
  PROVE  Answered'
<1>1. /\ work.at = "open" /\ UNCHANGED <<op, source, local, result, sync, device>>
      /\ \/ op = "pull" /\ work'.then = "stat"
         \/ op = "list" /\ work'.then = "entry"
         \/ Pushing
  BY OpenedDoes
<1>2. Served = 0 /\ Served' = Served /\ work.then = "nothing"
  BY <1>1, NothingSent, RequestedOpened DEF Placed
<1>3. Asked' \in {2, 4} /\ Asked = Asked' /\ 0 # 2
  BY <1>1, ScriptSame DEF Asked
<1>4. Served' < Asked' /\ Served < Asked
  BY <1>2, <1>3
<1>5. Asking => Waiting
  BY <1>1, <1>2, <1>4 DEF Answered, OnSync
<1>6. Asking => Waiting'
  <2> SUFFICES ASSUME Asking PROVE Waiting'
    OBVIOUS
  <2>1. local = <<>> /\ sync.buffer = <<>> /\ device.out = <<>>
    BY <1>2, <1>5 DEF Waiting
  <2>2. work'.then \in {"stat", "entry"}
    BY <1>1 DEF Asking, Pushing
  <2>3. Served' = 0
    BY <1>2
  <2> HIDE DEF Served
  <2> QED
    BY <1>1, <1>3, <2>1, <2>2, <2>3 DEF Waiting
<1>7. Pushing => ~Asking
  BY DEF Pushing, Asking
<1>8. result # "failed"
  <2>1. work.at = "open" /\ work.stage = "none"
    BY <1>1 DEF Placed
  <2> QED
    BY <2>1 DEF Told
<1>9. Asking' <=> Asking
  BY <1>1, ScriptSame
<1> HIDE DEF Waiting, Served, Asked, Asking, Pushing
<1> QED
  BY <1>1, <1>4, <1>6, <1>7, <1>8, <1>9 DEF Answered

\* A token taken of an answer is the next of it, and its block goes to the file.
LEMMA AnsweredTakes ==
  ASSUME Typed, Placed, Told, Requested, Answered, NEW id \in Token, Takes(id), Served' = Served
  PROVE  Answered'
<1>1. /\ UNCHANGED <<op, source, result, device>> /\ work.at = "wait" /\ work.todo = <<>> /\ sync.buffer # <<>>
      /\ sync'.buffer = Tail(sync.buffer) /\ sync'.closed = sync.closed
      /\ local' = (IF work.then \in {"block", "name"} THEN Append(local, id) ELSE local)
      /\ After(id).then # "throw" /\ work' = After(id)
  BY DEF Takes, Placed
<1>2. (Asking' <=> Asking) /\ Asked' = Asked /\ (op = "pull" => Asked = 4 /\ Asked' = 4)
  BY <1>1, ScriptSame DEF Asked
<1> SUFFICES ASSUME Asking PROVE Answered'
  BY <1>2 DEF Answered
<1>3. result # "failed" /\ result' # "failed"
  <2>1. work.stage # "rm"
    BY <1>1 DEF Placed, Stages, Asking
  <2> QED
    BY <1>1, <2>1 DEF Told
<1>4. /\ sync.buffer \in Seq(Token) /\ Len(sync.buffer) \in Nat \ {0} /\ Len(Tail(sync.buffer)) = Len(sync.buffer) - 1
      /\ Tail(sync.buffer) \in Seq(Token)
      /\ \A i \in 1..(Len(sync.buffer) - 1) : Tail(sync.buffer)[i] = sync.buffer[i + 1]
      /\ device.out \in Seq(Token) /\ Len(device.out) \in Nat /\ Served \in Nat
  <2>1. sync.buffer \in Seq(Token) /\ device.out \in Seq(Token)
    BY Types DEF StreamType, DeviceType
  <2> QED
    BY <1>1, <2>1, Tails, LenProperties, CountTypes
<1>5. /\ work' \in WorkType
      /\ \/ /\ \/ work.then = "data" /\ id = "DONE"
               \/ work.then = "rest"
            /\ work'.then = "end"
         \/ work.then = "stat" /\ work'.then = "data"
         \/ work.then = "data" /\ id = "DATA" /\ work'.then = "block"
         \/ work.then = "block" /\ work'.then = "data"
         \/ work.then = "entry" /\ id = "DENT" /\ work'.then = "name"
         \/ work.then = "name" /\ work'.then = "entry"
         \/ work.then = "entry" /\ id = "DONE" /\ work'.then = "rest"
  <2>1. work.then # "answer"
    BY <1>1 DEF Placed, Thens, Asking, Pushing
  <2> QED
    BY <1>1, <2>1, AfterDoes
<1>6. CASE work.then = "stat"
  <2>1. work'.then = "data" /\ op = "pull"
    <3>1. op = "pull"
      BY <1>6 DEF Placed, Thens, Asking, Pushing
    <3> QED
      BY <1>5, <1>6, <3>1
  <2>2. Served <= 2
    <3>1. Sent = 2
      BY <1>1, <1>6, AllWritten DEF Planned
    <3> QED
      BY <3>1, CountTypes
  <2>3. Waiting
    <3>1. Served < Asked
      BY <1>2, <1>4, <2>1, <2>2
    <3> QED
      BY <1>1, <1>6, <3>1 DEF Answered, OnSync
  <2>4. Served = 2 /\ Len(sync.buffer) + Len(device.out) <= 1 /\ local = <<>>
    BY <1>1, <1>6, <2>3 DEF Waiting
  <2>5. Len(Tail(sync.buffer)) = 0 /\ Len(device.out) = 0
    <3>1. \A m \in Nat \ {0}, n \in Nat : m + n <= 1 => m - 1 = 0 /\ n = 0
      OBVIOUS
    <3>2. Len(sync.buffer) \in Nat \ {0} /\ Len(device.out) \in Nat /\ Len(Tail(sync.buffer)) = Len(sync.buffer) - 1
      BY <1>4
    <3> QED
      BY <2>4, <3>1, <3>2
  <2>6. sync'.buffer = <<>> /\ device'.out = <<>> /\ local' = <<>>
    <3>1. Tail(sync.buffer) = <<>> /\ device.out = <<>>
      BY <1>4, <2>5, EmptySeq
    <3> QED
      BY <1>1, <1>6, <2>4, <3>1
  <2>7. Served' >= 2 /\ Served' < Asked'
    BY <1>2, <2>1, <2>4
  <2> HIDE DEF Served, Asked
  <2>8. Waiting'
    BY <2>1, <2>6, <2>7 DEF Waiting
  <2> HIDE DEF Waiting
  <2> QED
    BY <1>1, <1>3, <2>1, <2>7, <2>8 DEF Answered
<1>7. CASE work.then # "stat"
  <2>1. Served >= Asked /\ Receiving /\ Fits(id, Position + 1)
    BY <1>5, <1>7, Fitting
  <2>2. /\ Len(local) <= Len(Content) /\ \A i \in 1..Len(local) : local[i] = Content[i]
        /\ work.then \in {"block", "name"} => Len(local) < Len(Content)
        /\ \A i \in 1..Len(sync.buffer) : Fits(sync.buffer[i], Position + i)
        /\ ~sync.closed => \A i \in 1..Len(device.out) : Fits(device.out[i], Position + Len(sync.buffer) + i)
    BY <2>1 DEF Receiving
  <2>3. local \in Seq(ToSet(Content) \union {"old"}) /\ Len(local) \in Nat /\ Len(Content) \in Nat
    BY Types, LenProperties, ContentBlocks
  <2> DEFINE n == Len(local)
  <2>4. work.then \in {"data", "entry"} =>
          \/ id = "FAIL" \/ (n < Len(Content) /\ id \in {"DATA", "DENT"}) \/ (n = Len(Content) /\ id = "DONE")
    <3> SUFFICES ASSUME work.then \in {"data", "entry"}
                 PROVE  \/ id = "FAIL" \/ (n < Len(Content) /\ id \in {"DATA", "DENT"}) \/ (n = Len(Content) /\ id = "DONE")
      OBVIOUS
    <3>1. Position + 1 = 2 * n + 1
      BY <2>3 DEF Position
    <3> HIDE DEF Position
    <3>2. Fits(id, 2 * n + 1) /\ n \in Nat
      BY <2>1, <2>3, <3>1
    <3> QED
      BY <3>2, FitsOdd
  <2>5. work.then \in {"block", "name"} => n < Len(Content) /\ id = Content[n + 1] /\ id \in ToSet(Content)
    BY BlockTaken
  \* What has come of the file.
  <2>6. /\ Len(local') = (IF work.then \in {"block", "name"} THEN n + 1 ELSE n)
        /\ \A i \in 1..Len(local') : local'[i] = Content[i]
    <3>1. CASE work.then \in {"block", "name"}
      <4>1. /\ Len(local') = n + 1 /\ \A i \in 1..n : local'[i] = local[i]
            /\ local'[n + 1] = id
        BY <1>1, <2>3, <2>5, <3>1, AppendProperties
      <4>2. \A i \in 1..(n + 1) : i \in 1..n \/ i = n + 1
        BY <2>3
      <4> QED
        BY <2>2, <2>5, <3>1, <4>1, <4>2
    <3>2. CASE work.then \notin {"block", "name"}
      BY <1>1, <2>2, <3>2
    <3> QED
      BY <3>1, <3>2
  <2>7. Len(local') \in Nat /\ Len(local') <= Len(Content)
    BY <2>2, <2>3, <2>5, <2>6
  <2>8. work'.then \in {"rest", "end"} => local' = Content
    <3> SUFFICES ASSUME work'.then \in {"rest", "end"} PROVE local' = Content
      OBVIOUS
    <3>1. CASE work.then = "rest"
      BY <1>1, <1>3, <3>1 DEF Answered
    <3>2. CASE work.then # "rest"
      <4>1. work.then \in {"data", "entry"} /\ id = "DONE"
        BY <1>5, <1>7, <3>2
      <4>2. n = Len(Content) /\ local' = local
        BY <1>1, <2>4, <4>1
      <4>3. local \in Seq(ToSet(Content) \union {"old"}) /\ Content \in Seq(ToSet(Content) \union {"old"})
        <5>1. ToSet(Content) \subseteq ToSet(Content) \union {"old"} /\ Content \in Seq(ToSet(Content))
          BY ContentBlocks
        <5> QED
          BY <2>3, <5>1, SeqMonotonic
      <4> QED
        BY <2>2, <4>2, <4>3, SeqEqual
    <3> QED
      BY <3>1, <3>2
  <2>9. Served' >= Asked'
    BY <1>2, <2>1
  <2>10. ASSUME work'.then # "end" PROVE Receiving'
    <3>1. Position' = Position + 1
      <4>1. \/ /\ work.then \in {"data", "entry"} /\ work'.then \in {"block", "name", "rest"}
               /\ Len(local') = Len(local)
            \/ /\ work.then \in {"block", "name"} /\ work'.then \in {"data", "entry"}
               /\ Len(local') = Len(local) + 1
        BY <1>5, <1>7, <2>6, <2>10
      <4>2. CASE /\ work.then \in {"data", "entry"} /\ work'.then \in {"block", "name", "rest"}
                 /\ Len(local') = Len(local)
        BY <2>3, <4>2 DEF Position
      <4>3. CASE /\ work.then \in {"block", "name"} /\ work'.then \in {"data", "entry"}
                 /\ Len(local') = Len(local) + 1
        BY <2>3, <4>3 DEF Position
      <4> QED
        BY <4>1, <4>2, <4>3
    <3>2. Position \in Nat
      BY <2>3 DEF Position
    <3>3. work'.then \in {"block", "name"} => Len(local') < Len(Content)
      BY <1>5, <1>7, <2>4, <2>6
    <3> HIDE DEF Position, n
    <3>4. \A i \in 1..Len(sync'.buffer) : Fits(sync'.buffer[i], Position' + i)
      <4> SUFFICES ASSUME NEW i \in 1..(Len(sync.buffer) - 1) PROVE Fits(sync.buffer[i + 1], Position + 1 + i)
        BY <1>1, <1>4, <3>1
      <4>1. i + 1 \in 1..Len(sync.buffer) /\ Position + (i + 1) = Position + 1 + i
        BY <1>4, <3>2
      <4>2. Fits(sync.buffer[i + 1], Position + (i + 1))
        BY <2>2, <4>1
      <4> QED
        BY <4>1, <4>2
    <3>5. ~sync'.closed => \A i \in 1..Len(device'.out) : Fits(device'.out[i], Position' + Len(sync'.buffer) + i)
      <4>1. Position' + Len(sync'.buffer) = Position + Len(sync.buffer)
        <5>1. \A p \in Nat, m \in Nat \ {0} : p + 1 + (m - 1) = p + m
          OBVIOUS
        <5>2. Len(sync'.buffer) = Len(sync.buffer) - 1
          BY <1>1, <1>4
        <5> QED
          BY <1>4, <3>1, <3>2, <5>1, <5>2
      <4> QED
        BY <1>1, <2>2, <4>1
    <3> QED
      BY <1>1, <2>6, <2>7, <3>3, <3>4, <3>5, ReceivingKept
  <2>11. Served' < Asked' => FALSE
    <3>1. Served' \in Nat /\ Asked' \in Nat
      BY <1>2, <1>4 DEF Asked
    <3> QED
      BY <2>9, <3>1
  <2> HIDE DEF Served, Asked, Receiving, Waiting
  <2> QED
    BY <1>3, <2>8, <2>10, <2>11 DEF Answered
<1> QED
  BY <1>6, <1>7

\* Of an answer only what the device has to say, and what has arrived, changes.
LEMMA AnsweredSaid ==
  ASSUME Typed, Requested, Answered, UNCHANGED <<op, source, work, local, result>>,
         Asking /\ work.at \in OnSync /\ work.then # "end" => IF Served' < Asked THEN Waiting' ELSE Receiving'
  PROVE  Answered'
<1>1. (Asking' <=> Asking) /\ Asked' = Asked
  BY ScriptSame
<1> HIDE DEF Asking, Asked, Served, Waiting, Receiving
<1> QED
  BY <1>1 DEF Answered

\* The device answers the last request with the blocks of the file and the end.
LEMMA AnsweredServes ==
  ASSUME Typed, Placed, Requested, Answered, NEW id, NextRequest(id), NEW k \in {1, 2},
         k = (IF id \in {"DONE", "QUIT"} THEN 1 ELSE 2), ServesWith(id, k)
  PROVE  Answered'
<1>1. /\ UNCHANGED <<op, source, work, local, result, sync>> /\ device.out = <<>> /\ Len(device.got) >= k
  BY DEF ServesWith
<1>2. Served' = Served + k
  BY RequestedServes
<1> SUFFICES ASSUME Asking, work.at \in OnSync, work.then # "end"
             PROVE  IF Served' < Asked THEN Waiting' ELSE Receiving'
  BY <1>1, AnsweredSaid
<1>3. /\ Served \in Nat /\ Sent \in Nat /\ Len(device.got) \in Nat /\ Len(sync.wire) \in Nat
      /\ Sent = Served + Len(sync.wire) + Len(device.got) /\ Planned \in Int
  <2>1. /\ Served \in Nat /\ Sent \in Nat /\ Taken \in Nat /\ Len(device.got) \in Nat /\ Len(sync.wire) \in Nat
        /\ Taken = Sent - Len(sync.wire) /\ Served = Taken - Len(device.got) /\ Planned \in Int
    BY CountTypes
  <2> HIDE DEF Served, Taken, Sent, Planned
  <2> QED
    BY <2>1
<1>4. Served + k <= Planned
  <2>1. work.then # "answer"
    BY DEF Placed, Thens, Asking, Pushing
  <2>2. Pending = Len(work.todo)
    BY <2>1 DEF Pending, Bundled
  <2>3. Sent <= Planned
    BY <2>2, CountTypes
  <2>4. Served + k <= Sent
    <3>1. \A a, b, c \in Nat : c >= k => a + k <= a + b + c
      OBVIOUS
    <3> HIDE DEF Served, Sent
    <3> QED
      BY <1>1, <1>3, <3>1
  <2>5. \A a, b, c, d \in Int : a + b <= c /\ c <= d => a + b <= d
    OBVIOUS
  <2>6. Served \in Int /\ k \in Int /\ Sent \in Int /\ Planned \in Int
    BY <1>3
  <2> HIDE DEF Served, Sent, Planned
  <2> QED
    BY <2>3, <2>4, <2>5, <2>6
<1>5. Asked \in {2, 4} /\ (op = "pull" => Asked = 4 /\ ScriptSize = 5) /\ (op = "list" => Asked = 2 /\ ScriptSize = 3)
  BY PullScript, ListScript DEF Asked
<1>6. IF Served < Asked THEN Waiting ELSE Receiving
  BY DEF Answered
<1>7. /\ op = "pull" => work.then \in {"nothing", "stat", "data", "block"}
      /\ op = "list" => work.then \in {"nothing", "entry", "name", "rest"}
  BY DEF Placed, Thens, Pushing
<1>8. /\ work.then = "nothing" => Planned = 0
      /\ work.then = "stat" => Planned = 2
  BY DEF Planned
<1>9. ~Pushing
  BY DEF Asking, Pushing
<1> HIDE DEF Served, Sent, Planned, Asked
<1>10. CASE id = "STAT"
  <2>1. op = "pull" /\ Served = 0 /\ k = 2 /\ Served' = 2
    BY <1>2, <1>9, <1>10 DEF NextRequest
  <2>2. Waiting
    BY <1>5, <1>6, <2>1
  <2>3. work.then = "stat"
    <3>1. work.then # "nothing"
      <4>1. ~(0 + 2 <= 0)
        OBVIOUS
      <4> QED
        BY <1>4, <1>8, <2>1, <4>1
    <3>2. work.then # "data"
      BY <2>1, <2>2 DEF Waiting
    <3> QED
      BY <1>7, <2>1, <2>2, <3>1, <3>2 DEF Waiting
  <2>4. local = <<>> /\ sync.buffer = <<>>
    BY <2>1, <2>2 DEF Waiting
  <2>5. \E a \in Token : device'.out = <<a>>
    BY <1>10 DEF ServesWith
  <2>6. Len(sync'.buffer) + Len(device'.out) <= 1
    <3>1. Len(sync'.buffer) = 0 /\ Len(device'.out) = 1
      BY <1>1, <2>4, <2>5
    <3> QED
      BY <3>1
  <2>7. Waiting'
    BY <1>1, <2>1, <2>3, <2>4, <2>6 DEF Waiting
  <2> QED
    BY <1>5, <2>1, <2>7
<1>11. CASE id \in {"RECV", "LIST"}
  <2>1. /\ k = 2
        /\ \/ id = "RECV" /\ op = "pull" /\ Served = 2
           \/ id = "LIST" /\ op = "list" /\ Served = 0
    <3>1. k = 2
      BY <1>11
    <3>2. id = "RECV" => op = "pull" /\ Served = 2
      BY DEF NextRequest
    <3>3. id = "LIST" => op = "list" /\ Served = 0
      BY DEF NextRequest
    <3> QED
      BY <1>11, <3>1, <3>2, <3>3
  <2>2. Waiting
    BY <1>5, <1>6, <2>1
  <2>3. work.then \in {"data", "entry"}
    <3>1. work.then # "nothing"
      <4>1. ~(0 + 2 <= 0)
        OBVIOUS
      <4> QED
        BY <1>4, <1>8, <2>1, <4>1
    <3>2. work.then # "stat"
      <4>1. CASE op = "pull"
        <5>1. ~(2 + 2 <= 2) /\ Served = 2
          BY <2>1, <4>1
        <5> QED
          BY <1>4, <1>8, <2>1, <5>1
      <4>2. CASE op # "pull"
        BY <1>7, <2>1, <4>2
      <4> QED
        BY <4>1, <4>2
    <3> QED
      BY <1>7, <2>1, <2>2, <3>1, <3>2 DEF Waiting
  <2>4. local = <<>> /\ sync.buffer = <<>> /\ Len(<<>>) = 0
    BY <2>2, <2>3 DEF Waiting
  <2>5. \A i \in 1..Len(device'.out) : Fits(device'.out[i], i)
    <3>1. \/ device'.out = <<"FAIL">>
          \/ op = "pull" /\ device'.out = Pairs("DATA", Content) \o <<"DONE">>
          \/ op = "list" /\ device'.out = Pairs("DENT", Content) \o <<"DONE", "zeros">>
      BY <1>11, <2>1 DEF ServesWith
    <3>2. CASE device'.out = <<"FAIL">>
      <4>1. Len(device'.out) = 1 /\ device'.out[1] = "FAIL" /\ \A i \in 1..1 : i = 1
        BY <3>2
      <4> QED
        BY <4>1, AnswerMade
    <3>3. CASE device'.out # <<"FAIL">>
      BY <3>1, <3>3, AnswerMade
    <3> QED
      BY <3>2, <3>3
  <2>6. Position' = 0
    BY <1>1, <2>3, <2>4 DEF Position
  <2>7. Len(sync'.buffer) = 0 /\ Len(local') = 0 /\ 1..0 = {} /\ Len(Content) \in Nat
    BY <1>1, <2>4, ContentBlocks
  <2>8. \A i \in 1..Len(device'.out) : Position' + Len(sync'.buffer) + i = i
    BY <2>6, <2>7
  <2>9. work'.then \notin {"block", "name"}
    BY <1>1, <2>3
  <2> HIDE DEF Position
  <2>10. Receiving'
    BY <1>1, <2>5, <2>7, <2>8, <2>9, ReceivingKept
  <2>11. ~(Served' < Asked)
    BY <1>2, <1>5, <2>1
  <2> QED
    BY <2>10, <2>11
<1>12. CASE id = "QUIT"
  <2>1. Served = Asked /\ k = 1
    BY <1>3, <1>5, <1>12 DEF NextRequest, Asking, Pushing
  <2>2. Receiving /\ ~(Served' < Asked)
    BY <1>2, <1>3, <1>6, <2>1
  <2>3. /\ Len(local) <= Len(Content) /\ \A i \in 1..Len(local) : local[i] = Content[i]
        /\ work.then \in {"block", "name"} => Len(local) < Len(Content)
        /\ \A i \in 1..Len(sync.buffer) : Fits(sync.buffer[i], Position + i)
    BY <2>2 DEF Receiving
  <2>4. Position' = Position
    BY <1>1 DEF Position
  <2>5. Len(device'.out) = 0 /\ 1..0 = {}
    <3>1. device'.out = <<>>
      BY <1>12 DEF ServesWith
    <3> QED
      BY <3>1
  <2> HIDE DEF Position
  <2>6. Receiving'
    BY <1>1, <2>3, <2>4, <2>5, ReceivingKept
  <2> QED
    BY <2>2, <2>6
<1> QED
  BY <1>9, <1>10, <1>11, <1>12 DEF NextRequest

\* A token that is sent keeps its position in the answer.
LEMMA AnsweredSends ==
  ASSUME Typed, Placed, Requested, Answered, DeviceSends, Served' = Served
  PROVE  Answered'
<1>1. /\ UNCHANGED <<op, source, work, local, result>> /\ device.out # <<>> /\ sync'.closed = sync.closed
      /\ sync'.buffer = (IF sync.closed THEN sync.buffer ELSE Append(sync.buffer, device.out[1]))
      /\ device'.out = Tail(device.out)
  BY DeviceSendsDoes DEF DeviceSays
<1> SUFFICES ASSUME Asking, work.at \in OnSync, work.then # "end"
             PROVE  IF Served' < Asked THEN Waiting' ELSE Receiving'
  BY <1>1, AnsweredSaid
<1>2. /\ sync.buffer \in Seq(Token) /\ device.out \in Seq(Token) /\ Len(sync.buffer) \in Nat
      /\ Len(device.out) \in Nat \ {0} /\ Len(Tail(device.out)) = Len(device.out) - 1 /\ device.out[1] \in Token
      /\ \A i \in 1..(Len(device.out) - 1) : Tail(device.out)[i] = device.out[i + 1]
  <2>1. sync.buffer \in Seq(Token) /\ device.out \in Seq(Token)
    BY Types DEF StreamType, DeviceType
  <2> QED
    BY <1>1, <2>1, Tails, LenProperties
<1>3. IF Served < Asked THEN Waiting ELSE Receiving
  BY DEF Answered
<1>4. ~sync.closed => /\ Len(sync'.buffer) = Len(sync.buffer) + 1
                      /\ \A i \in 1..Len(sync.buffer) : sync'.buffer[i] = sync.buffer[i]
                      /\ sync'.buffer[Len(sync.buffer) + 1] = device.out[1]
  BY <1>1, <1>2, AppendProperties
<1>5. ASSUME Waiting PROVE Waiting'
  <2>1. /\ local = <<>> /\ work.then \in {"nothing", "stat", "data", "entry"} /\ (work.then = "data" => Served >= 2)
        /\ work.then = "stat" /\ Served = 2 /\ Len(sync.buffer) + Len(device.out) <= 1
    BY <1>1, <1>5 DEF Waiting
  <2>2. Len(sync'.buffer) \in {Len(sync.buffer), Len(sync.buffer) + 1} /\ Len(device'.out) = Len(device.out) - 1
    BY <1>1, <1>2, <1>4
  <2>3. Len(sync'.buffer) + Len(device'.out) <= 1
    <3>1. \A m \in Nat, n \in Nat \ {0} : m + n <= 1 => m + (n - 1) <= 1 /\ m + 1 + (n - 1) <= 1
      OBVIOUS
    <3> QED
      BY <1>2, <2>1, <2>2, <3>1
  <2> HIDE DEF Served
  <2> QED
    BY <1>1, <2>1, <2>3 DEF Waiting
<1>6. ASSUME Receiving PROVE Receiving'
  <2>1. /\ Len(local) <= Len(Content) /\ \A i \in 1..Len(local) : local[i] = Content[i]
        /\ work.then \in {"block", "name"} => Len(local) < Len(Content)
        /\ \A i \in 1..Len(sync.buffer) : Fits(sync.buffer[i], Position + i)
        /\ ~sync.closed => \A i \in 1..Len(device.out) : Fits(device.out[i], Position + Len(sync.buffer) + i)
    BY <1>6 DEF Receiving
  <2>2. Position' = Position /\ Position \in Nat
    <3>1. Len(local) \in Nat
      BY Types, LenProperties
    <3> QED
      BY <1>1, <3>1 DEF Position
  <2> HIDE DEF Position
  <2>3. CASE sync.closed
    <3>1. \A i \in 1..Len(sync'.buffer) : Fits(sync'.buffer[i], Position' + i)
      BY <1>1, <2>1, <2>2, <2>3
    <3> QED
      BY <1>1, <2>1, <2>3, <3>1, ReceivingKept
  <2>4. CASE ~sync.closed
    <3>1. ASSUME NEW i \in 1..(Len(sync.buffer) + 1) PROVE Fits(sync'.buffer[i], Position + i)
      <4>1. CASE i \in 1..Len(sync.buffer)
        BY <1>4, <2>1, <2>4, <4>1
      <4>2. CASE i = Len(sync.buffer) + 1
        <5>1. 1 \in 1..Len(device.out) /\ Position + Len(sync.buffer) + 1 = Position + i
          BY <1>2, <2>2, <4>2
        <5>2. Fits(device.out[1], Position + Len(sync.buffer) + 1)
          BY <2>1, <2>4, <5>1
        <5> QED
          BY <1>4, <2>4, <4>2, <5>1, <5>2
      <4> QED
        BY <1>2, <4>1, <4>2
    <3>2. ASSUME NEW i \in 1..(Len(device.out) - 1) PROVE Fits(device.out[i + 1], Position + (Len(sync.buffer) + 1) + i)
      <4>1. i + 1 \in 1..Len(device.out) /\ Position + Len(sync.buffer) + (i + 1) = Position + (Len(sync.buffer) + 1) + i
        <5>1. \A a, b, c \in Nat : a + b + (c + 1) = a + (b + 1) + c
          OBVIOUS
        <5>2. \A m \in Nat \ {0} : \A j \in 1..(m - 1) : j \in Nat /\ j + 1 \in 1..m
          OBVIOUS
        <5>3. Len(device.out) \in Nat \ {0} /\ Len(sync.buffer) \in Nat /\ Position \in Nat
          BY <1>2, <2>2
        <5>4. i \in Nat /\ i + 1 \in 1..Len(device.out)
          BY <5>2, <5>3
        <5> QED
          BY <5>1, <5>3, <5>4
      <4>2. Fits(device.out[i + 1], Position + Len(sync.buffer) + (i + 1))
        BY <2>1, <2>4, <4>1
      <4> QED
        BY <4>1, <4>2
    <3>3. \A i \in 1..Len(sync'.buffer) : Fits(sync'.buffer[i], Position' + i)
      BY <1>4, <2>2, <2>4, <3>1
    <3>4. \A i \in 1..Len(device'.out) : Fits(device'.out[i], Position' + Len(sync'.buffer) + i)
      BY <1>1, <1>2, <1>4, <2>2, <2>4, <3>2
    <3> QED
      BY <1>1, <2>1, <3>3, <3>4, ReceivingKept
  <2> QED
    BY <2>3, <2>4
<1>7. Served' = Served
  OBVIOUS
<1> HIDE DEF Served, Waiting, Receiving, Asked
<1> QED
  BY <1>3, <1>5, <1>6, <1>7

\* A file given up in the middle fails where an id is due.
LEMMA AnsweredStops ==
  ASSUME Typed, Placed, Requested, Answered, DeviceStops, Served' = Served
  PROVE  Answered'
<1>1. /\ UNCHANGED <<op, source, work, local, result, sync>> /\ work.then \in {"data", "block"}
      /\ device.out # <<>> /\ device.out[1] = "DATA" /\ device'.out = <<"FAIL">>
  BY DeviceStopsDoes DEF DeviceSays
<1> SUFFICES ASSUME Asking, work.at \in OnSync, work.then # "end"
             PROVE  IF Served' < Asked THEN Waiting' ELSE Receiving'
  BY <1>1, AnsweredSaid
<1>2. /\ Len(sync.buffer) \in Nat /\ device.out \in Seq(Token) /\ Len(device.out) \in Nat \ {0} /\ Len(local) \in Nat
  <2>1. sync.buffer \in Seq(Token) /\ device.out \in Seq(Token)
    BY Types DEF StreamType, DeviceType
  <2> QED
    BY <1>1, <2>1, Types, EmptySeq, LenProperties
<1>3. (IF Served < Asked THEN Waiting ELSE Receiving) /\ ~Waiting
  BY <1>1 DEF Answered, Waiting
<1>4. Receiving /\ ~(Served < Asked)
  BY <1>3
<1>5. /\ Len(local) <= Len(Content) /\ \A i \in 1..Len(local) : local[i] = Content[i]
      /\ work.then \in {"block", "name"} => Len(local) < Len(Content)
      /\ \A i \in 1..Len(sync.buffer) : Fits(sync.buffer[i], Position + i)
      /\ ~sync.closed => \A i \in 1..Len(device.out) : Fits(device.out[i], Position + Len(sync.buffer) + i)
  BY <1>4 DEF Receiving
<1>6. Position' = Position /\ Position \in Nat
  BY <1>1, <1>2 DEF Position
<1> DEFINE p == Position + Len(sync.buffer) + 1
<1>7. p \in Nat /\ 1 \in 1..Len(device.out)
  BY <1>2, <1>6
<1> HIDE DEF Position
<1>8. ~sync.closed => Fits("DATA", p)
  BY <1>1, <1>5, <1>7
<1>9. ~sync.closed => Fits("FAIL", p)
  <2> HIDE DEF p
  <2> SUFFICES ASSUME Fits("DATA", p) PROVE p % 2 = 1 /\ p <= AnswerSize
    BY <1>8 DEF Fits
  <2>1. p <= AnswerSize /\ (Answer(p) = "DATA" \/ p % 2 = 1)
    BY DEF Fits
  <2>2. CASE p % 2 = 1
    BY <2>1, <2>2
  <2>3. CASE p % 2 # 1
    <3> DEFINE n == Len(Content)
    <3>1. n \in Nat /\ (2 * n + 1) % 2 = 1
      BY ContentBlocks, SMT
    <3>2. p % 2 = 0 /\ p # 2 * n + 1 /\ p = 2 * (p \div 2) /\ p \div 2 \in Nat
      BY <1>7, <2>3, <3>1, Halves
    <3>3. p # 0
      BY <1>2, <1>6 DEF p
    <3>4. op = "pull"
      BY <1>1 DEF Placed, Thens, Asking, Pushing
    <3>5. p <= 2 * n + 1
      BY <2>1, <3>4 DEF AnswerSize
    <3>6. p <= 2 * n /\ p \div 2 \in 1..n
      BY <1>7, <3>1, <3>2, <3>3, <3>5
    <3>7. Answer(p) = Content[p \div 2]
      BY <3>2, <3>6 DEF Answer
    <3>8. "DATA" \in Words
      BY DEF Words
    <3>9. Content[p \div 2] \notin Words
      BY <3>6, ContentBlocks
    <3> QED
      BY <2>1, <2>3, <3>7, <3>8, <3>9
  <2> QED
    BY <2>2, <2>3
<1>10. ~sync'.closed => \A i \in 1..Len(device'.out) : Fits(device'.out[i], Position' + Len(sync'.buffer) + i)
  <2>1. Len(device'.out) = 1 /\ device'.out[1] = "FAIL" /\ \A i \in 1..1 : i = 1
    BY <1>1
  <2> QED
    BY <1>1, <1>6, <1>9, <2>1
<1>11. \A i \in 1..Len(sync'.buffer) : Fits(sync'.buffer[i], Position' + i)
  BY <1>1, <1>5, <1>6
<1>12. Receiving'
  BY <1>1, <1>5, <1>10, <1>11, ReceivingKept
<1>13. Served' = Served
  OBVIOUS
<1> HIDE DEF Served, Waiting, Receiving, Asked
<1> QED
  BY <1>4, <1>12, <1>13

\* What is received is a beginning of the file, by every step.
LEMMA AnsweredStep ==
  ASSUME Typed, Placed, Told, Requested, Fresh, Answered, [ServiceNext]_serviceVars
  PROVE  Answered'
<1>1. Requested' /\ (DeviceServes \/ Served' = Served)
  BY RequestedStep
<1>2. CASE Start
  BY <1>2, AnsweredStart
<1>3. CASE DeviceServes
  <2>1. PICK id \in Words : NextRequest(id) /\ ServesWith(id, IF id \in {"DONE", "QUIT"} THEN 1 ELSE 2)
    BY <1>3, DeviceServesDoes
  <2>2. PICK k \in {1, 2} : k = (IF id \in {"DONE", "QUIT"} THEN 1 ELSE 2)
    OBVIOUS
  <2> QED
    BY <2>1, <2>2, AnsweredServes
<1>4. CASE ~DeviceServes /\ \E id \in Token : Takes(id)
  BY <1>1, <1>4, AnsweredTakes
<1>5. CASE ~DeviceServes /\ DeviceSends
  BY <1>1, <1>5, AnsweredSends
<1>6. CASE ~DeviceServes /\ DeviceStops
  BY <1>1, <1>6, AnsweredStops
<1>7. CASE ~DeviceServes /\ DeviceRuns
  <2>1. (\E ok \in BOOLEAN : RunsWith(ok)) /\ UNCHANGED <<op, source, work, local, result, sync>>
    BY <1>7, DeviceRunsDoes
  <2>2. device'.out = device.out
    BY <2>1 DEF RunsWith
  <2> QED
    BY <1>1, <1>7, <2>1, <2>2, AnsweredSame
<1>8. CASE ~DeviceServes /\ Opened
  BY <1>8, AnsweredOpened
<1>9. CASE ~DeviceServes /\ Fail
  <2>1. /\ UNCHANGED <<op, source>> /\ result' = "failed" /\ local' = (IF op = "pull" THEN <<>> ELSE local)
        /\ work'.at \notin OnSync \/ op = "install"
    BY <1>9 DEF Fail, ThrowsWith, OnSync
  <2> QED
    BY <2>1 DEF Answered, Asking, OnSync
<1>10. CASE ~DeviceServes /\ (ShellReturns \/ ShellThrows)
  <2>1. CommandEnds /\ (Ended \/ Broken)
    BY <1>10, ShellReturnsDoes, ShellThrowsDoes
  <2>2. UNCHANGED <<op, source, local>>
    BY <2>1 DEF CommandEnds
  <2>3. Asking => work.stage = "probe" /\ op = "list" /\ work.then = "rest" /\ work.at \in AtShell
    <3>1. work.at \in AtShell
      BY <2>1 DEF Ended, Broken, AtShell
    <3> QED
      BY <3>1 DEF Placed, Stages, Asking
  <2>4. Asking => work'.then = "end" /\ result' = result
    BY <2>1, <2>3 DEF CommandEnds
  <2> QED
    BY <2>2, <2>3, <2>4 DEF Answered, Asking
<1>11. CASE ~DeviceServes /\ Written
  <2>1. /\ UNCHANGED <<op, source, local, device>> /\ work'.then = work.then /\ work.at = "write"
        /\ \/ UNCHANGED <<result, sync>>
           \/ sync' = Closed(sync) /\ result' \in {"done", result}
    BY <1>11, WrittenDoes
  <2>2. CASE UNCHANGED <<result, sync>>
    BY <1>1, <1>11, <2>1, <2>2, AnsweredSame DEF OnSync
  <2>3. CASE sync' = Closed(sync) /\ result' \in {"done", result}
    <3>1. result # "failed" \/ op = "install"
      BY <2>1 DEF Told, Placed, Stages, Pushing
    <3>2. sync'.buffer = <<>> /\ sync'.closed = TRUE
      BY <2>3, ClosedIs, Types
    <3>3. CASE op = "install"
      BY <2>1, <3>3 DEF Answered, Asking
    <3>4. CASE op # "install"
      <4>1. result # "failed" /\ result' # "failed"
        BY <2>3, <3>1, <3>4
      <4> QED
        BY <1>1, <1>11, <2>1, <3>2, <4>1, AnsweredSame DEF OnSync
    <3> QED
      BY <3>3, <3>4
  <2> QED
    BY <2>1, <2>2, <2>3
<1>12. CASE ~DeviceServes /\ (Write \/ ReadBegins \/ Probe \/ ShellOpened \/ FallsBack \/ ShellStarts)
  <2>1. /\ UNCHANGED <<op, source, local, result>> /\ work'.then = work.then
        /\ work.at \in OnSync \/ work'.at \notin OnSync
    <3>1. CASE Write
      BY <3>1, WriteDoes DEF OnSync
    <3>2. CASE ReadBegins \/ Probe
      BY <3>2, MovesDo DEF MovesTo, OnSync
    <3>3. CASE ShellOpened \/ FallsBack \/ ShellStarts
      BY <3>3, MovesDo DEF MovesTo, OnSync
    <3> QED
      BY <1>12, <3>1, <3>2, <3>3
  <2>2. /\ device'.out = device.out /\ (sync.closed => sync'.closed)
        /\ sync'.buffer = sync.buffer \/ (sync'.buffer = <<>> /\ sync'.closed)
    BY <1>12, QuietDoes DEF Quiet
  <2> QED
    BY <1>1, <1>12, <2>1, <2>2, AnsweredSame
<1>13. CASE ~DeviceServes /\ (CloseBegins \/ CloseStreams \/ DeviceOpens \/ DeviceCloses \/ DeviceTakes \/ DevicePrints
                              \/ Idle)
  <2>1. UNCHANGED <<op, source, work, local, result>>
    BY <1>13, Elsewhere
  <2>2. /\ device'.out = device.out /\ (sync.closed => sync'.closed)
        /\ sync'.buffer = sync.buffer \/ (sync'.buffer = <<>> /\ sync'.closed)
    BY <1>13, QuietDoes DEF Quiet
  <2> QED
    BY <1>1, <1>13, <2>1, <2>2, AnsweredSame
<1> QED
  BY LoudOrQuiet, <1>2, <1>3, <1>4, <1>5, <1>6, <1>7, <1>8, <1>9, <1>10, <1>11, <1>12, <1>13 DEF Quiet

-----------------------------------------------------------------------------
(* The invariant, and what follows from it.                                *)

ServiceInv ==
  Typed /\ Napping /\ Placed /\ Told /\ Left /\ Commanded /\ Requested /\ Fresh /\ Stored /\ Answered

\* A notification, or the lack of one, leaves the sleep in one of its states.
LEMMA NappingStep ==
  ASSUME Napping, [ServiceNext]_serviceVars
  PROVE  Napping'
<1>1. Notified => Napping'
  BY DEF Napping, Notified
<1>2. UNCHANGED nap => Napping'
  BY DEF Napping
<1>3. Throws => UNCHANGED nap
  BY DEF Throws
<1>4. CASE Start
  BY <1>2, <1>4 DEF Start, StartPush, StartList, StartPull, PrepareFails, StartCommand, Starts
<1>5. CASE WriteDozes \/ WriteSleeps
  BY <1>5 DEF WriteDozes, WriteSleeps, Napping
<1>6. CASE Opened \/ OpenFails \/ Write \/ WriteThrows \/ Written \/ ReadBegins \/ ReadRefused \/ Read \/ ReadThrows
  BY <1>2, <1>3, <1>6 DEF Opened, OpenFails, Write, WriteThrows, Written, ReadBegins, ReadRefused, Read, ReadThrows
<1>7. CASE LocalReadFails \/ Probe \/ LocalWriteFails
  BY <1>2, <1>3, <1>7 DEF LocalReadFails, Probe, LocalWriteFails
<1>8. CASE Command
  BY <1>2, <1>8 DEF Command, ShellStarts, ShellOpened, ShellReturns, Returns, FallsBack, ShellThrows, Fails
<1>9. CASE CloseBegins \/ CloseStreams
  BY <1>1, <1>2, <1>9 DEF CloseBegins, CloseStreams
<1>10. CASE DeviceOpens \/ DeviceTakes \/ DeviceCloses \/ DevicePrints
  BY <1>1, <1>2, <1>10 DEF DeviceOpens, DeviceTakes, DeviceCloses, DevicePrints
<1>11. CASE DeviceServes \/ DeviceSends \/ DeviceStops \/ DeviceRuns
  BY <1>2, <1>11 DEF DeviceServes, DeviceSends, DeviceStops, DeviceRuns
<1>12. CASE UNCHANGED serviceVars
  BY <1>2, <1>12 DEF serviceVars
<1> QED
  BY <1>4, <1>5, <1>6, <1>7, <1>8, <1>9, <1>10, <1>11, <1>12 DEF ServiceNext, Transfer, Device, Done

\* The inductive invariant of the services.
THEOREM ServiceInvariant == ServiceSpec => []ServiceInv
<1>1. ServiceInit => ServiceInv
  BY TypedInit, PlacedInit, ToldInit, LeftInit, CommandedInit, RequestedInit, FreshInit, StoredInit, AnsweredInit
     DEF ServiceInv, Napping, ServiceInit
<1>2. ServiceInv /\ [ServiceNext]_serviceVars => ServiceInv'
  <2> SUFFICES ASSUME ServiceInv, [ServiceNext]_serviceVars PROVE ServiceInv'
    OBVIOUS
  <2>1. Typed /\ Napping /\ Placed /\ Told /\ Left /\ Commanded /\ Requested /\ Fresh /\ Stored /\ Answered
    BY DEF ServiceInv
  <2>2. Typed' /\ Napping' /\ Placed' /\ Told' /\ Left'
    BY <2>1, TypedStep, NappingStep, PlacedStep, ToldStep, LeftStep
  <2>3. Commanded' /\ Requested' /\ Fresh'
    BY <2>1, CommandedStep, RequestedStep, FreshStep
  <2>4. Stored' /\ Answered'
    BY <2>1, StoredStep, AnsweredStep
  <2> QED
    BY <2>2, <2>3, <2>4 DEF ServiceInv
<1> QED
  BY <1>1, <1>2, PTL DEF ServiceSpec

\* A pull or a listing never writes a word of the protocol into the file, and a result is told when it
\* is over (Adb::pullFile, Adb::listDirectory).
THEOREM ServiceTypesHold == ServiceSpec => []ServiceTypeOK
<1>1. ServiceInv => ServiceTypeOK
  BY DEF ServiceInv, Typed, Napping, ServiceTypeOK
<1> QED
  BY <1>1, ServiceInvariant, PTL

\* However an operation ends, by its return, by an exception or with the connection, it leaves no stream
\* open on a connection that is open or closed (Adb::pushFile, pullFile, listDirectory, runAdbCmd).
THEOREM NothingLeftOpen == ServiceSpec => []NothingOpen
<1>1. ServiceInv => NothingOpen
  <2> SUFFICES ASSUME ServiceInv, work.at = "over", adb # "closing"
               PROVE  (sync.open => sync.closed) /\ (shell.open => shell.closed)
    BY DEF NothingOpen
  <2>1. Typed /\ Left
    BY DEF ServiceInv
  <2>2. adb \in {"open", "closed"}
    BY <2>1, Types
  <2> QED
    BY <2>1, <2>2 DEF Left, InShell
<1> QED
  BY <1>1, ServiceInvariant, PTL

\* What is told of an operation is what the device did: a push that is done is stored block by block, a
\* pull or a listing that is done has the whole file, a failed pull leaves none of it, an install that
\* is done is installed, and an exit code is the code of the command.
THEOREM WhatIsToldIsTrue == ServiceSpec => []Truthful
<1>1. ServiceInv => Truthful
  <2> SUFFICES ASSUME ServiceInv PROVE Truthful
    OBVIOUS
  <2>1. Typed /\ Placed /\ Told /\ Commanded /\ Requested /\ Stored /\ Answered
    BY DEF ServiceInv
  <2>2. result = "done" /\ op = "push" => device.stored /\ device.file = Whole
    <3> SUFFICES ASSUME result = "done", op = "push" PROVE device.stored /\ device.file = Whole
      OBVIOUS
    <3>1. Pushing /\ work.then = "end"
      BY <2>1 DEF Told, Pushing
    <3>2. device.stored /\ Served >= ScriptSize - 1
      BY <2>1, <3>1 DEF Stored
    <3>3. Served \in Nat /\ Blocks \in Nat \ {0} /\ ScriptSize = 2 * Blocks + 4
      BY <2>1, <3>1, CountTypes, PushScript
    <3>4. Served >= 2 /\ Kept = Blocks
      BY <3>2, <3>3 DEF Kept
    <3>5. Len(device.file) = Blocks /\ \A i \in 1..Blocks : device.file[i] = Whole[i]
      BY <2>1, <3>1, <3>2, <3>4 DEF Stored
    <3>6. device.file \in Seq(Token) /\ Whole \in Seq(Token) /\ Len(Whole) = Blocks
      <4>1. source \in {"none", "memory", "packet", "chunks"} /\ device \in DeviceType
        BY <2>1, Types
      <4>2. Whole \in Seq(ToSet(Content))
        BY <4>1, WholeBlocks
      <4> QED
        BY <4>1, <4>2, WordTokens, SeqMonotonic DEF DeviceType, Blocks
    <3> QED
      BY <3>2, <3>5, <3>6, SeqEqual
  <2>3. result = "done" /\ op \in {"pull", "list"} => local = Content
    BY <2>1 DEF Told, Answered, Asking
  <2>4. result = "done" /\ op = "install" => device.installed
    BY <2>1 DEF Commanded
  <2>5. result = "failed" /\ op = "pull" => local \in {<<>>, <<"old">>}
    BY <2>1 DEF Answered, Asking
  <2>6. exit # "none" => exit = device.code
    BY <2>1 DEF Commanded
  <2> QED
    BY <2>2, <2>3, <2>4, <2>5, <2>6 DEF Truthful
<1> QED
  BY <1>1, ServiceInvariant, PTL

=============================================================================
