----------------------------- MODULE RingBuffer -----------------------------
(***************************************************************************)
(* adb/util/RingBuffer.h: the single-producer single-consumer byte ring    *)
(* every ADB stream reads from, with the three threads that use it.        *)
(*                                                                         *)
(*  - the producer is the WRTE branch of Adb::handleInLoop: it takes a     *)
(*    contiguous free region, receives bytes into it and commits them; on  *)
(*    a full ring it blocks in waitForSpace(1, -1), and when that returns  *)
(*    false (the ring is closed) it discards bytes of the packet;          *)
(*  - the consumer is one round of Adb::streamReadToBuffer:                *)
(*    waitForData(target, timeout), then copyTo(want);                     *)
(*  - the closer is whichever thread calls close().                        *)
(*                                                                         *)
(* getWritePtr, commitWrite, getReadPtr and consumeRead take no lock.      *)
(* Waiting takes mutex_, evaluates the predicate and then releases mutex_  *)
(* and joins the condition variable's waiters in one step: the step        *)
(* between evaluating and joining is where a notification sent without     *)
(* the mutex is lost.                                                      *)
(*                                                                         *)
(* A byte is its position in the stream, counted from 1.  0 is the value   *)
(* of a slot never written.                                                *)
(***************************************************************************)
EXTENDS Naturals

CONSTANTS Capacity,   \* capacity_; a power of two in the code, so & mask_ is % Capacity
          MaxBytes,   \* bound: bytes the device sends in a behaviour
          Reads       \* the rounds of reading: [want, target, timed]

ASSUME RingAssumption ==
  /\ Capacity \in Nat \ {0}
  /\ MaxBytes \in Nat
  /\ Reads \subseteq [want : Nat \ {0}, target : 1..Capacity, timed : BOOLEAN]

VARIABLES buffer,     \* buffer_
          head, tail, \* head_, tail_: monotonic
          closed,     \* closed_
          mutex,      \* the thread that holds mutex_, or "none"
          pc,         \* where each thread is
          next,       \* bytes the producer has received from the channel
          region,     \* size of the region getWritePtr gave and the packet fills
          read,       \* the consumer's current round
          left,       \* bytes copyTo still has to copy in it
          taken       \* size of the region getReadPtr gave and memcpy reads

vars == <<buffer, head, tail, closed, mutex, pc, next, region, read, left, taken>>

Threads == {"producer", "consumer", "closer"}
Slots == 0..(Capacity - 1)
Smaller(a, b) == IF a <= b THEN a ELSE b

Size == head - tail
FreeSpace == Capacity - Size
WriteIdx == head % Capacity
ReadIdx == tail % Capacity

Init ==
  /\ buffer = [s \in Slots |-> 0]
  /\ head = 0 /\ tail = 0
  /\ closed = FALSE
  /\ mutex = "none"
  /\ pc = [producer |-> "get", consumer |-> "idle", closer |-> "open"]
  /\ next = 0 /\ region = 0
  /\ read \in Reads /\ left = 0
  /\ taken = 0

Goto(t, label) == pc' = [pc EXCEPT ![t] = label]

\* cv_.notify_all() by t, which goes on to label: every waiter must take the mutex again.
NotifyAll(t, label) ==
  pc' = [u \in Threads |-> IF u = t THEN label
                           ELSE IF pc[u] = "asleep" THEN "lock" ELSE pc[u]]

-----------------------------------------------------------------------------
(* The producer.                                                           *)

\* A faulty variant: the region may run over bytes that are not yet consumed.
WriteSpaceIgnoringTail == Capacity - WriteIdx
\* The size of the region getWritePtr gives; 0 when the ring is full.
WriteSpace == Smaller(FreeSpace, Capacity - WriteIdx)

\* getWritePtr, and the size min(remaining, available, contiguous) the packet asks for.
GetWritePtr ==
  /\ pc["producer"] = "get" /\ next < MaxBytes
  /\ \/ WriteSpace = 0 /\ Goto("producer", "wait") /\ UNCHANGED region
     \/ /\ \E n \in 1..WriteSpace : next + n <= MaxBytes /\ region' = n
        /\ Goto("producer", "fill")
  /\ UNCHANGED <<buffer, head, tail, closed, mutex, next, read, left, taken>>

\* channel_->readWithTimeout into the region.
Fill ==
  /\ pc["producer"] = "fill"
  /\ buffer' = [s \in Slots |->
                  IF s \in WriteIdx .. WriteIdx + region - 1
                    THEN next + 1 + (s - WriteIdx) ELSE buffer[s]]
  /\ Goto("producer", "commit")
  /\ UNCHANGED <<head, tail, closed, mutex, next, region, read, left, taken>>

CommitWrite ==
  /\ pc["producer"] = "commit"
  /\ head' = head + region
  /\ next' = next + region
  /\ Goto("producer", "notify")
  /\ UNCHANGED <<buffer, tail, closed, mutex, region, read, left, taken>>

CommitNotify ==
  /\ pc["producer"] = "notify"
  /\ NotifyAll("producer", "get")
  /\ UNCHANGED <<buffer, head, tail, closed, mutex, next, region, read, left, taken>>

\* waitForSpace returned false: the loop reads bytes of the packet to nowhere.
Drain ==
  /\ pc["producer"] = "drain"
  /\ \E n \in 1..(MaxBytes - next) : next' = next + n
  /\ Goto("producer", "get")
  /\ UNCHANGED <<buffer, head, tail, closed, mutex, region, read, left, taken>>

-----------------------------------------------------------------------------
(* The consumer.                                                           *)

StartRead ==
  /\ pc["consumer"] = "idle"
  /\ \E r \in Reads : read' = r /\ left' = r.want
  /\ Goto("consumer", "wait")
  /\ UNCHANGED <<buffer, head, tail, closed, mutex, next, region, taken>>

\* A faulty variant: the last region of a copy is not cut to the bytes still wanted.
ReadSpaceIgnoringCount == Smaller(Size, Capacity - ReadIdx)
\* What one turn of copyTo takes of the region getReadPtr gives; 0 ends the loop.
ReadSpace == Smaller(left, Smaller(Size, Capacity - ReadIdx))

\* One turn of copyTo's loop: getReadPtr and memcpy, or the end of the loop.
GetReadPtr ==
  /\ pc["consumer"] = "copy"
  /\ \/ ReadSpace = 0 /\ Goto("consumer", "idle") /\ UNCHANGED taken
     \/ ReadSpace > 0 /\ taken' = ReadSpace /\ Goto("consumer", "consume")
  /\ UNCHANGED <<buffer, head, tail, closed, mutex, next, region, read, left>>

ConsumeRead ==
  /\ pc["consumer"] = "consume"
  /\ tail' = tail + taken
  /\ left' = left - taken
  /\ Goto("consumer", "notify")
  /\ UNCHANGED <<buffer, head, closed, mutex, next, region, read, taken>>

ConsumeNotify ==
  /\ pc["consumer"] = "notify"
  /\ NotifyAll("consumer", "copy")
  /\ UNCHANGED <<buffer, head, tail, closed, mutex, next, region, read, left, taken>>

-----------------------------------------------------------------------------
(* waitForData and waitForSpace.                                           *)

Waiters == {"producer", "consumer"}
Ready(t) == IF t = "producer" THEN FreeSpace >= 1 ELSE Size >= read.target
Timed(t) == t = "consumer" /\ read.timed
Returned(t, ok) == IF t = "producer" THEN (IF ok THEN "get" ELSE "drain")
                                     ELSE (IF ok THEN "copy" ELSE "idle")
data == <<buffer, head, tail, next, region, read, left, taken>>

\* The checks made without the lock: enough already, then closed already.
FastPath(t) ==
  /\ \/ /\ pc[t] = "wait"
        /\ Goto(t, IF Ready(t) THEN Returned(t, TRUE) ELSE "waitClosed")
     \/ /\ pc[t] = "waitClosed"
        /\ Goto(t, IF closed THEN Returned(t, FALSE) ELSE "lock")
  /\ UNCHANGED <<closed, mutex, data>>

Lock(t) ==
  /\ pc[t] = "lock" /\ mutex = "none"
  /\ mutex' = t
  /\ Goto(t, "check")
  /\ UNCHANGED <<closed, data>>

\* A faulty variant: the predicate of the wait forgets closed_.
WakesForgettingClosed(t) == Ready(t)
Wakes(t) == Ready(t) \/ closed

\* The predicate of cv_.wait / cv_.wait_for, under the mutex.  After an infinite wait the
\* result is the size evaluated again; after a timed one it is the predicate itself.
Check(t) ==
  /\ pc[t] = "check"
  /\ IF Wakes(t)
       THEN mutex' = "none" /\ Goto(t, Returned(t, Ready(t) \/ Timed(t)))
       ELSE mutex' = mutex /\ Goto(t, "doze")
  /\ UNCHANGED <<closed, data>>

\* A faulty variant: the mutex is kept while sleeping.
MutexWhileAsleep(t) == "none"

\* The wait releases the mutex and sleeps, in one step.
Doze(t) ==
  /\ pc[t] = "doze"
  /\ mutex' = MutexWhileAsleep(t)
  /\ Goto(t, "asleep")
  /\ UNCHANGED <<closed, data>>

\* A faulty variant: the wait starts over after a timeout.
AfterTimeoutAgain(t) == "lock"
AfterTimeout(t) == Returned(t, FALSE)

\* wait_for times out: it takes the mutex again and returns the predicate.
Expire(t) ==
  /\ pc[t] = "asleep" /\ Timed(t) /\ mutex = "none"
  /\ Goto(t, IF Wakes(t) THEN Returned(t, TRUE) ELSE AfterTimeout(t))
  /\ UNCHANGED <<closed, mutex, data>>

-----------------------------------------------------------------------------
(* close().                                                                *)

\* A faulty variant: the waiters are notified without taking the mutex first.
AfterClosedWithoutMutex == "notify"
AfterClosed == "lock"

Close ==
  /\ \/ pc["closer"] = "open" /\ closed' = TRUE /\ Goto("closer", AfterClosed) /\ UNCHANGED mutex
     \/ /\ pc["closer"] = "lock" /\ mutex = "none"
        /\ mutex' = "closer"
        /\ Goto("closer", "notify")
        /\ UNCHANGED closed
     \/ /\ pc["closer"] = "notify"
        /\ NotifyAll("closer", "done")
        /\ mutex' = IF mutex = "closer" THEN "none" ELSE mutex
        /\ UNCHANGED closed
  /\ UNCHANGED data

-----------------------------------------------------------------------------
Producer == GetWritePtr \/ Fill \/ CommitWrite \/ CommitNotify \/ Drain
Consumer == StartRead \/ GetReadPtr \/ ConsumeRead \/ ConsumeNotify
Wait(t) == FastPath(t) \/ Lock(t) \/ Check(t) \/ Doze(t) \/ Expire(t)

Next == Producer \/ Consumer \/ Close \/ \E t \in Waiters : Wait(t)

Spec == Init /\ [][Next]_vars

\* Threads run, and a started close() finishes; nothing makes a reader start a round, the
\* device send bytes, or anyone close the stream.
Fairness ==
  /\ WF_vars(Fill \/ CommitWrite \/ CommitNotify)
  /\ WF_vars(GetReadPtr \/ ConsumeRead \/ ConsumeNotify)
  /\ WF_vars(pc["closer"] # "open" /\ Close)
  /\ \A t \in Waiters : WF_vars(Wait(t))

FairSpec == Spec /\ Fairness

-----------------------------------------------------------------------------
(* Properties.                                                             *)

WaitLabels == {"wait", "waitClosed", "lock", "check", "doze", "asleep"}
Blocked(t) == pc[t] \in WaitLabels
Labels == WaitLabels \cup {"get", "fill", "commit", "notify", "drain", "idle", "copy", "consume",
                          "open", "done"}

\* Every variable has its type: no cursor or count goes below zero.
TypeOK ==
  /\ buffer \in [Slots -> Nat]
  /\ head \in Nat /\ tail \in Nat
  /\ closed \in BOOLEAN
  /\ mutex \in Threads \cup {"none"}
  /\ pc \in [Threads -> Labels]
  /\ next \in Nat /\ region \in Nat
  /\ read \in Reads /\ left \in Nat /\ taken \in Nat

\* The cursors never cross and never lie more than a capacity apart, with the regions that
\* getWritePtr and getReadPtr have handed out counted as used.
Bounds ==
  /\ tail <= head /\ head <= tail + Capacity
  /\ pc["producer"] \in {"fill", "commit"} =>
       /\ region > 0 /\ head + region <= tail + Capacity
       /\ WriteIdx + region <= Capacity
  /\ pc["consumer"] = "consume" =>
       /\ taken > 0 /\ taken <= left /\ tail + taken <= head
       /\ ReadIdx + taken <= Capacity

WriteRegion == {s \in Slots : pc["producer"] = "fill" /\ WriteIdx <= s
                                /\ s < WriteIdx + region}
ReadRegion == {s \in Slots : pc["consumer"] = "consume" /\ ReadIdx <= s
                               /\ s < ReadIdx + taken}

\* The producer receives into no slot that the consumer is copying from: the lock-free
\* sides never touch the same byte.
NoDataRace == WriteRegion \cap ReadRegion = {}

\* Bytes committed and not consumed: the queue of the abstract specification.
queue == [k \in 1..Size |-> buffer[(tail + k - 1) % Capacity]]

Fifo == INSTANCE ByteFifo WITH sent <- next

\* The ring is a bounded FIFO of the stream's bytes: nothing is lost, repeated, reordered or
\* overwritten until it is closed, and after that the only loss is what the writer discards.
IsFifo == Fifo!Spec

\* mutex_ is held by exactly the thread that evaluates a predicate or notifies in close().
MutexHeld ==
  \A t \in Threads :
    mutex = t <=> \/ t \in Waiters /\ pc[t] \in {"check", "doze"}
                  \/ t = "closer" /\ pc[t] = "notify"

\* close() wakes everyone: no reader or writer stays blocked in a wait for ever, although
\* the notifications of commitWrite and consumeRead can be lost.
CloseWakesAll == \A t \in Waiters : closed ~> ~Blocked(t)

\* A timed read always returns.
TimedReadReturns == (Blocked("consumer") /\ read.timed) ~> ~Blocked("consumer")

\* Every wait ends that has a reason to: the end of the stream or of its time.
WaitsEnd == CloseWakesAll /\ TimedReadReturns
=============================================================================
