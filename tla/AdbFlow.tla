------------------------------ MODULE AdbFlow ------------------------------
(***************************************************************************)
(* adb/core/Adb.cpp: the write side of the established streams of one ADB  *)
(* connection, the loop that answers the device, and the closing of a      *)
(* stream and of the connection.                                           *)
(*                                                                         *)
(* ADB lets a stream have one WRTE outstanding: canWrite is the credit,    *)
(* taken when a WRTE is queued and given back by the device's OKAY.        *)
(* Writers call streamWrite (which keeps what it may not send yet in       *)
(* pendingWriteBuffer) or, for the sync services, streamWriteRaw; sendLoop *)
(* moves sendQueue_ to the channel; handleInLoop handles what the device   *)
(* sends; readers take payloads out of the read buffers, which are counted *)
(* here (module RingBuffer is the buffer); anyone may close.               *)
(*                                                                         *)
(* The channel is a reliable connection, so that a message written to it   *)
(* is a message the device gets.  Byte k of a stream is the k-th byte that *)
(* was accepted from its writers.                                          *)
(*                                                                         *)
(* On the control stream of scrcpy a call writes one control message, and  *)
(* the unit is the message: number k is the k-th accepted message.  There  *)
(* streamWrite merges the pending moves of a touch pointer when the device *)
(* is slow.  Lengths are left out: a message is a move (32 bytes) of one   *)
(* pointer or any other message, and a chunk ends between two messages.    *)
(*                                                                         *)
(* The send queue is one sequence.  That of the code is FIFO for each of   *)
(* its producers only; no property depends on the difference, because a    *)
(* stream never has two WRTEs in it.                                       *)
(***************************************************************************)
EXTENDS Naturals, Sequences, FiniteSets

CONSTANTS Streams,
          Writers,
          StreamOf,        \* the stream each writer writes to
          ChunkLimit,      \* maxData_ - 128
          QueueLimit,      \* 5000 in writeToChannel
          RingSpace,       \* WRTE payloads a read buffer has room for
          CompactAt,       \* CONTROL_STALE_MOVE_COMPACT_THRESHOLD_BYTES, in touch messages
          Pointers,        \* the pointers of touch messages
          MaxPending,      \* MAX_PENDING_WRITE_BYTES, for each use of a stream in its units
          MaxAccepted,     \* bound: what is accepted for a stream, for each use
          MaxDeviceWrites  \* bound: WRTEs the device sends on a stream, for each use

NoOne == "none"
Uses == {"plain", "sync", "control"}
\* A control message that is not a move.
Other == "other"

ASSUME FlowAssumption ==
  /\ StreamOf \in [Writers -> Streams]
  /\ MaxPending \in [Uses -> Nat \ {0}] /\ ChunkLimit \in Nat \ {0}
  /\ QueueLimit \in Nat /\ RingSpace \in Nat \ {0}
  /\ CompactAt \in Nat
  /\ MaxAccepted \in [Uses -> Nat] /\ MaxDeviceWrites \in [Uses -> Nat]
  /\ Other \notin Pointers
  /\ NoOne \notin Writers \cup Streams

VARIABLES use,        \* what a stream is used for: "control" is scrcpy's control stream, a "sync"
                      \* service writes with streamWriteRaw, "plain" is any other
          stream,     \* AdbStream, the bytes accepted for it, which of its messages are moves
                      \* (number and pointer), and where its streamClose is
          writer,     \* each writer: where it is, and the bytes of its call still to accept
          sendQueue,  \* sendQueue_
          handle,     \* handleInLoop: where it is, and the stream it works for
          conn,       \* isClosed_, whether sendLoop runs, who runs close() and where it is
          toHost,     \* what the device has sent and handleInLoop has not read
          device      \* the device's end of each stream

vars == <<use, stream, writer, sendQueue, handle, conn, toHost, device>>

Smaller(a, b) == IF a <= b THEN a ELSE b
\* The n bytes after byte k.
Bytes(k, n) == [i \in 1..n |-> k + i]

Wrte(s, bytes) == [cmd |-> "WRTE", stream |-> s, data |-> bytes]
Okay(s) == [cmd |-> "OKAY", stream |-> s, data |-> <<>>]
Clse(s) == [cmd |-> "CLSE", stream |-> s, data |-> <<>>]

Reading == [at |-> "read", stream |-> NoOne]
Idle == [at |-> "idle", left |-> 0]

Init ==
  /\ use \in [Streams -> Uses]
  /\ stream = [s \in Streams |->
       [canWrite |-> TRUE, pending |-> <<>>, lock |-> NoOne, closed |-> FALSE, listed |-> TRUE,
        ring |-> 0, accepted |-> 0, moves |-> {}, closer |-> "none"]]
  /\ writer = [w \in Writers |-> Idle]
  /\ sendQueue = <<>>
  /\ handle = Reading
  /\ conn = [closed |-> FALSE, sending |-> TRUE, by |-> NoOne, at |-> "open"]
  /\ toHost = <<>>
  /\ device = [s \in Streams |->
       [open |-> TRUE, owes |-> FALSE, credit |-> TRUE, wrote |-> 0, received |-> <<>>]]

Closed(s) == conn.closed \/ stream[s].closed

\* A faulty variant: a queue that is not empty counts as full.
EnqueueIfEmpty(q, m) == IF conn.closed \/ q # <<>> THEN q ELSE Append(q, m)
\* writeToChannel: nothing after close(), nothing more than the queue's limit.
Enqueue(q, m) == IF conn.closed \/ Len(q) > QueueLimit THEN q ELSE Append(q, m)

\* Faulty variants: the last byte of a chunk is kept; the whole buffer is cleared.
RestRepeating(p, n) == SubSeq(p, n, Len(p))
RestClearing(p, n) == <<>>
\* The pending bytes after a chunk of n.
Rest(p, n) == SubSeq(p, n + 1, Len(p))

\* A faulty variant: the credit stays after it is used.
CreditAfterWrteKept == TRUE
CreditAfterWrte == FALSE

\* flushPendingWritesLocked on a stream in state x and a queue q: with the credit one chunk of
\* the pending bytes is queued and the credit is gone, which ends the loop.
CanFlush(s, x) == x.canWrite /\ x.pending # <<>> /\ ~Closed(s)
Chunk(x) == Smaller(ChunkLimit, Len(x.pending))
Flushed(s, x) ==
  IF CanFlush(s, x) THEN [x EXCEPT !.canWrite = CreditAfterWrte, !.pending = Rest(@, Chunk(x))] ELSE x
FlushedQueue(s, x, q) ==
  IF CanFlush(s, x) THEN Enqueue(q, Wrte(s, SubSeq(x.pending, 1, Chunk(x)))) ELSE q

SetStream(s, x) == stream' = [stream EXCEPT ![s] = x]
GoTo(w, label) == writer' = [writer EXCEPT ![w].at = label]
\* notifyAll, which ends the step that it follows in the code (a check made in between already
\* sees what that step has done).  The waits with a time limit need none.
NotifyAll ==
  writer' = [w \in Writers |-> IF writer[w].at = "asleep" THEN [writer[w] EXCEPT !.at = "check"]
                                                          ELSE writer[w]]

-----------------------------------------------------------------------------
(* streamWrite.                                                            *)

Raw(w) == use[StreamOf[w]] = "sync"

\* What a call may write: one message, or some of the bytes that are left.
Call(s) ==
  LET left == MaxAccepted[use[s]] - stream[s].accepted IN
  IF use[s] = "control" THEN Smaller(1, left) ELSE left

\* It is called with n bytes and takes writeMutex.  The control stream is written by one thread.
StartWrite(w) ==
  LET s == StreamOf[w] IN
  /\ writer[w].at = "idle" /\ ~Raw(w) /\ ~stream[s].closed /\ stream[s].lock = NoOne
  /\ use[s] = "control" => \A v \in Writers : StreamOf[v] = s => writer[v].at = "idle"
  /\ \E n \in 1..Call(s) : writer' = [writer EXCEPT ![w] = [at |-> "round", left |-> n]]
  /\ SetStream(s, [stream[s] EXCEPT !.lock = w])
  /\ UNCHANGED <<use, sendQueue, handle, conn, toHost, device>>

\* It takes writeMutex again after the wait for room, which lasts at most 100 ms.
LockStream(w) ==
  LET s == StreamOf[w] IN
  /\ writer[w].at = "lock" /\ stream[s].lock = NoOne
  /\ SetStream(s, [stream[s] EXCEPT !.lock = w])
  /\ GoTo(w, "round")
  /\ UNCHANGED <<use, sendQueue, handle, conn, toHost, device>>

\* One turn of its loop that has room: the checks and a flush.
CheckRound(w) ==
  LET s == StreamOf[w]
      x == Flushed(s, stream[s])
  IN
  /\ writer[w].at = "round" /\ ~Closed(s) /\ Len(x.pending) < MaxPending[use[s]]
  /\ SetStream(s, x)
  /\ sendQueue' = FlushedQueue(s, stream[s], sendQueue)
  /\ GoTo(w, "append")
  /\ UNCHANGED <<use, handle, conn, toHost, device>>

\* Of a stream in state x: message k is a move; a and b are moves of one pointer; what is
\* pending from place i to place j are moves only.
IsMove(x, k) == \E f \in Pointers : <<k, f>> \in x.moves
SamePointer(x, a, b) == \E f \in Pointers : {<<a, f>>, <<b, f>>} \subseteq x.moves
\* A faulty variant: the moves are not put back before another message.
OneRunAlways(x, i, j) == IsMove(x, x.pending[i]) /\ IsMove(x, x.pending[j])
OneRun(x, i, j) == \A k \in i..j : IsMove(x, x.pending[k])

\* The later moves of the pointer in the run of place i, the last of which takes its place.
Again(x, i) ==
  {j \in i..Len(x.pending) : j = i \/ (OneRun(x, i, j) /\ SamePointer(x, x.pending[i], x.pending[j]))}
Latest(x, i) == CHOOSE j \in Again(x, i) : \A k \in Again(x, i) : k <= j

\* The places that stay when a move of pointer m is written: all but the moves with an earlier
\* one of their pointer in the run, and in the last run those of m.
Places(x, m) ==
  {i \in DOMAIN x.pending :
     /\ \A h \in 1..i : i \in Again(x, h) => h = i
     /\ ~(OneRun(x, i, Len(x.pending)) /\ <<x.pending[i], m>> \in x.moves)}

\* The sequences of the members of a set of numbers in increasing order: there is one.
Increasing(S) ==
  {f \in [1..Cardinality(S) -> S] : /\ \A k \in S : \E i \in DOMAIN f : f[i] = k
                                    /\ \A i, j \in DOMAIN f : i < j => f[i] < f[j]}

\* compactControlPendingMovesForCurrentMove: what is pending when a call writes m.  It must be
\* long enough and a whole number of touch messages, which depends on the lengths of the other
\* messages in it.
OnlyMoves(x) == \A i \in DOMAIN x.pending : IsMove(x, x.pending[i])
Merged(x, m) ==
  {[i \in DOMAIN f |-> x.pending[Latest(x, f[i])]] : f \in Increasing(Places(x, m))}
PendingBefore(x, m) ==
  LET long == Len(x.pending) >= CompactAt IN
  {p \in {x.pending} : m \notin Pointers \/ ~long \/ ~OnlyMoves(x)}
  \cup {p \in Merged(x, m) : m \in Pointers /\ (long \/ ~OnlyMoves(x))}

\* And the rest of the turn, whether the stream is still open or not: compact, keep a chunk,
\* flush.
AppendRound(w) ==
  LET s == StreamOf[w] IN
  /\ writer[w].at = "append"
  /\ \E m \in IF use[s] = "control" THEN Pointers \cup {Other} ELSE {Other} :
     \E p \in PendingBefore(stream[s], m) :
       LET n == Smaller(MaxPending[use[s]] - Len(p), writer[w].left)
           a == stream[s].accepted
           x == [stream[s] EXCEPT
                   !.pending = p \o Bytes(a, n), !.accepted = a + n,
                   !.moves = @ \cup {f \in {<<a + 1, m>>} : m \in Pointers},
                   !.lock = IF n = writer[w].left THEN NoOne ELSE w]
       IN /\ SetStream(s, Flushed(s, x))
          /\ sendQueue' = FlushedQueue(s, x, sendQueue)
          /\ writer' = [writer EXCEPT ![w] = IF n = @.left THEN Idle
                                             ELSE [at |-> "round", left |-> @.left - n]]
  /\ UNCHANGED <<use, handle, conn, toHost, device>>

\* A faulty variant: the writer waits with writeMutex held.
LockWhileWaitingHeld(w) == w
LockWhileWaiting(w) == NoOne

\* One turn without room: flush, release writeMutex and wait.
FullRound(w) ==
  LET s == StreamOf[w]
      x == Flushed(s, stream[s])
  IN
  /\ writer[w].at = "round" /\ ~Closed(s) /\ Len(x.pending) >= MaxPending[use[s]]
  /\ SetStream(s, [x EXCEPT !.lock = LockWhileWaiting(w)])
  /\ sendQueue' = FlushedQueue(s, stream[s], sendQueue)
  /\ GoTo(w, "lock")
  /\ UNCHANGED <<use, handle, conn, toHost, device>>

\* It throws: the connection or the stream is closed.
ThrowRound(w) ==
  LET s == StreamOf[w] IN
  /\ writer[w].at \in {"round", "append"} /\ Closed(s)
  /\ SetStream(s, [stream[s] EXCEPT !.lock = NoOne])
  /\ writer' = [writer EXCEPT ![w] = Idle]
  /\ UNCHANGED <<use, sendQueue, handle, conn, toHost, device>>

-----------------------------------------------------------------------------
(* streamWriteRaw.                                                         *)

StartRawWrite(w) ==
  LET s == StreamOf[w] IN
  /\ writer[w].at = "idle" /\ Raw(w) /\ ~stream[s].closed
  /\ \E n \in 1..Call(s) :
       writer' = [writer EXCEPT ![w] = [at |-> "check", left |-> n]]
  /\ UNCHANGED <<use, stream, sendQueue, handle, conn, toHost, device>>

\* The predicate of the wait, under waitMutex_.
RawCheck(w) ==
  LET s == StreamOf[w] IN
  /\ writer[w].at = "check"
  /\ GoTo(w, IF Closed(s) \/ stream[s].canWrite THEN "raw" ELSE "doze")
  /\ UNCHANGED <<use, stream, sendQueue, handle, conn, toHost, device>>

RawDoze(w) ==
  /\ writer[w].at = "doze"
  /\ GoTo(w, "asleep")
  /\ UNCHANGED <<use, stream, sendQueue, handle, conn, toHost, device>>

\* After the wait: it throws, or finds the credit taken by another writer and waits again.
RawRetry(w) ==
  LET s == StreamOf[w] IN
  /\ writer[w].at = "raw" /\ stream[s].lock = NoOne
  /\ \/ Closed(s) /\ writer' = [writer EXCEPT ![w] = Idle]
     \/ ~Closed(s) /\ ~stream[s].canWrite /\ GoTo(w, "check")
  /\ UNCHANGED <<use, stream, sendQueue, handle, conn, toHost, device>>

\* Or it takes the credit and queues a chunk.
RawSend(w) ==
  LET s == StreamOf[w]
      n == Smaller(ChunkLimit, writer[w].left)
  IN
  /\ writer[w].at = "raw" /\ stream[s].lock = NoOne /\ ~Closed(s) /\ stream[s].canWrite
  /\ SetStream(s, [stream[s] EXCEPT !.canWrite = CreditAfterWrte, !.accepted = @ + n])
  /\ sendQueue' = Enqueue(sendQueue, Wrte(s, Bytes(stream[s].accepted, n)))
  /\ writer' = [writer EXCEPT ![w] = IF n = @.left THEN Idle
                                                   ELSE [at |-> "check", left |-> @.left - n]]
  /\ UNCHANGED <<use, handle, conn, toHost, device>>

-----------------------------------------------------------------------------
(* sendLoop and the device.                                                *)

\* The head of the queue is written to the channel and the device gets it: bytes that it will
\* acknowledge, the acknowledgement of its own, or the end.
Send ==
  LET m == Head(sendQueue)
      s == m.stream
  IN
  /\ conn.sending /\ ~conn.closed /\ sendQueue # <<>>
  /\ sendQueue' = Tail(sendQueue)
  /\ IF ~device[s].open
       THEN UNCHANGED <<device, toHost>>
       ELSE /\ device' = [device EXCEPT ![s] =
                 [open |-> m.cmd # "CLSE", owes |-> @.owes \/ m.cmd = "WRTE",
                  credit |-> @.credit \/ m.cmd = "OKAY",
                  wrote |-> @.wrote, received |-> @.received \o m.data]]
            /\ toHost' = IF m.cmd = "CLSE" THEN Append(toHost, m) ELSE toHost
  /\ UNCHANGED <<use, stream, writer, handle, conn>>

SendExit ==
  /\ conn.sending /\ conn.closed /\ conn.by # "send"
  /\ conn' = [conn EXCEPT !.sending = FALSE]
  /\ UNCHANGED <<use, stream, writer, sendQueue, handle, toHost, device>>

DeviceSends(s, m, d) ==
  /\ ~conn.closed /\ device[s].open
  /\ device' = [device EXCEPT ![s] = d]
  /\ toHost' = Append(toHost, m)
  /\ UNCHANGED <<use, stream, writer, sendQueue, handle, conn>>

DeviceAcks(s) ==
  device[s].owes /\ DeviceSends(s, Okay(s), [device[s] EXCEPT !.owes = FALSE])
DeviceWrites(s) ==
  /\ device[s].credit /\ device[s].wrote < MaxDeviceWrites[use[s]]
  /\ DeviceSends(s, Wrte(s, <<>>), [device[s] EXCEPT !.credit = FALSE, !.wrote = @ + 1])
DeviceCloses(s) == DeviceSends(s, Clse(s), [device[s] EXCEPT !.open = FALSE])

-----------------------------------------------------------------------------
(* handleInLoop.                                                           *)

First == Head(toHost)
Reads(cmds) ==
  /\ handle.at = "read" /\ ~conn.closed
  /\ toHost # <<>> /\ First.cmd \in cmds
  /\ toHost' = Tail(toHost)

\* A message for a stream that is already closed is ignored; after a CLSE the waiters are
\* notified all the same.
HandleLate ==
  /\ Reads({"OKAY", "WRTE", "CLSE"}) /\ stream[First.stream].closed
  /\ IF First.cmd = "CLSE" THEN NotifyAll ELSE UNCHANGED writer
  /\ UNCHANGED <<use, stream, sendQueue, handle, conn, device>>

\* OKAY: the credit is back; under writeMutex the pending bytes are flushed.
HandleOkay ==
  LET s == First.stream
      x == [stream[s] EXCEPT !.canWrite = TRUE]
  IN
  /\ Reads({"OKAY"}) /\ ~stream[s].closed /\ stream[s].lock = NoOne
  /\ SetStream(s, Flushed(s, x))
  /\ sendQueue' = FlushedQueue(s, x, sendQueue)
  /\ NotifyAll
  /\ UNCHANGED <<use, handle, conn, device>>

HandleWrte ==
  /\ Reads({"WRTE"}) /\ ~stream[First.stream].closed
  /\ handle' = [at |-> "store", stream |-> First.stream]
  /\ UNCHANGED <<use, stream, writer, sendQueue, conn, device>>

\* A faulty variant: the payload is stored whatever room there is.
HasSpaceAlways(s) == TRUE
HasSpace(s) == stream[s].ring < RingSpace

\* The payload goes into the read buffer, when there is room, and is acknowledged unless the
\* stream was closed meanwhile; when the buffer is full and closed the payload is dropped.
HandleStore ==
  LET s == handle.stream IN
  /\ handle.at = "store" /\ (HasSpace(s) \/ stream[s].closed)
  /\ SetStream(s, IF HasSpace(s) THEN [stream[s] EXCEPT !.ring = @ + 1] ELSE stream[s])
  /\ sendQueue' = IF stream[s].closed THEN sendQueue ELSE Enqueue(sendQueue, Okay(s))
  /\ handle' = Reading
  /\ UNCHANGED <<use, writer, conn, toHost, device>>

\* CLSE, first the flag and the read buffer.
HandleClse ==
  LET s == First.stream IN
  /\ Reads({"CLSE"}) /\ ~stream[s].closed
  /\ SetStream(s, [stream[s] EXCEPT !.closed = TRUE])
  /\ handle' = [at |-> "clear", stream |-> s]
  /\ UNCHANGED <<use, writer, sendQueue, conn, device>>

\* A faulty variant: the pending bytes stay.
ClearedKeeping(x) == x
Cleared(x) == [x EXCEPT !.pending = <<>>]

\* A faulty variant: the pending bytes are cleared without writeMutex.
MayClearAnytime(s) == TRUE
MayClear(s) == stream[s].lock = NoOne

\* Then, under writeMutex, the pending bytes; and the stream leaves connectionStreams_.
HandleClear ==
  LET s == handle.stream IN
  /\ handle.at = "clear" /\ MayClear(s)
  /\ SetStream(s, [Cleared(stream[s]) EXCEPT !.listed = FALSE])
  /\ NotifyAll
  /\ handle' = Reading
  /\ UNCHANGED <<use, sendQueue, conn, toHost, device>>

HandleExit ==
  /\ handle.at = "read" /\ conn.closed
  /\ handle' = [handle EXCEPT !.at = "exited"]
  /\ UNCHANGED <<use, stream, writer, sendQueue, conn, toHost, device>>

\* A reader takes a payload out of the read buffer.
Read(s) ==
  /\ stream[s].ring > 0
  /\ SetStream(s, [stream[s] EXCEPT !.ring = @ - 1])
  /\ UNCHANGED <<use, writer, sendQueue, handle, conn, toHost, device>>

-----------------------------------------------------------------------------
(* streamClose: the CLSE, the flag and the read buffer, the pending bytes.  *)

CloseStream(s) ==
  /\ stream[s].listed /\ stream[s].closer = "none"
  /\ SetStream(s, [stream[s] EXCEPT !.listed = FALSE, !.closer = "mark"])
  /\ sendQueue' = Enqueue(sendQueue, Clse(s))
  /\ UNCHANGED <<use, writer, handle, conn, toHost, device>>

CloseStreamMark(s) ==
  /\ stream[s].closer = "mark"
  /\ SetStream(s, [stream[s] EXCEPT !.closed = TRUE, !.closer = "clear"])
  /\ UNCHANGED <<use, writer, sendQueue, handle, conn, toHost, device>>

CloseStreamClear(s) ==
  /\ stream[s].closer = "clear" /\ MayClear(s)
  /\ SetStream(s, [Cleared(stream[s]) EXCEPT !.closer = "done"])
  /\ NotifyAll
  /\ UNCHANGED <<use, sendQueue, handle, conn, toHost, device>>

-----------------------------------------------------------------------------
(* close().                                                                *)

\* The exchange of isClosed_ lets one caller through: the application, handleInLoop when a read
\* fails or sendLoop when a write fails.  A closing handleInLoop or sendLoop does nothing else.
\* With the channel closed nothing more is read from it.
CloseBegin(t) ==
  /\ ~conn.closed
  /\ \/ t = "application" /\ UNCHANGED handle
     \/ t = "handle" /\ handle.at \in {"read", "store"} /\ handle' = [handle EXCEPT !.at = "closing"]
     \/ t = "send" /\ sendQueue # <<>> /\ UNCHANGED handle
  /\ conn' = [conn EXCEPT !.closed = TRUE, !.by = t, !.at = "joinSend"]
  /\ toHost' = <<>>
  /\ UNCHANGED <<use, stream, writer, sendQueue, device>>

\* A faulty variant: sendLoop, when it is the caller, joins itself.
SendJoinedAlways == ~conn.sending
SendJoined == ~conn.sending \/ conn.by = "send"

\* sendLoop is joined, unless it is the caller; what it leaves in the queue is never sent.
CloseJoinSend ==
  /\ conn.at = "joinSend" /\ SendJoined
  /\ sendQueue' = <<>>
  /\ conn' = [conn EXCEPT !.at = "mark"]
  /\ UNCHANGED <<use, stream, writer, handle, toHost, device>>

CloseMark ==
  /\ conn.at = "mark"
  /\ stream' = [s \in Streams |-> [stream[s] EXCEPT !.closed = TRUE]]
  /\ NotifyAll
  /\ conn' = [conn EXCEPT !.at = "joinHandle"]
  /\ UNCHANGED <<use, sendQueue, handle, toHost, device>>

CloseJoinHandle ==
  /\ conn.at = "joinHandle" /\ (handle.at = "exited" \/ conn.by = "handle")
  /\ conn' = [conn EXCEPT !.at = "done"]
  /\ UNCHANGED <<use, stream, writer, sendQueue, handle, toHost, device>>

-----------------------------------------------------------------------------
Write(w) == \/ LockStream(w) \/ CheckRound(w) \/ AppendRound(w) \/ FullRound(w) \/ ThrowRound(w)
            \/ RawCheck(w) \/ RawDoze(w) \/ RawRetry(w) \/ RawSend(w)
Device(s) == DeviceAcks(s) \/ DeviceWrites(s) \/ DeviceCloses(s)
Handle == \/ HandleLate \/ HandleOkay \/ HandleWrte \/ HandleStore
          \/ HandleClse \/ HandleClear \/ HandleExit
FinishCloseStream(s) == CloseStreamMark(s) \/ CloseStreamClear(s)
FinishClose == CloseJoinSend \/ CloseMark \/ CloseJoinHandle
Closers == {"application", "handle", "send"}

Next ==
  \/ \E w \in Writers : StartWrite(w) \/ StartRawWrite(w) \/ Write(w)
  \/ \E s \in Streams : Device(s) \/ Read(s) \/ CloseStream(s) \/ FinishCloseStream(s)
  \/ Send \/ SendExit \/ Handle
  \/ \E t \in Closers : CloseBegin(t)
  \/ FinishClose

Spec == Init /\ [][Next]_vars

\* Threads run, the device acknowledges what it has received and every stream has a reader while
\* the connection is open.  A thread that waits for writeMutex gets it in the end, although
\* writers take it again and again.  Nothing makes anyone write or close.
Fairness ==
  /\ \A w \in Writers : SF_vars(Write(w))
  /\ WF_vars(Send \/ SendExit) /\ SF_vars(Handle) /\ WF_vars(FinishClose)
  /\ \A s \in Streams : /\ WF_vars(DeviceAcks(s)) /\ WF_vars(~conn.closed /\ Read(s))
                        /\ SF_vars(FinishCloseStream(s))

FairSpec == Spec /\ Fairness

-----------------------------------------------------------------------------
(* Properties.                                                             *)

Messages == [cmd : {"WRTE", "OKAY", "CLSE"}, stream : Streams, data : Seq(Nat)]
HostEnd == [canWrite : BOOLEAN, pending : Seq(Nat), lock : Writers \cup {NoOne},
            closed : BOOLEAN, listed : BOOLEAN, ring : 0..RingSpace, accepted : Nat,
            moves : SUBSET (Nat \X Pointers),
            closer : {"none", "mark", "clear", "done"}]
DeviceEnd == [open : BOOLEAN, owes : BOOLEAN, credit : BOOLEAN, wrote : Nat, received : Seq(Nat)]
WriterState == [at : {"idle", "lock", "round", "append", "check", "doze", "asleep", "raw"}, left : Nat]
HandleState == [at : {"store", "clear"}, stream : Streams]
               \cup [at : {"read", "closing", "exited"}, stream : Streams \cup {NoOne}]
ConnState == [closed : BOOLEAN, sending : BOOLEAN, by : Closers \cup {NoOne},
              at : {"open", "joinSend", "mark", "joinHandle", "done"}]

\* Every variable has its type; no read buffer holds more than it has room for.
TypeOK ==
  /\ use \in [Streams -> Uses]
  /\ stream \in [Streams -> HostEnd] /\ device \in [Streams -> DeviceEnd]
  /\ writer \in [Writers -> WriterState]
  /\ sendQueue \in Seq(Messages) /\ toHost \in Seq(Messages)
  /\ handle \in HandleState /\ conn \in ConnState

At(q, cmd, s) == {i \in DOMAIN q : q[i].cmd = cmd /\ q[i].stream = s}

\* The places a stream's credit can be: with the host, in a WRTE that waits to be sent, with
\* the device that has not acknowledged it, in an OKAY on its way back.
Credits(s) ==
  {c \in {<<"host", 0>>} : stream[s].canWrite}
  \cup {<<"queue", i>> : i \in At(sendQueue, "WRTE", s)}
  \cup {c \in {<<"device", 0>>} : device[s].owes}
  \cup {<<"okay", i>> : i \in At(toHost, "OKAY", s)}

Open(s) == ~Closed(s) /\ device[s].open

\* A stream never has two WRTEs outstanding, whoever writes, flushes or handles the OKAY.
OneOutstanding == \A s \in Streams : \A c, d \in Credits(s) : c = d

\* As long as both ends are open the credit is somewhere: the stream can still write.
CreditKept == \A s \in Streams : Open(s) => Credits(s) # {}

\* Message a may come before message b: it was accepted earlier, or both are of a run of moves,
\* of different pointers.
Precedes(x, a, b) ==
  a < b \/ (b < a /\ ~SamePointer(x, a, b) /\ \A k \in b..a : IsMove(x, k))

\* The device receives a prefix of the accepted bytes, also when the stream or the connection
\* is closed in the middle: never a gap, a repetition or a byte out of order.  On a control
\* stream a message overtakes no other, except a move the moves of other pointers, and none is
\* repeated.
InOrder ==
  \A s \in Streams :
    LET r == device[s].received IN
    IF use[s] = "control" THEN \A i, j \in DOMAIN r : i < j => Precedes(stream[s], r[i], r[j])
                          ELSE r = Bytes(0, Len(r))

\* The payload of the stream's WRTE in the send queue, if there is one.
Waiting(s) ==
  LET places == At(sendQueue, "WRTE", s) IN
  IF places = {} THEN <<>> ELSE sendQueue[CHOOSE i \in places : TRUE].data

\* Message j makes message k needless: a later move of the pointer, with moves only in between.
Supersedes(x, j, k) == k < j /\ SamePointer(x, k, j) /\ \A i \in k..j : IsMove(x, i)
\* Byte or message k is in sequence r, or one that makes it needless.
Covers(x, r, k) == \E i \in DOMAIN r : r[i] = k \/ Supersedes(x, r[i], k)

\* Every accepted byte of an open stream is received, in the one WRTE that waits, or pending;
\* every message of a control stream is, or a later move that makes it needless.
Lossless ==
  \A s \in Streams : Open(s) =>
    LET all == device[s].received \o Waiting(s) \o stream[s].pending IN
    IF use[s] = "control" THEN \A k \in 1..stream[s].accepted : Covers(stream[s], all, k)
                          ELSE all = Bytes(0, stream[s].accepted)

\* Once a stream is closed, by whichever side, its pending bytes are gone for good: no writer
\* that was inside streamWrite at that moment leaves some behind.
ClosedHoldsNothing ==
  \A s \in Streams :
    /\ stream[s].closed /\ ~conn.closed
    /\ stream[s].closer \notin {"mark", "clear"} /\ handle # [at |-> "clear", stream |-> s]
    => stream[s].pending = <<>>

\* What becomes of the bytes streamWrite has accepted: those of an open stream are on their way
\* or received, in order and complete, those of a closed one are received or gone.
BytesAccounted == InOrder /\ Lossless /\ ClosedHoldsNothing

MostAccepted == CHOOSE k \in {MaxAccepted[u] : u \in Uses} : \A u \in Uses : MaxAccepted[u] <= k

\* An accepted byte reaches the device, unless the stream or the connection is closed, although
\* the writer that left it pending may have returned long ago; and so does an accepted message,
\* or a later move that makes it needless.
BytesSent ==
  \A s \in Streams : \A k \in 1..MostAccepted :
    stream[s].accepted >= k ~> (Covers(stream[s], device[s].received, k) \/ ~Open(s))

\* A call of streamWrite returns or throws.
WriterReturns ==
  \A w \in Writers : (~Raw(w) /\ writer[w].at # "idle") ~> writer[w].at = "idle"

\* close() gets through both joins, whichever thread it runs on and whatever the two loops are
\* doing when it begins.
CloseCompletes == conn.closed ~> conn.at = "done"

\* No thread of the application is kept for ever, neither in streamWrite nor in close().
CallsReturn == WriterReturns /\ CloseCompletes
=============================================================================
