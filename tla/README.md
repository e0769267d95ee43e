# Verification of ScrcpyForHarmonyOS

TLA+ models of the concurrent core of the scrcpy client in this repository: the native ADB
implementation, its streams and buffers, the media pipeline and the manager that owns its threads.
The sessions above them, the connection handshake, the services on top of a stream and the decoders
are modelled as well.
TLC checks every module on small instances; TLAPS proves the safety properties of most of them, listed
in section 4, for every value of their constants. Paths below are relative to
`src/app/src/main/`; `CPP` is `cpp/`, `ETS` is `ets/`.

## 1. The system

The application talks ADB to an Android device over TCP (optionally TLS), pushes the scrcpy server,
starts it through a shell stream and opens up to three streams to it: video, audio and control.
Either the client opens them (*forward*) or the server connects back through the device's
`localabstract` socket and an OPEN of the device (*reverse*).

| Component | State | Operations | Talks to |
|---|---|---|---|
| Read buffer, `CPP/adb/util/RingBuffer.h` | byte ring, two monotonic cursors, closed flag, mutex and condition variable | getWritePtr/commitWrite, getReadPtr/consumeRead/copyTo, waitForData, waitForSpace, close | receive loop (producer), readers (consumer), any closer |
| ADB connection, `CPP/adb/core/Adb.cpp` | stream maps, send queue, closed flag, two loops; for each stream credit, pending bytes, closed flag | connect, open, streamRead/Write/Close, sync push/pull, shell, forward, close | channel, stream manager, NAPI |
| Reverse bridges, `Adb.cpp:2211-2375` | a local socket and a stream for each incoming OPEN, two pumps | startReverseBridge, handleIncomingOpen | receive loop, the manager's listener |
| Handshake, `Adb::connect`, `Adb::create`, `TcpChannel`, `TlsAdbChannel` | the channel, its descriptor, what the device was asked | create, connect, close, ~Adb | works of `napi_init.cpp`, receive loop |
| Services, `Adb.cpp:989-1620` | one "sync:" or "shell:" stream, a local file, a list, an answer | push, pull, list, execShellCommand, runServiceCommand, installation | streams, works of `napi_init.cpp` |
| Channels, `CPP/adb/channel/` | socket or TLS session | read, write, close | ADB connection |
| Pairing and keys, `CPP/adb/pairing/`, `CPP/adb/crypto/` | key pair, one exchange | pair, sign | NAPI |
| Packet store, `CPP/stream/MediaPacketStore.h` | pool, queue, latest configuration | acquire, enqueue, dequeue, recycle, cacheConfig, notifyAll | reader and decode thread |
| Stream manager, `CPP/manager/` | running flag, seven threads, tunnels, listener, control queue | start, startReverse, sendControl, stop | ADB connection, decoders, event callback |
| Decoders and timing, `CPP/decoder/` | codec input buffers, frame clock, startup gate | Init, Start, PushData, Release | decode threads, system codec |
| NAPI binding, `CPP/napi_init.cpp` | registry of ADB connections, the one stream manager, pending stops | nativeStartStreams, nativeStartReverseStreams, nativeStopStreamsAsync, nativeSendControl, adb* | ArkTS |
| Sessions, `ETS/client/tools/`, `ETS/helper/ClientSessionManager.ets` | current session, client phase, stop flag | start, stop, register | NAPI, pages |
| Keyboard and control packets, `ETS/client/tools/KeyboardUhidController.ets`, `ControlPacket.ets` | pressed keys, modifiers | key down/up, release all | sendControl |
| Transfers, `ETS/helper/TransferTaskManager.ets`, `AdbTransferService.ets`, `TransferCenterBackgroundHelper.ets` | tasks with their states, background task | enqueue, cancel, retry | ADB sync service |
| Keep-alive, `ETS/helper/BackgroundKeepAliveHelper.ets` | requested and running flag, transition | start, stop | system background task |
| Unlock, discovery, server, keys, preferences, logging, `ETS/helper/` | configuration | file and device I/O | pages |
| Pages, `ETS/pages/` | views | user actions | all of the above |

What is hard in this system, and the properties that make each part correct:

- *Read buffer.* Lock-free cursors on both sides, condition variable waits whose notifications are
  sent without the mutex. Correct: a FIFO, no slot touched by both sides, close() ends every wait.
- *Flow control.* ADB allows one WRTE outstanding for a stream; the credit is taken by several
  writers and given back by the receive loop, with bytes left pending between them. Correct: the
  credit is never doubled or lost, bytes arrive in order, a closed stream keeps nothing, close()
  gets through its joins from any thread.
- *Stream table.* open() polls while the receive loop creates, refuses and closes streams. Correct:
  no stream is used after it is deleted, kinds match streams.
- *Media.* Two threads share a pool, a configuration overtakes queued frames, the audio reader takes
  packets out of the queue the decode thread reads. Correct: a packet is in one place, frames in
  order, configuration first, stop() ends both threads.
- *Manager.* Seven threads, some created by others while stop() joins. Correct: a destroyed manager
  has no thread, no thread reads a deleted tunnel, a lost tunnel is reported.
- *Handshake.* A close from another thread shuts the channel under a connect that waits for the
  user's consent; the descriptor moves to a TLS channel on the way. Correct: the result told is what
  happened, the descriptor is closed once, a connect and a close end.
- *Services.* Every request of a sequence may fail, be refused or never answered, and the
  connection may close in between. Correct: done means done, a failed pull leaves no part of a
  file, no stream stays open, silence ends the work.
- *Decoders.* Buffers travel between the codec's callbacks, a render thread and the renderer's
  callback while Release takes everything away. Correct: a buffer has one owner, frames and samples
  come in order, time stamps cannot add up a delay, a release ends.
- *Sessions.* Start and stop of sessions interleave at every `await`, above native work on other
  threads. Correct: an old session never stops a newer one, at most one manager lives.
- *Transfers, keep-alive, keyboard.* State machines across awaits. Correct: tasks end once,
  requested and running state agree in the end, no key stays pressed.

## 2. Modules

| Module | Models | Composed with |
|---|---|---|
| `ByteFifo` | abstract: a bounded FIFO of bytes that may be closed | |
| `RingBuffer` | `RingBuffer.h`, the WRTE branch of `Adb::handleInLoop`, `Adb::streamReadToBuffer` | implements `ByteFifo` |
| `AdbFlow` | write side, loops, streamClose and close() of `Adb.cpp` | counts what `RingBuffer` holds |
| `AdbFlowProofs` | theorems about `AdbFlow` | |
| `MediaPackets` | `MediaPacketStore.h`, reader, decode thread and stop() of one medium | |
| `MediaPacketsProofs` | theorems about `MediaPackets` | |
| `StreamManager` | `CPP/manager/`: threads, tunnels, accept thread, control queue | sees the threads of `MediaPackets` as stop() does |
| `StreamManagerProofs` | theorems about `StreamManager` | |
| `AdbStreams` | the stream objects of a connection: open(), the receive loop, commands, sockets, reverse bridges, close() and ~Adb | leaves to `AdbFlow` how a stream writes |
| `AdbStreamsProofs` | theorems about `AdbStreams` | |
| `Sessions` | `ClientSessionManager.ets`, `NativeStreamClient.ets`, `ClientStream.ets`, the stream entries of `napi_init.cpp` | sees a manager of `StreamManager` as started, failed or deleted |
| `SessionsProofs` | theorems about `Sessions` | |
| `Handshake` | adbCreate, `Adb::connect`, the channels' ownership of the descriptor, adbClose, ~Adb | sees the loops of `AdbFlow` as one thread that ends with its channel |
| `HandshakeProofs` | theorems about `Handshake` | |
| `SyncService` | the services of `Adb.cpp` on one work of `napi_init.cpp` | sees a stream as `AdbFlow` and `AdbStreams` describe it |
| `StreamEndsProofs` | theorems about `RingBuffer` and `SyncService` | |
| `Decoder` | `CPP/decoder/`: both decoders, their callbacks, the render thread, the frame clock | the codec of `MediaPackets`, from inside |
| `DecoderProofs` | theorems about `Decoder` | |
| `MC*` | instances for TLC | |

### RingBuffer

Three threads: `producer` (receive loop), `consumer` (a reader), `closer`. `head` and `tail` are the
monotonic cursors, `buffer` holds byte numbers (byte k is the k-th of the stream), so that a lost,
repeated or overwritten byte shows. The lock-free operations are one step each; a wait is split where
the code can be interrupted: take the mutex (`Lock`), evaluate the predicate (`Check`), go to sleep
(`Doze`, which joins the waiters and releases the mutex in one step, as a condition variable does),
wake by a notification or a timeout (`Expire`). `CommitWrite` and `CommitNotify` are two steps without
the mutex, because the code has them so. The copy itself is a state (`fill`, `consume`), so that
`NoDataRace` can compare the regions in use at the same time.

### AdbFlow

`stream[s]` holds `canWrite`, the pending bytes, the holder of `writeMutex`, the closed flag and
where a running streamClose is; `sendQueue` and `toHost` are the two directions, `device[s]` the
other end. A turn of streamWrite's loop is two steps, the checks with a first flush (`CheckRound`) and
what follows them (`AppendRound`), because the flag `closed` is set without `writeMutex`: a stream may
be closed between the two, and the bytes are then appended all the same. Where the turn has no room it
is `FullRound`, where it throws `ThrowRound`. streamWriteRaw is split at its wait; handleInLoop is split
where it can block (a full read buffer, `writeMutex`); close() at its joins. Payloads of the host are
sequences of byte numbers, those of the device are counted. The device acknowledges a WRTE at any later
time, sends its own only after it was acknowledged, and may close at any moment.

`use[s]` says what a stream is for: the sync services write with streamWriteRaw, the control stream of
scrcpy has the touch moves merged, any other is plain. On the control stream the unit is the message.
`moves` says which messages are moves of which pointer, and `PendingBefore` is
compactControlPendingMovesForCurrentMove, which looks at what is pending when a move is written: in each
run of moves the last move of a pointer takes the place of the first and the others go, and in the last
run all those of the pointer of the new move go. Lengths are left out. The code merges only if the
pending bytes reach a threshold and are a whole number of 32-byte packets. With moves alone both follow
from their number (`CompactAt`); with other messages between them they depend on the lengths, and the
model allows both outcomes. A chunk of `maxData_ - 128` bytes ends between two messages in the model.
In the code it may cut one in two; a packet that does not begin at the head of the buffer is then parsed
from its middle, and what that merges is not modelled.

The send queue is one sequence, while that of the code keeps the order of each producer only. The WRTEs
of one stream may come from several producers, but there is one at a time (`OneWrite`); no property of
the model speaks of the order of two other messages in the queue.

### MediaPackets

One medium: `reader`, `decoder` and `stopper` are the program counters of three threads over the
pool (`free`), the queue, and the configuration serials. `content` remembers which frame is in a
packet and which configuration was cached before it, which makes `ConfigFirst` expressible. Codec and
stream are external: the codec takes a packet, has no room for it, or fails; the stream delivers or
fails.

### StreamManager

Each of the seven `std::thread` members has a state ("none" is not joinable). The decode thread of the audio has the
steps of its untimed wait (`AudioDozes`, `AudioSleeps`, `AudioWakes`): a notification that comes between
its check and its sleep is missed. stop() is split at the
closing of tunnels, the closing of the listener, every join and the release. The accept thread is
split between `accept()`, the store of the channel and the creation of the threads, because stop()
can run between each of these.

### AdbStreams

`object[s]` is the `AdbStream` of stream s (life, refused, closed, what its read buffer holds, whether
that buffer is shut), `table` the maps and `lastStream_`, `bridge[s]` the local socket and its two
pumps, `handle` where handleInLoop is with its message and the pointer it has loaded. open() is split
at its polls: it queues the OPEN, sees the connection closed or the object there, and deletes a
refused object. handleInLoop is split where it releases `streamsMutex_`: the lookup, the payload or
the CLSE, the closing, the removal from the maps. close() is split at the copy of the bridges, the
streams, and the joins; `Destroy` is what ~Adb deletes. `stale` holds the threads that used a deleted
object; such a thread goes on as if the memory were intact, so that the other properties are not lost
behind the first such use.

### Sessions

All ArkTS code runs on one thread: an action runs from one `await` to the next. `client[c].at` is the
`await` at which `start` of client c is; a promise that the thread settles itself (`reverseReady`) makes
the start that awaits it go on in the same action, as it does before any other event (`Settles`,
`StoppedByPage`). The works of the thread pool are `work[c]` (the start), `stop[t]` (what a stop has
taken, where it is) and `adb[c]`. `native` holds the one manager and the one callback of all sessions;
`Taken` and `Destroyed` are the two ways in which they are replaced. `work` is split between the
publication of the manager and its start, because stops and other starts come in between. A client is
started once, and `start` resets what a stop before it has set (`Begun`): its generation counters are
its `stopped` and `closing` flags. `Kept` names the clients that are started although another page has
stopped them before, in the time between their registration and their surface.

### Handshake

`at` is where `Adb::connect` is in its work, `closer` where `Adb::close` is in the work of adbClose,
`loop` the receive loop and whether `handleInThread_` has been assigned. `chan` are the two channels
(`closed_`, has a descriptor), `channel` is the pointer `channel_`, which is "deleted" for a moment in
the upgrade, and `sock` counts how often the number was closed. close() of a channel by the closing
thread is two steps, the mark and the shutdown, because connect reads in between. The loop looks at
`isClosed_` and `closed_` at its top (`LoopEnds`), then reads; a TLS channel polls its descriptor
first, and a loop that polls when a close has just taken the descriptor polls none and hears nothing
any more (`deaf`). The device answers each request (`asked`) with any message it may answer, at any time,
sends on a TLS connection what is no message yet (`partial`: a session ticket, a part of a record), or
leaves. A read of connect has a time limit, but on a TLS connection only until something has come:
`SSL_read` then waits for the rest without one (`Stuck`).

### SyncService

One work with its two streams: "sync:" and the command's. `work.todo` are the WRTEs still to be
written, `work.then` what the answer being read is for, `work.stage` the command of an installation
(`pm`, then `rm`) and `work.mode` the protocol of the shell. The device serves requests in order
(`device.got`), may fail or stop at each, may end a stream in the middle of a packet ("half"), and may
never answer. `nap` is the wait of streamWriteRaw: between its predicate and its sleep it can miss a
notification, which is sent without the mutex, and nothing else wakes it ("missed"). Headers are names (`Words`), a block of a file is told by its value. In the bytes of the
stream a block stands where the header before it says, whatever it contains; therefore a block is called
like none of the names, which `SyncAssumption` says and which no file can violate. That the operations
put blocks and headers in the right places is what is checked and proved.

### Decoder

`ctl` is where Init, Start and Release are, `sys` whether codec, context and renderer exist, and
`input`, `output`, `pcm` are the buffers with the queues they pass through. A callback is split where
it looks at a flag or a queue and acts later: OnNewOutputBuffer sees the render thread running and
queues afterwards; it sees room in `pcmQueue_`, takes a frame and queues it afterwards. `clock.slack` is
lastTarget_ minus the present, so that no absolute time is needed: `Tick` lets time pass between two
frames. `shown` is what reached the surface or the renderer.

## 3. Runs

| Run | Shows |
|---|---|
| `ring_buffer` | types, no data race; refinement of `ByteFifo`; close() and timeouts end every wait |
| `adb_flow` | one WRTE outstanding, the credit is kept, accepted bytes are accounted for: in order, complete, none after the close; of control messages only moves that a later one makes needless are missing |
| `adb_flow_live` | accepted bytes are sent, streamWrite returns, close() completes |
| `media_packets` | packets in one place, frames in order, video lossless, newest audio kept, configuration first, nobody waits for ever |
| `stream_manager` | nothing is released under a thread, stop() returns unless the decode thread of the audio missed its notification, losses reported |
| `adb_streams` | objects the tables name are owned, what open() and commands return is what the device did, open() and the pumps of a bridge end |
| `adb_streams_refused` | violation: handleInLoop uses an object open() has deleted |
| `sessions` | a replaced session is stopped and only its own start revives it, a manager is deleted once, every start ends, the connection of a stopped session is closed |
| `sessions_replaced` | violation: the late failure of a replaced session stops its replacement |
| `decoder` | every buffer has one owner who finds it alive, order, bounded delay and memory, buffers come back and a release ends |
| `handshake` | the result told is what happened, the descriptor is closed once, a connect and a close end but for the waits in TLS without a limit and a deaf loop |
| `sync` | what a service tells is true, it leaves no stream open, it ends when the device is silent or the connection closed, unless it missed the notification of the close |

Properties with several named parts (`WaitsEnd`, `BytesAccounted`, `CallsReturn`, `FramesKept`,
`NobodyStuck`, `NoUseAfterRelease`, `StreamsTrue`, `NobodyWaits`) are conjunctions: each part is defined
and commented by itself in its module, and has a faulty variant that breaks it.

### Bounds

- `RingBuffer`: capacity 4, 6 bytes, reads of 2 and 3 bytes, blocking and timed. The stream is
  longer than the ring, so that both cursors wrap, the ring fills and regions are cut at the end.
- `AdbFlow`: one stream of any use, two writers, chunks of one. On a plain or sync stream 2 bytes and one
  pending byte: writers find the buffer full and drop the mutex in the middle of a call. On the control
  stream, which one thread writes, 5 messages of three pointers, 4 of them pending, merged from 3 on:
  moves of two pointers change places, runs are cut by another message, and what is left is merged
  again. Streams only meet in the loops and the
  queue; more than one is beyond TLC, and `OneWrite` is proved for any number. The live run has one
  writer with 4 bytes (3 messages) against 2 pending, so that streamWrite blocks; the device writes nothing there,
  so that the blocking of the receive loop by a full read buffer is not part of it.
- `MediaPackets`: two packets, three frames, two configurations: the pool runs out, the audio reader
  reclaims, a configuration replaces an older one that waits.
- `StreamManager`: both modes, with and without audio, a queue of one message, two messages accepted.
  Nothing depends on the number of messages beyond one waiting while another is sent.
- `AdbStreams`: two streams; a command beside a socket, and each kind of use alone (`Mixes`): the two
  callers share the tables, the cached last stream and the receive loop. One payload fits in a read
  buffer and one is sent. The connection is closed only where one stream is used (`MaxAtClose`): a
  bridge beside a caller with close() is over 20 million states.
- `Sessions`: two clients, the first tries the reverse tunnel (and may fall back to forward), the second
  is forced to forward; in `sessions` the first may also be started after it was replaced. Each native call may fail. A third session adds no new pair that interferes.

- `Handshake`: three retries (as the code) of two addresses; a device answers a request once, so that
  the exchange is finite and no other bound is needed.
- `SyncService`: one operation with a file of two blocks: a first, a last, and something between two
  requests. A file sent as a single packet has one block, as in the code.
- `Decoder`: four packets on four timelines (steady, a long interval, a gap with a step back, a
  negative time stamp); two output buffers, one input buffer, a pool of two, frames of three samples
  read two at a time, so that a period ends in the middle of a frame and the pool runs out. One unit
  of time is about 10 ms. A target is followed at most `MaxLate` into the past, where the lag limit
  has already reset the clock.

A bound on what the environment sends (`MaxBytes`, `MaxFrames`, `MaxConfigs`, `MaxControls`,
`MaxDeviceWrites`) makes a behaviour stop, hence `CHECK_DEADLOCK FALSE` where the system may also stop
by itself (closed, destroyed).

### Fairness

Threads that can take a step take it (weak fairness): the code's threads are system threads. Locks
that are released and taken again by others (`writeMutex`) need strong fairness for the thread that
waits; the code relies on the mutex implementation not starving anyone. A closed tunnel or stream
makes its reads throw; the waits that can miss a notification (section 5) are no exception in the
fairness but steps of the models, and the properties name them. Readers read while the connection is open. Nothing makes an application write,
close, start or stop, a device connect, or a codec give a buffer, except where a property says so
(`FramesConsumed` assumes the codec). In `Handshake` the works, the receive loop and the destructor
run, in `SyncService` the work and the close; the device owes nothing in either. In `Decoder` the
codec and the renderer are assumed to wait, in their stop and destroy calls, for a callback in
progress. The device answers an OPEN, by an OKAY or by a CLSE: open() has
no time limit, so that nothing else ends it on a connection that stays open. In `Sessions` native
calls return: their time limits are below this model, and stop() is assumed to end (`stream_manager`;
section 5 has the exception with audio). Works are run;
a page does nothing it need not do, and the device need not connect back.

## 4. Proofs

`StreamEndsProofs`, the buffer (constants: any capacity, any number of bytes, any set of reads):

- `TypeCorrect`, `BoundsCorrect`: `IInv == TypeOK /\ Bounds` is inductive. `Bounds` includes the
  regions handed out by getWritePtr and getReadPtr, without which the other side's step could
  invalidate them.
- `RaceFree`: from `IInv` by arithmetic modulo the capacity (`DivMod`, `ModDistinct`, `SlotOf`): two
  positions less than a capacity apart lie in different slots.
- `LockCorrect`: `MutexHeld` is inductive with the types.
- `Implements`: each step is a step of `ByteFifo` or leaves it unchanged. It needs two more
  invariants: `Filled` (what the producer has received into its region is what it will commit) and
  `DrainsClosed` (bytes are discarded only after close).

`AdbFlowProofs` (any streams, writers, limits):

- `TypeCorrect`: with the bound of the read buffer and `Locked`: a writer between its checks and its
  append holds `writeMutex`, and what is pending has not grown past the limit meanwhile.
- `OneWrite`: `OneOutstanding` is not inductive by itself; `CreditOnce` says that the four places
  where a credit can be (the host, a queued WRTE, the device, an OKAY on its way) exclude each other
  and that each queue holds at most one.
- `ReceivedInOrder` and `NothingHeld`: the parts `InOrder` and `ClosedHoldsNothing` of `BytesAccounted`.
  Only five kinds of step put bytes in motion (`QuietOrNot`); for all others it is enough that they are
  `Quiet`: no byte is accepted, received or queued, and pending bytes disappear only with their stream.
  `NothingHeld` includes the stream that is closed between a writer's checks and its append: whoever
  clears it waits for the mutex the writer holds.
  `FlowInv` says for each stream where the bytes are: the pending ones are the last accepted, a WRTE
  that waits continues what was received, and without such a WRTE, if the credit is held, nothing is
  missing in between (`Numbering`). It rests on `RawApart` (a sync service's stream has no pending
  bytes and no writer in streamWrite) and on `ClosingInv` (what is closed is empty or about to be
  cleared). A full queue may drop a WRTE; the credit that went with it is then nowhere, so that no
  later byte can follow the gap. That is why order needs no bound on the number of streams.
  For a control stream `Ordering` says the same of messages. What was received, what waits and what is
  pending is one line (`OneLine`), in which a message precedes another only if it may (`Precedes`).
  Merging keeps that (`MergedOrder`, `MergedLine`): a move that takes the place of an earlier one of its
  pointer passes only moves of other pointers, because the run has nothing else, and it is the only one
  left of its pointer there.
- `CreditStays` and `AllAccounted`: that nothing is dropped. writeToChannel limits the queue to 5000
  messages, and nothing in the code relates that to the number of streams. `Shared` bounds what each
  stream has in the queue: one OKAY, because the device's own credit is also in one place (`Answers`),
  one CLSE, because one side begins the closing (`Ends`), and one WRTE. By the pigeonhole principle
  (`QueueBound`) the queue then has room for every WRTE whose stream has none in it (`RoomToWrite`), if
  three messages per stream fit: `FewStreams`, 1667 streams with the code's limit. The application
  opens a handful. On a control stream each accepted message stands in the line, or a later move of its
  pointer with only moves in between (`Complete`); that relation is transitive, so that merging again what
  was merged loses nothing more. OPENs, which `AdbFlow` leaves out, take a place each as well. The instance TLC checks
  satisfies `FewStreams`; beyond it a stream that loses its WRTE can never write again.

`MediaPacketsProofs` (a pool of any size, any stream):

- `TypeCorrect`: with what the two threads hold at each of their places.
- `PacketsOnce`: `Apart` (no packet is in two of pool, queue, reader and decode thread) and, for that
  to mean something, `All` (each is in one of them), by counting.
- `StreamKept`: `Ordered` numbers the frames in the queue from its end, because the audio reader takes
  packets from its front; `Lossless` counts from the beginning and holds for video only.
- `ConfigurationFirst`: `Offered` follows a configuration from the cache to the decode thread's copy
  to the codec, next to the packet that needs it.

Eight actions touch packets. `Steps` says what all others leave alone, and one lemma for each of the
eight what it moves where; the parts of the invariant are proved from these effects.

`StreamManagerProofs` (any limit of the control queue, any number of messages):

- `TypeCorrect`.
- `ReleasedUnused`: a join does not keep a thread away, because the accept thread is joined last and
  creates readers and senders until then. `Joined` says what can be left behind a join of the first
  stop(): a reader that has not read, which throws at its first read; `JoinedAgain` that nothing is
  left behind a join of the destructor's stop(), when no accept thread is left.

`AdbStreamsProofs` (any number of streams, any use of them, read buffers of any size, any number of
payloads):

- `TypeCorrect`: one part of the invariant per variable (`Typed`). That the loop always has a stream to
  work on needs `Handling`: which message it has at which of its places.
- `CallersTold`: `StreamsTrue`. For `OpenTruthful`, `Speaking` says that a message of the device carries
  a refusal just when the device has refused, `Living` that an object is made from such a message and
  is alive while the table owns it, and `Calling` that a caller which works with a stream has an object
  of the table that is not refused. For `CommandOutput` the messages underway count, the one the loop
  works on among them: a payload and the credit of the stream are not both there (`Credit`), a CLSE is
  the last message (`Last`), so that the loop, when it closes the object, has handled all the rest
  (`Closing`), and the read buffer holds what the device has written (`Written`). These four hold for
  a command's stream while the connection is open: a socket's caller and the pumps empty and close
  theirs themselves. The commands' parts also need `Pointing`: the cached pointer of the loop and the
  pumps lead to objects that have been made, and pumps work on streams of bridges only.

In `AdbStreams` a thread that uses a deleted object goes on as if the memory were intact, and the use
is recorded in `stale`; `CallersTold` holds under that convention. The uses themselves are those of the
finding about `LoopUsesNoDeleted` (§5). Each action is taken apart once (`HandleResolvesDoes` and the
others), the parts of the invariant are then proved from a few effects on an object (`Sets`), on the
device's end of a stream (`Moves`) and on the messages underway (`LineTurns`, `LineGrows`).

`SessionsProofs` (any number of clients, any devices that force the forward tunnel):

- `TypeCorrect`: one part of the invariant per variable (`Session` to `Stop`).
- `OneActive`: the action property `OneSession`. The only step that makes a session active is its start
  (`Revived`), and the only one that replaces a session stops it (`SessionStep`).
- `ManagersOnce`: a manager is in one hand, the native entry or a stop, and only one that is in none can
  be created. For that `Fresh` says that the manager a start will make is nowhere yet, and `Waits` at
  which places of a start its work is under way.

`HandshakeProofs` (any number of retries and addresses, exchanges of any length):

- `TypeCorrect`: `TypeOK`, taken in four parts (`Control`, `Names`, `Medium`, `Far`) that are parts of
  the inductive invariant `IInv`.
- `ToldTheTruth`: `ResultTrue` depends on what connect knew some steps earlier, which `Told` keeps: a
  CNXN read or on its way means that the device said it, a channel that is closed under connect means
  that the application closes, and after a failed read the device has gone or the channel is closed.
- `NumberOnce`: `ClosedOnce` follows from `Owner`, which says which channel has the number of the
  socket and that a channel that is marked and still has it is about to be shut by Adb::close. That
  needs to know where channel_ points at each place of connect (`There`), and that needs `Order`: only
  the first answer of a device can ask for an upgrade, so that an upgraded channel is never upgraded
  again.

`DecoderProofs` (any number of buffers, any pool, frame and period length, any time stamps):

- `TypeCorrect`: one part of the invariant per variable or thread (`Control` to `Shows`).
- `OwnedOnce`: `Buffers` and `Frames` say that the places of a buffer exclude each other and, for
  `Buffers` until the release, that one of them holds it. That a holder finds its buffer alive needs
  `Control`, `Calling` and `Rendering`: which steps of Start and Release have been done while a callback
  or the render thread is at work.
- `InOrder`: `ShownInOrder` looks at the end of the way only. A packet is shown, near the surface or the
  speaker, queued, in the callback's hand, in the codec or still to be fed; `Ordering` says that what is
  in one of these six places comes before what is in the next (`Line`), that what is over was played
  to its end and what is near to where it stands (`Played`). Within a place the queues are sorted
  (`Sorted`), and a frame nobody has begun is whole (`Whole`). There is one lemma for each kind of
  step: it moves one packet one place on (`LineMoves`), drops it, or moves none (`Aside`).
- `Bounded`: `Counts` bounds the frames with the room the callback saw before it took one; `Pacing` is
  the cap of the clock.

`StreamEndsProofs`, the services (any file of at least one block):

- `ServiceInvariant`: `ServiceInv`, with these parts. `Typed` is the type invariant with the device's
  types. `Placed` says which place of the work goes with which operation, `Told` that a result is told at
  the end and a success not before the last request is planned, `Left` which streams can be open where,
  `Commanded` that the text of a command tells its code and what it installed.
- `Requested` is the middle of it. Each operation has a script, the tokens it says on "sync:" in order
  (`Word`). How far it has got is told by four counters: `Planned`, `Sent`, `Taken` by the device,
  `Served`. What is to be written, on the wire and received by the device are the pieces of the script
  between two of them, however a push is cut into writes (`PushesMade`); hence the device always finds
  a whole request (`NextRequestIs`).
- `Stored` says of a push that the device's file is what was served of the script (`Kept`) and that an
  OKAY anywhere means that the file is stored. `Answered` says of a pull or a listing that nothing is
  answered before the last request (`Waiting`), and then that what has arrived and what the device has
  still to send is the answer from the `Position` that is read next on (`Receiving`); a failure
  stands only where an id is due. `Fresh` is needed for the first step.
- `ServiceTypesHold`: follows, but is not inductive alone. That no word of the protocol gets into the
  local file needs `Answered`.
- `WhatIsToldIsTrue`: `Truthful`, from `Told`, `Stored`, `Answered` and `Commanded`.
- `NothingLeftOpen`: `NothingOpen`, from `Left`.

The steps are described once (`OverDoes` to `Steps`); the parts of the invariant are then proved from
these effects. Steps that hand on nothing are treated together (`Quiet`).

Assumptions are the `ASSUME`s of the modules: positive capacities and limits, types of the constants,
and the names of a file's blocks (§2, SyncService).
`FewStreams` is the only hypothesis that is not one of them; it is written in the two theorems that need it.

Only model-checked: liveness (`WaitsEnd`, `BytesSent`, `CallsReturn`, `NobodyStuck`, `StopCompletes`,
`LossReported`, `NobodyWaits`, `StartsEnd`, `ConnectionCloses`, `NothingStuck`, `EveryoneEnds`,
`OperationsEnd`), which is out of the prover's reach, and what the two runs that expect a violation
refute. Every other invariant and action property of the runs is stated by a theorem.

## 5. Findings

1. `Adb.cpp:872`: open() can find a refused stream at one of its polls and delete its object while
   handleInLoop still handles the CLSE that created it (`adb_streams_refused`). Moving notifyAll behind
   the handling (`Adb.cpp:799`) makes this rarer; the poll every 100 ms does not wait for it.
2. `NativeStreamClient.ets:122`: a start that fails after its session was replaced stops whatever
   manager is current (`sessions_replaced`), past the identity check of `ClientSessionManager`.

Seen in the models and not stated as properties, because the code has nothing that would keep them:

- `RingBuffer.h:54`: commitWrite notifies without the mutex, so that a blocking reader can miss the last
  bytes and sleep until more come. close() takes the mutex and is not affected.
- `Adb.cpp:1909`: streamWriteRaw waits under `waitMutex_` for flags that are set and notified without
  it. The OKAY that comes between its look and its sleep wakes nobody, no other will come, and a
  file push hangs. (`RawCheck`, `HandleOkay`, `RawDoze` in `AdbFlow`.) The notification of close() can be
  missed in the same way, and the work then outlives its connection: `OperationsEnd` of `SyncService`
  excepts a work that has missed it.
- `MediaPacketStore.h:143`: the audio decode thread can miss both notifications of the end; stop()
  then never returns. `StopCompletes` excepts a stop() that waits for such a thread (`Unnoticed`). Video
  polls every 10 ms and is not affected, hence `VideoStopCompletes`.
- `NativeStreamClient.ets:82`: start resets `stopped`. A client that another page has replaced before its
  own surface was there becomes active when its surface comes, beside its replacement, and no stop of
  `ClientSessionManager` reaches it, which knows the replacement only ("Prevents multiple sessions from
  running simultaneously", `ClientSessionManager.ets:5`). It takes two control pages on the router
  stack. `OneSession` says that there is no other way to a second active session.
- `ScrcpyStreamManagerLifecycle.cpp:136`: stop() joins the media threads before the accept thread that
  creates them, and can return with one left. The destructor's second stop() joins the late thread
  and a late reader throws before it reads; a late control send thread that already took a queued
  message asks the deleted channel whether it is closed.
- `napi_init.cpp:3134`: a stop may delete a manager whose start still runs in another work.
- `napi_init.cpp:2925`: the start work of a stopped session publishes its manager after the stop has
  taken what there was. In forward mode nothing stops that manager before the next session does.
- `Adb.cpp:1995`: close() returns at once while another thread is in it; ~Adb then deletes the streams
  which the pumps of a bridge use.
- `Adb.cpp:599`: when the TLS upgrade fails after its channel exists, the socket's number is closed
  there and a second time by the channel; `ClosedOnce` excludes a socket that was moved.
- `Adb.cpp:2003`: a close() during the upgrade finds no channel, or the deleted one. It ends all the
  same, because a loop that starts later sees `isClosed_`, but it cannot end the TLS handshake with a
  device that lives and says nothing: connect stays in it. `EveryoneEnds` excepts this wait.
- `TlsAdbChannel.cpp:112`: after poll `SSL_read` blocks until it has a record of the application. A
  session ticket or a part of a record is enough to make the time limits of connect void until more comes
  or the socket is closed; `EveryoneEnds` excepts this wait too.
- `TlsAdbChannel.cpp:97`: close() takes the descriptor of a TLS channel while the receive loop is between
  its test of `closed_` and its poll. poll of no descriptor without a time limit never returns, and
  close() joins the loop for ever; `EveryoneEnds` excepts this loop (`deaf`).
- `Adb.cpp:710`: between the start of the receive loop and the assignment of its thread, close() joins
  nothing, and ~Adb then destroys a thread that is joinable.
- `Adb.cpp:655`: an answer to the signature that comes after its time limit is read as the answer to
  the public key, and the connect fails with -3 although the user was never asked.
- `Adb.cpp:1021`: reverseForward and reverseRemove take an empty answer (a refused stream, a closed
  connection) for success.
- `Adb.cpp:1615`: a command whose answer is cut off is run a second time by the legacy shell, also
  one that is not idempotent. An answer cut between two packets is returned as complete, with an exit
  code that is marked unreliable.
- `Adb.cpp:1493`, `Adb.cpp:1191`: a pull that is complete is reported as failed, and emptied, when its
  QUIT cannot be written; a push likewise, although the device has stored the file.
- `AudioDecoderNative.cpp:62`: raw audio puts frames in `pcmQueue_` without the bound of decoded audio
  (`LatencyBounded` states it of decoded audio only).
- `AudioDecoderNative.cpp:488`: Stop of an audio decoder whose Start failed half-way stops nothing;
  Release alone takes the renderer down (`Owned` holds all the same).

## 6. Not modelled, and why

- Pairing and keys: cryptography and one sequential exchange. Of the channels the ownership of the
  descriptor is modelled; the other models take a channel as a reliable byte stream whose reads and
  writes fail after close().
- In the handshake the fields of CNXN (maximum payload, features) and the callback that tells the
  page to wait; in the services progress callbacks, the layout of headers and the types of entries.
- `PushData` and the native decoder entries of `napi_init.cpp`, which no page calls.
- Transfers, keep-alive and keyboard (ArkTS): state machines of one thread across awaits. They are
  the next to model; nothing in the modules above depends on them.
- The kinds of streams in `AdbStreams`: they choose the capacity of a read buffer, which is a constant.
  A command whose output is larger than its buffer blocks the receive loop; the runs have room.
- The system codec, the audio renderer and the display: `MediaPackets` has what their callbacks can
  answer, `Decoder` what lies between them.
- ArkTS views, preferences, discovery, logging: declarative code and input and output.
- Memory: apart from the lifetimes stated above (tunnels, stream objects), an access is what its
  language says it is.

## 7. Plan

The order is that of importance: what every stream rests on first, then the threads above it, then
the sessions above these.

1. `RingBuffer` with `ByteFifo` (refinement, proofs): done.
2. `AdbFlow` (proofs of the credit and of the order of bytes): done.
3. `MediaPackets`, `StreamManager`, `AdbStreams` (proofs of their safety): done.
4. `Sessions` (proofs of its safety): done.
5. `Handshake`, `Decoder`, `SyncService` (proofs of their safety): done.
6. `KeepAlive` and `Transfers`: requested against running state, tasks that end once, cancellation
   across awaits.
7. `KeyboardUhid`: reports against the keys that are down, compared with its test.
