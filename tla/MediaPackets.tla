---------------------------- MODULE MediaPackets ----------------------------
(***************************************************************************)
(* stream/MediaPacketStore.h and its users in the stream manager: one      *)
(* medium, video or audio, from its reader thread over the packet store    *)
(* to its decode thread, with stop().                                      *)
(*                                                                         *)
(* The reader takes a packet, fills it from the stream and queues it; a    *)
(* codec configuration goes beside the queue.  The decode thread hands the *)
(* pending configuration and the oldest packet to the codec and frees the  *)
(* packet.  Without a free packet the video reader waits, while the audio  *)
(* reader reclaims the oldest queued packet.                               *)
(*                                                                         *)
(* The codec and the stream are external: the codec takes, refuses or      *)
(* fails; the stream delivers frames and configurations or fails.  Frames  *)
(* are numbered as the stream delivers them.                               *)
(***************************************************************************)
EXTENDS Naturals, Sequences, FiniteSets

CONSTANTS Packets,    \* the pool: 64 packets for video, 32 for audio
          MaxFrames,  \* bound: frames the stream delivers
          MaxConfigs  \* bound: configurations the stream delivers

NoPacket == "none"

ASSUME PacketAssumption ==
  /\ IsFiniteSet(Packets) /\ Packets # {} /\ NoPacket \notin Packets
  /\ MaxFrames \in Nat /\ MaxConfigs \in Nat

VARIABLES kind,       \* "video" or "audio"
          running,    \* running_
          readerDone, \* videoReaderDone_, audioReaderDone_
          source,     \* whether the stream or tunnel is open, and the frames it has delivered
          free,       \* freePackets_
          queue,      \* queue_
          content,    \* each packet: the frame in it, and the configuration cached before it
          config,     \* latestConfigSerial_
          reader,     \* reader thread: where it is and the packet it has
          decoder,    \* decode thread: where it is, its packet, startupBuffered and the
                      \* configuration serials appliedConfigSerial and nextConfigSerial
          output,     \* the frames the decode thread has done with, the newest configuration it
                      \* has offered, and whether a frame was ever submitted before its own
          stopper     \* where stop() is

vars == <<kind, running, readerDone, source, free, queue, content, config, reader, decoder,
          output, stopper>>
shared == <<free, queue, content, config>>

Pool == CHOOSE s \in [1..Cardinality(Packets) -> Packets] : \A p \in Packets : \E i \in DOMAIN s : s[i] = p

\* initialize, and the reader thread of start; the decode thread does not exist.
Init ==
  /\ kind \in {"video", "audio"}
  /\ running = TRUE /\ readerDone = FALSE
  /\ source = [open |-> TRUE, frames |-> 0]
  /\ free = Pool /\ queue = <<>> /\ config = 0
  /\ content = [p \in Packets |-> [frame |-> 0, config |-> 0]]
  /\ reader = [at |-> "start", packet |-> NoPacket]
  /\ decoder = [at |-> "none", packet |-> NoPacket, buffered |-> FALSE, applied |-> 0, next |-> 0]
  /\ output = [frames |-> <<>>, config |-> 0, behind |-> FALSE]
  /\ stopper = "none"

\* The decode thread between the predicate of waitDequeue and its sleep holds mutex_.
MutexFree == decoder.at # "doze"
\* notify_one and notify_all.  Only the audio decode thread sleeps without a time limit, so that
\* it is the only thread that needs to be notified.
Notified(d) == IF d.at = "asleep" THEN [d EXCEPT !.at = "check"] ELSE d

-----------------------------------------------------------------------------
(* The reader thread: videoThreadFunc, audioThreadFunc.                    *)

Reader(label, p) == reader' = [at |-> label, packet |-> p]

\* The handshake, then the decoder is started and its thread created.
StartDecoder ==
  /\ reader.at = "start" /\ source.open
  /\ Reader("read", NoPacket)
  /\ decoder' = [decoder EXCEPT !.at = "loop"]
  /\ UNCHANGED <<kind, running, readerDone, source, shared, output, stopper>>

\* A read throws (the end of the stream, an invalid size) or the decoder does not start.  A
\* packet being filled is lost to the pool.
ReaderFails ==
  /\ reader.at \in {"start", "read", "payload", "drop"}
  /\ reader' = [reader EXCEPT !.at = "done"]
  /\ UNCHANGED <<kind, running, readerDone, source, shared, decoder, output, stopper>>

\* The head of the loop, and readScrcpyPacketMeta.
ReadMeta ==
  /\ reader.at = "read"
  /\ IF running THEN source.open /\ Reader("acquire", NoPacket) ELSE Reader("done", NoPacket)
  /\ UNCHANGED <<kind, running, readerDone, source, shared, decoder, output, stopper>>

\* A free packet, for either reader.
AcquireFree ==
  /\ reader.at = "acquire" /\ free # <<>> /\ (kind = "video" => running)
  /\ Reader("payload", Head(free))
  /\ free' = Tail(free)
  /\ UNCHANGED <<kind, running, readerDone, source, queue, content, config, decoder, output, stopper>>

\* A faulty variant: the wait of the video reader ends only with a free packet.
WaitEndsByPacketOnly == FALSE
WaitEnds == ~running

\* Without one the video reader waits, 20 ms at a time, while the manager runs; after that reads
\* throw.
VideoGivesUp ==
  /\ reader.at = "acquire" /\ kind = "video" /\ WaitEnds
  /\ Reader("done", NoPacket)
  /\ UNCHANGED <<kind, running, readerDone, source, shared, decoder, output, stopper>>

\* A faulty variant: the video reader too takes packets away from the queue.
MayReclaimAny == TRUE
MayReclaim == kind = "audio"

AudioFindsNone ==
  /\ reader.at = "acquire" /\ MayReclaim /\ free = <<>>
  /\ Reader("reclaim", NoPacket)
  /\ UNCHANGED <<kind, running, readerDone, source, shared, decoder, output, stopper>>

\* Faulty variants: the reclaimed packet stays in the queue; the newest is reclaimed.
ReclaimedKeeping(q) == [packet |-> Head(q), rest |-> q]
ReclaimedNewest(q) == [packet |-> q[Len(q)], rest |-> SubSeq(q, 1, Len(q) - 1)]
\* reclaimQueuedPacket.
Reclaimed(q) == [packet |-> Head(q), rest |-> Tail(q)]

\* It takes the oldest queued packet, unless the decode thread has emptied the queue meanwhile.
AudioReclaims ==
  /\ reader.at = "reclaim" /\ MutexFree /\ queue # <<>>
  /\ Reader("payload", Reclaimed(queue).packet)
  /\ queue' = Reclaimed(queue).rest
  /\ UNCHANGED <<kind, running, readerDone, source, free, content, config, decoder, output, stopper>>

\* A faulty variant: the missing packet is not noticed.
WithoutPacketIgnored == "payload"
WithoutPacket == "drop"

AudioReclaimsNone ==
  /\ reader.at = "reclaim" /\ MutexFree /\ queue = <<>>
  /\ Reader(WithoutPacket, NoPacket)
  /\ UNCHANGED <<kind, running, readerDone, source, shared, decoder, output, stopper>>

\* Without a packet the payload is read for nothing: the frame, or a configuration, is lost.
ReadForNothing ==
  /\ reader.at = "drop" /\ source.open
  /\ Reader("read", NoPacket)
  /\ \/ source.frames < MaxFrames /\ source' = [source EXCEPT !.frames = @ + 1]
     \/ UNCHANGED source
  /\ UNCHANGED <<kind, running, readerDone, shared, decoder, output, stopper>>

\* readScrcpyPacketPayload and enqueue.
StoreFrame ==
  /\ reader.at = "payload" /\ source.open /\ source.frames < MaxFrames /\ MutexFree
  /\ source' = [source EXCEPT !.frames = @ + 1]
  /\ content' = [content EXCEPT ![reader.packet] = [frame |-> source.frames + 1, config |-> config]]
  /\ queue' = Append(queue, reader.packet)
  /\ decoder' = Notified(decoder)
  /\ Reader("read", NoPacket)
  /\ UNCHANGED <<kind, running, readerDone, free, config, output, stopper>>

\* Or cacheConfig and recycle.
StoreConfig ==
  /\ reader.at = "payload" /\ source.open /\ config < MaxConfigs /\ MutexFree
  /\ config' = config + 1
  /\ free' = Append(free, reader.packet)
  /\ decoder' = Notified(decoder)
  /\ Reader("read", NoPacket)
  /\ UNCHANGED <<kind, running, readerDone, source, queue, content, output, stopper>>

ReaderSetsDone ==
  /\ reader.at = "done"
  /\ readerDone' = TRUE
  /\ reader' = [reader EXCEPT !.at = "notify"]
  /\ UNCHANGED <<kind, running, source, shared, decoder, output, stopper>>

ReaderNotifies ==
  /\ reader.at = "notify"
  /\ decoder' = Notified(decoder)
  /\ reader' = [reader EXCEPT !.at = "exited"]
  /\ UNCHANGED <<kind, running, readerDone, source, shared, output, stopper>>

-----------------------------------------------------------------------------
(* The decode thread: videoDecodeThreadFunc, audioDecodeThreadFunc.        *)

DecoderAt(label) == decoder' = [decoder EXCEPT !.at = label]

\* A faulty variant: before the first frame the thread waits for all the frames it wants.
GateOpenAtWatermark == decoder.buffered \/ ~running \/ readerDone \/ Len(queue) >= 2
\* At startup the video thread wants ten frames, but once there is one it waits at most
\* MAX_WAIT_MS.  (When it starves it waits again, for a time that is bounded anyway.)
GateOpen == decoder.buffered \/ ~running \/ readerDone \/ queue # <<>>

DecodeLoop ==
  /\ decoder.at = "loop"
  /\ \/ /\ running \/ ~readerDone
        /\ kind = "video" => GateOpen
        /\ decoder' = [decoder EXCEPT !.at = "check", !.buffered = TRUE]
     \/ ~running /\ readerDone /\ DecoderAt("exited")
  /\ UNCHANGED <<kind, running, readerDone, source, shared, reader, output, stopper>>

\* waitDequeue and waitDequeueTimed return a packet ...
Dequeue ==
  /\ decoder.at = "check" /\ queue # <<>>
  /\ decoder' = [decoder EXCEPT !.at = "config", !.packet = Head(queue)]
  /\ queue' = Tail(queue)
  /\ UNCHANGED <<kind, running, readerDone, source, free, content, config, reader, output, stopper>>

\* ... or return without one, at the end or, for video, after 10 ms ...
DequeueNothing ==
  /\ decoder.at = "check" /\ queue = <<>> /\ (kind = "video" \/ ~running \/ readerDone)
  /\ DecoderAt("empty")
  /\ UNCHANGED <<kind, running, readerDone, source, shared, reader, output, stopper>>

\* ... or, for audio, sleep until they are notified.
Doze ==
  /\ kind = "audio" /\ queue = <<>>
  /\ \/ decoder.at = "check" /\ running /\ ~readerDone /\ DecoderAt("doze")
     \/ decoder.at = "doze" /\ DecoderAt("asleep")
  /\ UNCHANGED <<kind, running, readerDone, source, shared, reader, output, stopper>>

AfterEmpty ==
  /\ decoder.at = "empty"
  /\ DecoderAt(IF readerDone \/ ~running THEN "exited" ELSE "loop")
  /\ UNCHANGED <<kind, running, readerDone, source, shared, reader, output, stopper>>

\* A faulty variant: only the first configuration is pending.
ConfigPendingOnce == config # 0 /\ decoder.applied = 0
ConfigPending == config # 0 /\ config # decoder.applied

\* copyPendingConfig.
CopyConfig ==
  /\ decoder.at = "config"
  /\ decoder' = IF ConfigPending THEN [decoder EXCEPT !.at = "submit", !.next = config]
                                 ELSE [decoder EXCEPT !.at = "frame"]
  /\ UNCHANGED <<kind, running, readerDone, source, shared, reader, output, stopper>>

\* The codec gives an input buffer for the configuration, one that is too small, or an error.
SubmitConfig ==
  /\ decoder.at = "submit" /\ running
  /\ \/ decoder' = [decoder EXCEPT !.at = "frame", !.applied = decoder.next]
     \/ DecoderAt("frame")
  /\ output' = [output EXCEPT !.config = decoder.next]
  /\ UNCHANGED <<kind, running, readerDone, source, shared, reader, stopper>>

SkipConfig ==
  /\ decoder.at = "submit" /\ ~running
  /\ DecoderAt("frame")
  /\ UNCHANGED <<kind, running, readerDone, source, shared, reader, output, stopper>>

\* The packet goes back to the pool, and the thread goes on or leaves.
Recycle(label) ==
  /\ free' = Append(free, decoder.packet)
  /\ decoder' = [decoder EXCEPT !.at = label, !.packet = NoPacket]
FrameOf(p) == content[p].frame
Done(config_) ==
  output' = [output EXCEPT !.frames = Append(@, FrameOf(decoder.packet)),
                           !.behind = @ \/ output.config < config_]

\* The same for the packet; after an error the thread leaves.
SubmitFrame ==
  /\ decoder.at = "frame" /\ running
  /\ \/ Done(content[decoder.packet].config) /\ Recycle("loop")
     \/ Done(0) /\ \E label \in {"loop", "exited"} : Recycle(label)
  /\ UNCHANGED <<kind, running, readerDone, source, queue, content, config, reader, stopper>>

SkipFrame ==
  /\ decoder.at = "frame" /\ ~running
  /\ Done(0) /\ Recycle("exited")
  /\ UNCHANGED <<kind, running, readerDone, source, queue, content, config, reader, stopper>>

-----------------------------------------------------------------------------
(* stop().                                                                 *)

Stopping(from, to) == stopper = from /\ stopper' = to

\* The flag; then a local tunnel is closed, while a stream of the connection still is open.
StopBegin ==
  /\ Stopping("none", "done")
  /\ running' = FALSE
  /\ source' \in {source, [source EXCEPT !.open = FALSE]}
  /\ UNCHANGED <<kind, readerDone, shared, reader, decoder, output>>

StopSetsDone ==
  /\ Stopping("done", "notify")
  /\ readerDone' = TRUE
  /\ UNCHANGED <<kind, running, source, shared, reader, decoder, output>>

\* notifyAll and streamClose.
StopNotifies ==
  /\ Stopping("notify", "joinReader")
  /\ decoder' = Notified(decoder)
  /\ source' = [source EXCEPT !.open = FALSE]
  /\ UNCHANGED <<kind, running, readerDone, shared, reader, output>>

StopJoinsReader ==
  /\ Stopping("joinReader", "joinDecoder") /\ reader.at = "exited"
  /\ UNCHANGED <<kind, running, readerDone, source, shared, reader, decoder, output>>

\* The decode thread is joined if there is one, and the pool is reset.
StopJoinsDecoder ==
  /\ Stopping("joinDecoder", "stopped") /\ decoder.at \in {"none", "exited"}
  /\ free' = <<>> /\ queue' = <<>> /\ config' = 0
  /\ UNCHANGED <<kind, running, readerDone, source, content, reader, decoder, output>>

-----------------------------------------------------------------------------
\* What the reader does by itself, once it has what it waits for.
ReaderStep == \/ ReadMeta \/ AcquireFree \/ VideoGivesUp
              \/ AudioFindsNone \/ AudioReclaims \/ AudioReclaimsNone
              \/ ReaderSetsDone \/ ReaderNotifies
Delivery == StartDecoder \/ StoreFrame \/ StoreConfig \/ ReadForNothing
Codec == SubmitConfig \/ SubmitFrame
DecodeStep == \/ DecodeLoop \/ Dequeue \/ DequeueNothing \/ Doze \/ AfterEmpty \/ CopyConfig
              \/ SkipConfig \/ SkipFrame
Stop == StopSetsDone \/ StopNotifies \/ StopJoinsReader \/ StopJoinsDecoder

Next == ReaderStep \/ ReaderFails \/ Delivery \/ DecodeStep \/ Codec \/ StopBegin \/ Stop

Spec == Init /\ [][Next]_vars

\* Threads run, and a read of a closed stream throws.  Nothing makes the stream deliver, the
\* codec give a buffer or the application stop.
Fairness ==
  /\ WF_vars(ReaderStep) /\ WF_vars(~source.open /\ ReaderFails)
  /\ WF_vars(DecodeStep) /\ WF_vars(Stop)
FairSpec == Spec /\ Fairness

-----------------------------------------------------------------------------
(* Properties.                                                             *)

TypeOK ==
  /\ kind \in {"video", "audio"} /\ running \in BOOLEAN /\ readerDone \in BOOLEAN
  /\ source \in [open : BOOLEAN, frames : Nat]
  /\ free \in Seq(Packets) /\ queue \in Seq(Packets) /\ config \in Nat
  /\ content \in [Packets -> [frame : Nat, config : Nat]]
  /\ reader \in [at : {"start", "read", "acquire", "reclaim", "payload", "drop", "done", "notify", "exited"},
                 packet : Packets \cup {NoPacket}]
  /\ decoder \in [at : {"none", "loop", "check", "doze", "asleep", "empty", "config", "submit",
                        "frame", "exited"},
                  packet : Packets \cup {NoPacket}, buffered : BOOLEAN, applied : Nat, next : Nat]
  /\ output \in [frames : Seq(Nat), config : Nat, behind : BOOLEAN]
  /\ stopper \in {"none", "done", "notify", "joinReader", "joinDecoder", "stopped"}

Held(t) == IF t.packet = NoPacket THEN <<>> ELSE <<t.packet>>
Places == free \o queue \o Held(reader) \o Held(decoder)

\* Until the pool is reset every packet is in exactly one place: free, queued, with the reader or
\* with the decode thread, whatever is reclaimed and recycled meanwhile.
OnePlace ==
  stopper # "stopped" =>
    /\ Len(Places) = Cardinality(Packets)
    /\ \A p \in Packets : \E i \in DOMAIN Places : Places[i] = p

Numbers(seq) == [i \in DOMAIN seq |-> FrameOf(seq[i])]
\* The frames that have come through the queue so far, in the order of the codec.
Line == output.frames \o Numbers(Held(decoder)) \o Numbers(queue)

\* Frames reach the codec in the order of the stream, none twice, also when the audio reader
\* reclaims packets from the queue the decode thread takes them from.
InOrder == \A i \in 1..(Len(Line) - 1) : Line[i] < Line[i + 1]

\* No video frame that was read is left out before the codec.
VideoLossless ==
  kind = "video" /\ stopper # "stopped" => Line = [i \in 1..source.frames |-> i]

\* What waits in the queue is what the stream delivered last: of audio the oldest is given up,
\* and nothing is lost while older packets wait.
KeepsNewest ==
  \A i \in DOMAIN queue : FrameOf(queue[i]) = (source.frames + i) - Len(queue)

\* The three together: what comes out of the pool and the queue, under reclaiming and recycling,
\* is the stream in its order, without losses of video and with the latest audio.
FramesKept == InOrder /\ VideoLossless /\ KeepsNewest

\* Before a frame goes to the codec, a configuration at least as new as the one read before the
\* frame has gone there (or was refused by it), although configurations overtake queued frames,
\* replace each other, and arrive while another is submitted.
ConfigFirst == ~output.behind

\* "停止所有线程并释放资源" (ScrcpyStreamManager.h:60): stop() joins both threads of the video.
VideoStopCompletes == (kind = "video" /\ stopper # "none") ~> stopper = "stopped"

\* A queued frame goes to the codec or is reclaimed, as long as the stream goes on and the codec
\* gives buffers: a thread that waits for frames or for free packets is always woken.
FramesConsumed ==
  WF_vars(Codec) =>
    \A n \in 1..MaxFrames :
      (\E i \in DOMAIN queue : FrameOf(queue[i]) = n)
        ~> ((\A i \in DOMAIN queue : FrameOf(queue[i]) # n)
            \/ readerDone \/ ~running \/ decoder.at = "exited")

\* No thread of a medium waits for ever: not stop() for the threads of the video, and not a thread
\* for a notification that has been.
NobodyStuck == VideoStopCompletes /\ FramesConsumed
=============================================================================
