------------------------------ MODULE Decoder ------------------------------
(***************************************************************************)
(* VideoDecoderNative and AudioDecoderNative: one decoder with its system  *)
(* codec, from Init to Release.  Five threads meet in it: the decode       *)
(* thread of the manager feeds input buffers, the codec calls back with    *)
(* empty input and full output buffers, the render thread (video) paces    *)
(* frames and gives them to the surface, the audio renderer calls back for *)
(* samples, and the manager initialises, starts and releases it.           *)
(*                                                                         *)
(* "raw" is audio that needs no codec: input buffers are then frames of    *)
(* the PCM pool.  Packets are numbers in the order in which they are fed;  *)
(* packets of configuration, which yield no output, are left out.  Time is *)
(* relative: clock.slack is lastTarget_ of VideoFrameClock minus now.      *)
(*                                                                         *)
(* The codec and the renderer are of the system.  Of them it is assumed    *)
(* that their stop, destroy and release wait for a callback in progress    *)
(* and that none begins afterwards.                                        *)
(***************************************************************************)
EXTENDS Integers, Sequences, FiniteSets

CONSTANTS Kinds,      \* the kinds of decoder that are examined
          InBuffers,  \* input buffers of the codec
          OutBuffers, \* output buffers of the codec
          PoolSize,   \* PCM_POOL_SIZE
          FrameLen,   \* samples in a packet of audio
          Period,     \* samples the renderer asks for at once
          Timelines,  \* the time stamps of the packets, as sequences
          Interval,   \* the interval of the configured frame rate
          Tolerance,  \* 2 ms
          LeadCap,    \* 50 ms
          LagLimit,   \* 250 ms
          GapLimit,   \* 60 s
          MaxLate,    \* bound: how far a target is followed into the past
          None        \* no buffer, no PCM frame

ASSUME KindsAssumption == Kinds \subseteq {"video", "audio", "raw"}
ASSUME SizesAssumption ==
  /\ {PoolSize, FrameLen, Period, Interval} \subseteq Nat \ {0}
  /\ {Tolerance, LeadCap, LagLimit, GapLimit, MaxLate} \subseteq Nat
  /\ Timelines \subseteq Seq(Int)
ASSUME BuffersAssumption ==
  /\ None \notin InBuffers \cup OutBuffers \cup Nat
  /\ \A b \in InBuffers : b \notin Nat

VARIABLES kind,     \* what this decoder decodes
          pts,      \* the time stamp of each packet
          ctl,      \* how far Init, Start and Release are
          started,  \* isStarted_
          running,  \* renderRunning_
          sys,      \* the codec, its callback context and the audio renderer
          input,    \* input buffers the codec will offer, inputQueue, packets fed and in the codec
          held,     \* the buffer GetInputBuffer gave the decode thread
          output,   \* output buffers in the codec, outputQueue
          callback, \* OnNewOutputBuffer in progress
          render,   \* RenderOutputLoop, its output, the calls of firstFrameCallback_
          clock,    \* frameClock
          pcm,      \* PCM frames: allocated, freePcmFrames_, pcmQueue_, contents
          writer,   \* currentFrame_, and OnAudioRendererWriteData in progress
          shown     \* what reached the surface or the renderer

vars == <<kind, pts, ctl, started, running, sys, input, held, output, callback, render, clock, pcm,
          writer, shown>>
lifecycle == <<kind, pts, ctl, started, running, sys>>
audio == <<pcm, writer>>

\* The pool, one frame more, and one for each packet where no codec limits them.
PcmIds == 1..(PoolSize + 1 + Len(pts))
Packets == DOMAIN pts
NoClock == [set |-> FALSE, pts |-> 0, slack |-> 0]
Least(a, b) == IF a < b THEN a ELSE b
Most(a, b) == IF a > b THEN a ELSE b

\* The constructor of an audio decoder fills its pool.
Init ==
  /\ kind \in Kinds /\ pts \in Timelines
  /\ ctl = "new" /\ started = FALSE /\ running = FALSE
  /\ sys = [codec |-> "none", context |-> "none", renderer |-> "none"]
  /\ input = [free |-> InBuffers, queue |-> <<>>, fed |-> 0, coded |-> <<>>]
  /\ held = None
  /\ output = [free |-> OutBuffers, queue |-> <<>>]
  /\ callback = [at |-> "idle", buf |-> None, packet |-> 0, frame |-> None]
  /\ render = [at |-> "off", buf |-> None, packet |-> 0, firsts |-> 0]
  /\ clock = NoClock
  /\ LET pool == IF kind = "video" THEN {} ELSE 1..PoolSize
     IN pcm = [alloc |-> pool, free |-> pool, queue |-> <<>>,
               of |-> [i \in PcmIds |-> [packet |-> 0, left |-> 0]]]
  /\ writer = [frame |-> None, want |-> 0]
  /\ shown = <<>>

-----------------------------------------------------------------------------
(* Init and Start, called by the thread that reads the medium.             *)

InitSucceeds ==
  /\ ctl = "new" /\ ctl' = "inited"
  /\ sys' = [codec |-> IF kind = "raw" THEN "none" ELSE "ready",
             context |-> IF kind = "raw" THEN "none" ELSE "live",
             renderer |-> IF kind = "video" THEN "none" ELSE "ready"]
  /\ UNCHANGED <<kind, pts, started, running, input, held, output, callback, render, clock, audio, shown>>

\* A failed Init of video releases what it has made; one of audio leaves that to Release.
InitFails ==
  /\ ctl = "new" /\ ctl' = "failed"
  /\ \/ UNCHANGED sys
     \/ kind = "audio" /\ \E c \in {"none", "live"} : sys' = [sys EXCEPT !.codec = "ready", !.context = c]
  /\ UNCHANGED <<kind, pts, started, running, input, held, output, callback, render, clock, audio, shown>>

StartFails ==
  /\ ctl \in {"inited", "half started"} /\ ctl' = "failed"
  /\ UNCHANGED <<kind, pts, started, running, sys, input, held, output, callback, render, clock, audio, shown>>

\* The codec of video starts, and calls back before there is a render thread.
StartVideo ==
  /\ ctl = "inited" /\ kind = "video"
  /\ sys' = [sys EXCEPT !.codec = "running"]
  /\ started' = TRUE /\ ctl' = "spawn"
  /\ UNCHANGED <<kind, pts, running, input, held, output, callback, render, clock, audio, shown>>

SpawnRender ==
  /\ ctl = "spawn" /\ ctl' = "waiting"
  /\ running' = TRUE /\ render' = [render EXCEPT !.at = "wait"]
  /\ UNCHANGED <<kind, pts, started, sys, input, held, output, callback, clock, audio, shown>>

StartRenderer ==
  /\ ctl = "inited" /\ kind # "video"
  /\ sys' = [sys EXCEPT !.renderer = "running"]
  /\ ctl' = (IF kind = "raw" THEN "waiting" ELSE "half started")
  /\ UNCHANGED <<kind, pts, started, running, input, held, output, callback, render, clock, audio, shown>>

StartAudioCodec ==
  /\ ctl = "half started" /\ ctl' = "waiting"
  /\ sys' = [sys EXCEPT !.codec = "running"]
  /\ UNCHANGED <<kind, pts, started, running, input, held, output, callback, render, clock, audio, shown>>

\* The wait for a first input buffer ends after two seconds in any case.
StartReturns ==
  /\ ctl = "waiting" /\ ctl' = "on" /\ started' = TRUE
  /\ UNCHANGED <<kind, pts, running, sys, input, held, output, callback, render, clock, audio, shown>>

-----------------------------------------------------------------------------
(* Input: the codec offers buffers, the decode thread fills them.          *)

OnNeedInputBuffer ==
  /\ sys.codec = "running"
  /\ \E b \in input.free :
       input' = [input EXCEPT !.free = @ \ {b}, !.queue = Append(@, b)]
  /\ UNCHANGED <<lifecycle, held, output, callback, render, clock, audio, shown>>

\* A frame of the pool, or a new one.
FrameFor(p) == IF p.free # {} THEN CHOOSE f \in p.free : TRUE
               ELSE CHOOSE f \in PcmIds : f \notin p.alloc
\* A faulty variant: a new frame belongs to nobody when the decoder is released.
TakeUntracked(p, f) == [p EXCEPT !.free = @ \ {f}]
TakeFrame(p, f) == [p EXCEPT !.alloc = @ \cup {f}, !.free = @ \ {f}]
Fill(p, f, k, n) == [p EXCEPT !.of = [@ EXCEPT ![f] = [packet |-> k, left |-> n]]]
Enqueue(p, f) == [p EXCEPT !.queue = Append(@, f)]

GetInputBuffer ==
  /\ ctl = "on" /\ started /\ held = None /\ input.fed < Len(pts)
  /\ IF kind = "raw"
     THEN /\ held' = FrameFor(pcm) /\ pcm' = TakeFrame(pcm, FrameFor(pcm))
          /\ UNCHANGED input
     ELSE /\ input.queue # <<>>
          /\ held' = Head(input.queue) /\ input' = [input EXCEPT !.queue = Tail(@)]
          /\ UNCHANGED pcm
  /\ UNCHANGED <<lifecycle, output, callback, render, clock, writer, shown>>

\* A packet that does not fit is given up, and the buffer goes back with nothing in it.  The codec
\* may also refuse the buffer, which then stays its own.
SubmitInputBuffer ==
  /\ held # None /\ started /\ held' = None
  /\ \E fits \in BOOLEAN :
       LET k == input.fed + 1 IN
       IF kind = "raw"
       THEN /\ pcm' = Enqueue(Fill(pcm, held, IF fits THEN k ELSE 0, IF fits THEN FrameLen ELSE 0), held)
            /\ input' = [input EXCEPT !.fed = k]
       ELSE /\ input' = [input EXCEPT !.fed = k, !.free = @ \cup {held},
                                      !.coded = IF fits THEN Append(@, k) ELSE @]
            /\ UNCHANGED pcm
  /\ UNCHANGED <<lifecycle, output, callback, render, clock, writer, shown>>

-----------------------------------------------------------------------------
(* Output: OnNewOutputBuffer, called by the codec.                         *)

CodecOutput ==
  /\ sys.codec = "running" /\ callback.at = "idle" /\ input.coded # <<>> /\ ctl # "stop codec"
  /\ \E b \in output.free :
       /\ callback' = [at |-> "check", buf |-> b, packet |-> Head(input.coded), frame |-> None]
       /\ output' = [output EXCEPT !.free = @ \ {b}]
  /\ input' = [input EXCEPT !.coded = Tail(@)]
  /\ UNCHANGED <<lifecycle, held, render, clock, audio, shown>>

Freed(b) == [output EXCEPT !.free = @ \cup {b}]
NoCallback == [at |-> "idle", buf |-> None, packet |-> 0, frame |-> None]

\* Its attributes cannot be read, nobody renders, or the queue of samples is full.
OutputDropped ==
  /\ callback.at = "check"
  /\ output' = Freed(callback.buf) /\ callback' = NoCallback
  /\ UNCHANGED <<lifecycle, input, held, render, clock, audio, shown>>

\* Video: the render thread is seen running ...
OutputSeen ==
  /\ callback.at = "check" /\ kind = "video" /\ running
  /\ callback' = [callback EXCEPT !.at = "enqueue"]
  /\ UNCHANGED <<lifecycle, input, held, output, render, clock, audio, shown>>

\* ... and the buffer goes to its queue, when it may have ended.
OutputQueued ==
  /\ callback.at = "enqueue" /\ kind = "video"
  /\ output' = [output EXCEPT !.queue = Append(@, [buf |-> callback.buf, packet |-> callback.packet])]
  /\ callback' = NoCallback
  /\ UNCHANGED <<lifecycle, input, held, render, clock, audio, shown>>

\* A faulty variant: the length of the queue is not looked at.
QueueAccepts(p) == TRUE
\* pcmQueue_.size_approx() < PCM_POOL_SIZE
QueueHasRoom(p) == Len(p.queue) < PoolSize

\* Audio: room is seen, a frame is taken from the pool or made ...
PcmSeen ==
  /\ callback.at = "check" /\ kind = "audio" /\ QueueHasRoom(pcm)
  /\ callback' = [callback EXCEPT !.at = "take"]
  /\ UNCHANGED <<lifecycle, input, held, output, render, clock, audio, shown>>

PcmTaken ==
  /\ callback.at = "take"
  /\ callback' = [callback EXCEPT !.at = "enqueue", !.frame = FrameFor(pcm)]
  /\ pcm' = Fill(TakeFrame(pcm, FrameFor(pcm)), FrameFor(pcm), callback.packet, FrameLen)
  /\ UNCHANGED <<lifecycle, input, held, output, render, clock, writer, shown>>

\* ... and queued, and the buffer goes back.
PcmQueued ==
  /\ callback.at = "enqueue" /\ kind = "audio"
  /\ pcm' = Enqueue(pcm, callback.frame)
  /\ output' = Freed(callback.buf) /\ callback' = NoCallback
  /\ UNCHANGED <<lifecycle, input, held, render, clock, writer, shown>>

-----------------------------------------------------------------------------
(* RenderOutputLoop and VideoFrameClock.                                   *)

\* A faulty variant: one interval and the tolerance, however long the interval.
LeadUncapped(delta) == Most(Interval, delta) + Tolerance
MaxLead(delta) == Least(LeadCap, Most(Interval, delta) + Tolerance)

\* VideoFrameClock::target.  The first frame, a time stamp before the last one, a gap beyond the
\* limit and a target too far away are shown at once; a time stamp below zero forgets the clock.
Target(c, t) ==
  IF t < 0 THEN NoClock
  ELSE LET delta == t - c.pts
           next == c.slack + delta
           paced == /\ c.set /\ delta >= 0 /\ delta <= GapLimit
                    /\ next <= MaxLead(delta) /\ -next <= LagLimit
       IN [set |-> TRUE, pts |-> t, slack |-> IF paced THEN next ELSE 0]

Tick ==
  /\ clock.set /\ clock.slack > -MaxLate
  /\ clock' = [clock EXCEPT !.slack = @ - 1]
  /\ UNCHANGED <<lifecycle, input, held, output, callback, render, audio, shown>>

RenderTakes ==
  /\ render.at = "wait" /\ output.queue # <<>>
  /\ render' = [render EXCEPT !.at = "have", !.buf = Head(output.queue).buf,
                              !.packet = Head(output.queue).packet]
  /\ output' = [output EXCEPT !.queue = Tail(@)]
  /\ UNCHANGED <<lifecycle, input, held, callback, clock, audio, shown>>

\* The loop ends when it should and sees its queue empty.
RenderEnds ==
  /\ render.at = "wait" /\ ~running /\ output.queue = <<>>
  /\ render' = [render EXCEPT !.at = "ended"]
  /\ UNCHANGED <<lifecycle, input, held, output, callback, clock, audio, shown>>

RenderWaits == [render EXCEPT !.at = "wait", !.buf = None, !.packet = 0]

\* A faulty variant: the frame is left, and so is its buffer.
KeepsBuffer ==
  /\ render' = RenderWaits /\ UNCHANGED <<output, clock, shown>>
\* FreeOutputBuffer, and on to the next.
FreesBuffer ==
  /\ render' = RenderWaits /\ output' = Freed(render.buf) /\ UNCHANGED <<clock, shown>>

\* What is in the queue when the decoder stops is not shown.
RenderHas ==
  /\ render.at = "have"
  /\ IF running
     THEN /\ clock' = Target(clock, pts[render.packet])
          /\ render' = [render EXCEPT !.at = "pace"]
          /\ UNCHANGED <<output, shown>>
     ELSE FreesBuffer
  /\ UNCHANGED <<lifecycle, input, held, callback, audio>>

\* The frame's time has come.
RenderShows ==
  /\ render.at = "pace" /\ clock.slack <= 0 /\ running
  /\ shown' = Append(shown, render.packet)
  /\ output' = Freed(render.buf)
  /\ render' = [RenderWaits EXCEPT !.firsts = IF shown = <<>> THEN @ + 1 ELSE @]
  /\ UNCHANGED <<lifecycle, input, held, callback, clock, audio>>

\* The decoder was stopped in the meantime, or RenderOutputBuffer fails.
RenderFrees ==
  /\ render.at = "pace" /\ clock.slack <= 0
  /\ FreesBuffer
  /\ UNCHANGED <<lifecycle, input, held, callback, audio>>

-----------------------------------------------------------------------------
(* OnAudioRendererWriteData, called by the renderer.                       *)

WriteBegins ==
  /\ sys.renderer = "running" /\ writer.want = 0 /\ ctl \notin {"stop renderer", "release"}
  /\ writer' = [writer EXCEPT !.want = Period]
  /\ UNCHANGED <<lifecycle, input, held, output, callback, render, clock, pcm, shown>>

\* A faulty variant: what is left of a frame is not worth a copy.
NearlyExhausted == writer.frame = None \/ pcm.of[writer.frame].left < writer.want
Exhausted == writer.frame = None \/ pcm.of[writer.frame].left = 0

\* A faulty variant: a frame is put back when there is none to follow it, and kept.
RecycleKeeps ==
  /\ pcm' = [pcm EXCEPT !.free = @ \cup {writer.frame}]
  /\ IF pcm.queue = <<>> THEN UNCHANGED writer ELSE writer' = [writer EXCEPT !.frame = None]
\* The frame goes back to the pool, and is no longer the current one.
Recycle ==
  /\ pcm' = [pcm EXCEPT !.free = @ \cup {writer.frame}]
  /\ writer' = [writer EXCEPT !.frame = None]

WriteRecycles ==
  /\ writer.want > 0 /\ writer.frame # None /\ Exhausted
  /\ Recycle
  /\ UNCHANGED <<lifecycle, input, held, output, callback, render, clock, shown>>

\* The next frame; when there is none the rest is silence.
WriteTakes ==
  /\ writer.want > 0 /\ writer.frame = None
  /\ IF pcm.queue = <<>>
     THEN writer' = [writer EXCEPT !.want = 0] /\ UNCHANGED pcm
     ELSE /\ writer' = [writer EXCEPT !.frame = Head(pcm.queue)]
          /\ pcm' = [pcm EXCEPT !.queue = Tail(@)]
  /\ UNCHANGED <<lifecycle, input, held, output, callback, render, clock, shown>>

WriteCopies ==
  /\ writer.want > 0 /\ ~Exhausted
  /\ LET f == writer.frame
         n == Least(pcm.of[f].left, writer.want)
     IN /\ pcm' = Fill(pcm, f, pcm.of[f].packet, pcm.of[f].left - n)
        /\ writer' = [writer EXCEPT !.want = @ - n]
        /\ shown' = shown \o [i \in 1..n |-> pcm.of[f].packet]
  /\ UNCHANGED <<lifecycle, input, held, output, callback, render, clock>>

-----------------------------------------------------------------------------
(* Release, called by stop() of the manager, which has joined the threads  *)
(* that start and feed the decoder.                                        *)

Nothing == sys = [codec |-> "none", context |-> "none", renderer |-> "none"]

ReleaseBegins ==
  /\ ctl \in {"on", "failed"} /\ held = None
  /\ ctl' = (CASE Nothing -> "released"
               [] ~Nothing /\ kind = "video" -> "join"
               [] ~Nothing /\ kind # "video" -> IF started THEN "stop renderer" ELSE "stop codec")
  /\ running' = FALSE
  /\ started' = (started /\ kind = "video")
  /\ UNCHANGED <<kind, pts, sys, input, held, output, callback, render, clock, audio, shown>>

\* Stop of audio that was not started stops nothing: codec and renderer are released as they are.
\* A faulty variant: Stop of video does not wait for the render thread.
RenderNotJoined == TRUE
RenderJoined == render.at \in {"off", "ended"}

ReleaseJoins ==
  /\ ctl = "join" /\ RenderJoined
  /\ ctl' = "stop codec"
  /\ UNCHANGED <<kind, pts, started, running, sys, input, held, output, callback, render, clock, audio, shown>>

StopRenderer ==
  /\ ctl = "stop renderer" /\ writer.want = 0
  /\ ctl' = "stop codec"
  /\ sys' = [sys EXCEPT !.renderer = IF @ = "running" THEN "stopped" ELSE @]
  /\ UNCHANGED <<kind, pts, started, running, input, held, output, callback, render, clock, audio, shown>>

\* The codec is stopped and destroyed.
DestroyCodec ==
  /\ ctl = "stop codec" /\ callback.at = "idle"
  /\ ctl' = "release" /\ started' = FALSE
  /\ sys' = [sys EXCEPT !.codec = "none"]
  /\ UNCHANGED <<kind, pts, running, input, held, output, callback, render, clock, audio, shown>>

\* The rest: renderer, context, PCM frames.
ReleaseRest ==
  /\ ctl = "release" /\ writer.want = 0 /\ ctl' = "released"
  /\ sys' = [sys EXCEPT !.renderer = "none", !.context = "none"]
  /\ output' = [output EXCEPT !.queue = <<>>]
  /\ pcm' = [pcm EXCEPT !.alloc = {}, !.free = {}, !.queue = <<>>]
  /\ writer' = [writer EXCEPT !.frame = None]
  /\ UNCHANGED <<kind, pts, started, running, input, held, callback, render, clock, shown>>

Done == ctl = "released" /\ UNCHANGED vars

-----------------------------------------------------------------------------
Starting == InitSucceeds \/ InitFails \/ StartFails \/ StartVideo \/ SpawnRender \/ StartRenderer
            \/ StartAudioCodec \/ StartReturns
Codec == CodecOutput \/ OutputDropped \/ OutputSeen \/ OutputQueued \/ PcmSeen \/ PcmTaken \/ PcmQueued
Render == RenderTakes \/ RenderEnds \/ RenderHas \/ RenderShows \/ RenderFrees
Writer == WriteBegins \/ WriteRecycles \/ WriteTakes \/ WriteCopies
Release == ReleaseJoins \/ StopRenderer \/ DestroyCodec \/ ReleaseRest

Next == Starting \/ OnNeedInputBuffer \/ GetInputBuffer \/ SubmitInputBuffer \/ Codec \/ Render \/ Tick
        \/ Writer \/ ReleaseBegins \/ Release \/ Done

Spec == Init /\ [][Next]_vars
FairSpec ==
  /\ Spec
  /\ WF_vars(SubmitInputBuffer) /\ WF_vars(OutputDropped \/ OutputQueued \/ PcmTaken \/ PcmQueued)
  /\ WF_vars(Render) /\ WF_vars(Tick) /\ WF_vars(WriteRecycles \/ WriteTakes \/ WriteCopies)
  /\ WF_vars(Release)

-----------------------------------------------------------------------------
TypeOK ==
  /\ kind \in Kinds /\ pts \in Timelines
  /\ ctl \in {"new", "inited", "half started", "spawn", "waiting", "on", "failed", "join",
             "stop renderer", "stop codec", "release", "released"}
  /\ started \in BOOLEAN /\ running \in BOOLEAN
  /\ sys \in [codec : {"none", "ready", "running"}, context : {"none", "live"},
              renderer : {"none", "ready", "running", "stopped"}]
  /\ input \in [free : SUBSET InBuffers, queue : Seq(InBuffers), fed : 0..Len(pts), coded : Seq(Packets)]
  /\ held \in InBuffers \cup PcmIds \cup {None}
  /\ output \in [free : SUBSET OutBuffers, queue : Seq([buf : OutBuffers, packet : Packets])]
  /\ callback \in [at : {"idle", "check", "take", "enqueue"}, buf : OutBuffers \cup {None},
                   packet : Packets \cup {0}, frame : PcmIds \cup {None}]
  /\ render \in [at : {"off", "wait", "have", "pace", "ended"}, buf : OutBuffers \cup {None},
                 packet : Packets \cup {0}, firsts : Nat]
  /\ clock \in [set : BOOLEAN, pts : Int, slack : Int]
  /\ pcm \in [alloc : SUBSET PcmIds, free : SUBSET PcmIds, queue : Seq(PcmIds),
              of : [PcmIds -> [packet : Packets \cup {0}, left : 0..FrameLen]]]
  /\ pcm.free \subseteq pcm.alloc
  /\ writer \in [frame : PcmIds \cup {None}, want : 0..Period]
  /\ shown \in Seq(Packets)

(* While the codec lives, each of its output buffers is in one place: in   *)
(* the codec, in the callback, in outputQueue or with the render thread;   *)
(* and each PCM frame is in one place: in the pool, in pcmQueue_, with the *)
(* codec's callback, with the renderer's or with the decode thread.  Two   *)
(* places would be a frame that is overwritten while it plays, or freed    *)
(* twice; none a buffer the codec never gets back.  And who holds a buffer *)
(* or is inside a callback finds the codec, the context or the frame       *)
(* alive: Release takes them away in an order that nobody overtakes.       *)
Places(claims) == Cardinality({i \in DOMAIN claims : claims[i]})
Once(q, x) == Cardinality({i \in DOMAIN q : q[i] = x}) <= 1
InQueue(q, x) == \E i \in DOMAIN q : q[i] = x
OutputBufs == [i \in DOMAIN output.queue |-> output.queue[i].buf]
Owned ==
  /\ sys.codec = "none" \/
     \A b \in OutBuffers :
       /\ Places(<<b \in output.free, callback.buf = b, render.buf = b, InQueue(OutputBufs, b)>>) = 1
       /\ Once(OutputBufs, b)
  /\ \A f \in pcm.alloc :
       /\ Places(<<f \in pcm.free, InQueue(pcm.queue, f), callback.frame = f, writer.frame = f, held = f>>) = 1
       /\ Once(pcm.queue, f)
  /\ (render.buf # None \/ callback.at # "idle") => sys.codec # "none" /\ sys.context = "live"
  /\ held # None => kind = "raw" \/ sys.codec # "none"
  /\ writer.frame # None => writer.frame \in pcm.alloc

(* What is seen and heard is in the order in which it was fed, a frame of  *)
(* video at most once, a packet of audio to its end before the next one,   *)
(* and the first frame is announced exactly once.                          *)
Times(k) == Cardinality({i \in DOMAIN shown : shown[i] = k})
ShownInOrder ==
  /\ \A i \in 2..Len(shown) :
       \/ shown[i - 1] < shown[i] /\ Times(shown[i - 1]) = (IF kind = "video" THEN 1 ELSE FrameLen)
       \/ shown[i - 1] = shown[i] /\ kind # "video"
  /\ \A k \in Packets : Times(k) <= FrameLen
  /\ kind = "video" => render.firsts = (IF shown = <<>> THEN 0 ELSE 1)

(* Nothing is held back for long, however the time stamps and the network  *)
(* behave: the render thread never waits for more than LeadCap ("Do not    *)
(* make touch feedback wait behind an implausible future timestamp",       *)
(* VideoTiming.h), though targets add up from frame to frame; and decoded  *)
(* audio takes no more memory than the pool and one frame.                 *)
LatencyBounded ==
  /\ clock.slack <= LeadCap
  /\ kind = "audio" => Len(pcm.queue) <= PoolSize /\ Cardinality(pcm.alloc) <= PoolSize + 1

(* Nobody is stuck: an output buffer that the codec gave away comes back,  *)
(* whatever becomes of the frame, or the codec would run out of them; and  *)
(* a release ends, although it waits for the render thread, which sleeps,  *)
(* and for callbacks in progress.                                          *)
Releasing == ctl \in {"join", "stop renderer", "stop codec", "release"}
NothingStuck ==
  /\ \A b \in OutBuffers : (b \notin output.free) ~> (b \in output.free \/ sys.codec = "none")
  /\ Releasing ~> (ctl = "released")
=============================================================================
