---------------------------- MODULE StreamManager ----------------------------
(***************************************************************************)
(* ScrcpyStreamManager: the threads of one manager, its tunnels and its    *)
(* control queue, from start() or startReverse() over stop() to the        *)
(* destructor, which calls stop() again.                                   *)
(*                                                                         *)
(* start() gets streams of the ADB connection that are open and creates    *)
(* their threads; startReverse() creates a listener and an accept thread,  *)
(* which creates the threads of a medium when the device has connected.    *)
(* One caller starts, stops and destroys, in this order.                   *)
(*                                                                         *)
(* A medium's reader and decode thread are here what stop() sees of them   *)
(* (module MediaPackets has the rest): a reader that finds the manager not *)
(* running throws at its next read, a blocked read ends with data, with a  *)
(* timeout of the handshake or when the tunnel is closed, and a decode     *)
(* thread ends when it notices that the manager stops or that its reader   *)
(* has ended.  The decode thread of the audio waits for that without a     *)
(* time limit, and what it waits for is set and notified without the mutex *)
(* of its wait.                                                            *)
(***************************************************************************)
EXTENDS Naturals, Sequences

CONSTANTS QueueMax,    \* CONTROL_MSG_QUEUE_MAX
          MaxControls  \* bound: control messages accepted

ASSUME ManagerAssumption == QueueMax \in Nat \ {0} /\ MaxControls \in Nat

VARIABLES mode,     \* "forward" or "reverse"
          media,    \* the media that are expected, in the order of their connections
          running,  \* running_
          thread,   \* each thread: "none" is a std::thread that is not joinable
          tunnel,   \* each medium's stream of the connection or local channel
          accept,   \* the accept thread: where it is, and the media it still expects
          listener, \* listenFd_
          control,  \* controlReliableQueue_: messages accepted, and taken out of it
          error,    \* whether an "error" or "disconnected" event was emitted
          stopper   \* the calls of stop(): how many, where the last one is, the next join

vars == <<mode, media, running, thread, tunnel, accept, listener, control, error, stopper>>

Media == {"video", "audio", "control"}
\* The threads in the order stop() joins them.
Joins == <<"video", "videoDecode", "audio", "audioDecode", "control", "controlSend", "accept">>
Threads == {Joins[i] : i \in DOMAIN Joins}
Decode == [m \in {"video", "audio"} |-> IF m = "video" THEN "videoDecode" ELSE "audioDecode"]
\* The threads created when a medium's tunnel is there.
ThreadsOf(m) == IF m = "control" THEN {"control", "controlSend"} ELSE {m}

Init ==
  /\ mode \in {"forward", "reverse"}
  /\ media \in {<<"video", "control">>, <<"video", "audio", "control">>}
  /\ running = FALSE
  /\ thread = [t \in Threads |-> "none"]
  /\ tunnel = [m \in Media |-> "none"]
  /\ accept = [at |-> "none", left |-> <<>>]
  /\ listener = "none"
  /\ control = [accepted |-> 0, taken |-> 0]
  /\ error = FALSE
  /\ stopper = [calls |-> 0, at |-> "idle", join |-> 1]

Goes(t, label) == thread' = [thread EXCEPT ![t] = label]
\* A faulty variant: the application is not told.
FailsQuietly == UNCHANGED error
\* The end of a tunnel is reported unless the manager is stopping.
Fails == error' = (error \/ running)

-----------------------------------------------------------------------------
(* start, startReverse and the accept thread.                              *)

New == stopper.calls = 0 /\ ~running

Start ==
  /\ New /\ mode = "forward"
  /\ running' = TRUE
  /\ tunnel' = [m \in Media |-> IF \E i \in DOMAIN media : media[i] = m THEN "open" ELSE "none"]
  /\ thread' = [t \in Threads |-> IF \E i \in DOMAIN media : t \in ThreadsOf(media[i]) THEN "start" ELSE "none"]
  /\ UNCHANGED <<mode, media, accept, listener, control, error, stopper>>

StartReverse ==
  /\ New /\ mode = "reverse"
  /\ running' = TRUE /\ listener' = "open"
  /\ accept' = [at |-> "accept", left |-> media]
  /\ Goes("accept", "loop")
  /\ UNCHANGED <<mode, media, tunnel, control, error, stopper>>

\* accept returns a connection of the device ...
Accept ==
  /\ accept.at = "accept" /\ accept.left # <<>> /\ listener = "open"
  /\ accept' = [accept EXCEPT !.at = "store"]
  /\ UNCHANGED <<mode, media, running, thread, tunnel, listener, control, error, stopper>>

\* ... which becomes the medium's channel ...
AcceptStores ==
  /\ accept.at = "store"
  /\ tunnel' = [tunnel EXCEPT ![Head(accept.left)] = "open"]
  /\ accept' = [accept EXCEPT !.at = "create"]
  /\ UNCHANGED <<mode, media, running, thread, listener, control, error, stopper>>

\* ... and gets its threads.
AcceptCreates ==
  /\ accept.at = "create"
  /\ thread' = [t \in Threads |-> IF t \in ThreadsOf(Head(accept.left)) THEN "start" ELSE thread[t]]
  /\ accept' = [at |-> "accept", left |-> Tail(accept.left)]
  /\ UNCHANGED <<mode, media, running, tunnel, listener, control, error, stopper>>

\* Everything has come, or accept fails because the listener is closed.
AcceptEnds ==
  /\ accept.at = "accept" /\ (accept.left = <<>> \/ listener = "closed")
  /\ accept' = [accept EXCEPT !.at = "ended"]
  /\ Goes("accept", "ended")
  /\ IF accept.left = <<>> THEN UNCHANGED error ELSE Fails
  /\ UNCHANGED <<mode, media, running, tunnel, listener, control, stopper>>

\* The device, or what is between, closes a tunnel.
DeviceCloses(m) ==
  /\ tunnel[m] = "open"
  /\ tunnel' = [tunnel EXCEPT ![m] = "closed"]
  /\ UNCHANGED <<mode, media, running, thread, accept, listener, control, error, stopper>>

-----------------------------------------------------------------------------
(* The readers of the media and of the control tunnel.                     *)

\* A faulty variant: reads do not look at running_.
ReadThrowsWhenClosed(m) == tunnel[m] # "open"
\* readExactToBuffer throws before it touches the tunnel of a manager that is stopping.
ReadThrows(m) == ~running \/ tunnel[m] # "open"

\* A thread's first read, which throws or blocks.
FirstRead(m) ==
  /\ thread[m] = "start"
  /\ IF ReadThrows(m) THEN Goes(m, "ended") /\ Fails ELSE Goes(m, "reading") /\ UNCHANGED error
  /\ UNCHANGED <<mode, media, running, tunnel, accept, listener, control, stopper>>

\* The handshake is complete and the decoder runs: the decode thread is created, also when the
\* tunnel was closed or the manager stopped after the last byte of the handshake.
CreateDecode(m) ==
  /\ thread[m] = "reading"
  /\ thread' = [thread EXCEPT ![m] = "loop", ![Decode[m]] = "loop"]
  /\ UNCHANGED <<mode, media, running, tunnel, accept, listener, control, error, stopper>>

\* The device has no audio to send; its reader ends, which is not an error.
AudioDisabled ==
  /\ thread["audio"] = "reading"
  /\ Goes("audio", "ended")
  /\ UNCHANGED <<mode, media, running, tunnel, accept, listener, control, error, stopper>>

\* A faulty variant: the decode thread is not notified.
NotifiedNobody(th) == th
\* audioPackets_.notifyAll wakes the decode thread of the audio if it sleeps already.  If it has
\* checked and will sleep, the notification is lost.
Notified(th) ==
  [th EXCEPT !["audioDecode"] = IF @ \in {"asleep", "missed"} THEN "loop"
                                ELSE IF @ = "doze" THEN "late" ELSE @]

\* A read throws, the decoder does not start, the handshake times out, or a read that was blocked
\* returns when the manager does not run any more.
ReaderEnds(m) ==
  /\ thread[m] \in {"reading", "loop"}
  /\ thread' = LET th == [thread EXCEPT ![m] = "ended"] IN IF m = "audio" THEN Notified(th) ELSE th
  /\ Fails
  /\ UNCHANGED <<mode, media, running, tunnel, accept, listener, control, stopper>>

\* The codec fails, or the end.
DecodeFails(m) ==
  /\ thread[Decode[m]] = "loop" /\ running
  /\ Goes(Decode[m], "ended") /\ Fails
  /\ UNCHANGED <<mode, media, running, tunnel, accept, listener, control, stopper>>
DecodeEnds(m) ==
  /\ thread[Decode[m]] = "loop" /\ (~running \/ thread[m] = "ended")
  /\ Goes(Decode[m], "ended")
  /\ UNCHANGED <<mode, media, running, tunnel, accept, listener, control, error, stopper>>

\* waitDequeue: the decode thread of the audio finds no packet and no reason to end, ...
AudioDozes ==
  /\ thread["audioDecode"] = "loop" /\ running /\ thread["audio"] # "ended"
  /\ Goes("audioDecode", "doze")
  /\ UNCHANGED <<mode, media, running, tunnel, accept, listener, control, error, stopper>>

\* ... then sleeps until it is notified, ...
AudioSleeps ==
  /\ thread["audioDecode"] \in {"doze", "late"}
  /\ Goes("audioDecode", IF thread["audioDecode"] = "doze" THEN "asleep" ELSE "missed")
  /\ UNCHANGED <<mode, media, running, tunnel, accept, listener, control, error, stopper>>

\* ... be it by a packet of its reader.
AudioWakes ==
  /\ thread["audioDecode"] \in {"asleep", "missed"} /\ thread["audio"] = "loop"
  /\ Goes("audioDecode", "loop")
  /\ UNCHANGED <<mode, media, running, tunnel, accept, listener, control, error, stopper>>

-----------------------------------------------------------------------------
(* Control messages.                                                       *)

\* A faulty variant: messages that were taken still count.
WaitingAll == control.accepted
Waiting == control.accepted - control.taken

SendControl ==
  /\ running /\ Waiting < QueueMax /\ control.accepted < MaxControls
  /\ control' = [control EXCEPT !.accepted = @ + 1]
  /\ UNCHANGED <<mode, media, running, thread, tunnel, accept, listener, error, stopper>>

\* controlSendThreadFunc gets its sink, or finds that the tunnel is gone.
SenderStarts ==
  /\ thread["controlSend"] = "start"
  /\ IF tunnel["control"] \in {"open", "closed"}
       THEN Goes("controlSend", "loop") /\ UNCHANGED error
       ELSE Goes("controlSend", "ended") /\ Fails
  /\ UNCHANGED <<mode, media, running, tunnel, accept, listener, control, stopper>>

\* It takes a message, ...
SenderTakes ==
  /\ thread["controlSend"] = "loop" /\ Waiting > 0
  /\ control' = [control EXCEPT !.taken = @ + 1]
  /\ Goes("controlSend", "sending")
  /\ UNCHANGED <<mode, media, running, tunnel, accept, listener, error, stopper>>

\* ... writes it or ends with it, ...
SenderWrites ==
  /\ thread["controlSend"] = "sending"
  /\ IF tunnel["control"] = "open" THEN Goes("controlSend", "loop") /\ UNCHANGED error
                                   ELSE Goes("controlSend", "ended") /\ Fails
  /\ UNCHANGED <<mode, media, running, tunnel, accept, listener, control, stopper>>

\* ... or finds the queue empty at the end.
SenderEnds ==
  /\ thread["controlSend"] = "loop" /\ Waiting = 0 /\ (~running \/ tunnel["control"] # "open")
  /\ Goes("controlSend", "ended") /\ Fails
  /\ UNCHANGED <<mode, media, running, tunnel, accept, listener, control, stopper>>

-----------------------------------------------------------------------------
(* stop() and the destructor.                                              *)

\* A faulty variant: a manager that does not run has nothing to stop.
NothingToStopIfNotRunning == ~running
NothingToStop == ~running /\ \A t \in Threads : thread[t] = "none"

\* The first call is the application's, the second the destructor's.
Stop ==
  /\ stopper.calls < 2 /\ stopper.at \in {"idle", "done"} /\ (stopper.calls = 1 \/ running)
  /\ running' = FALSE
  /\ stopper' = [calls |-> stopper.calls + 1, at |-> IF NothingToStop THEN "done" ELSE "tunnels", join |-> 1]
  /\ UNCHANGED <<mode, media, thread, tunnel, accept, listener, control, error>>

ClosedTunnels == [m \in Media |-> IF tunnel[m] = "open" THEN "closed" ELSE tunnel[m]]

\* closeLocalTunnels: the channels there are.
StopTunnels ==
  /\ stopper.at = "tunnels"
  /\ tunnel' = IF mode = "reverse" THEN ClosedTunnels ELSE tunnel
  /\ stopper' = [stopper EXCEPT !.at = "listener"]
  /\ UNCHANGED <<mode, media, running, thread, accept, listener, control, error>>

\* A faulty variant: the listener stays open.
ClosedListenerKept(l) == l
ClosedListener(l) == IF l = "open" THEN "closed" ELSE l

\* closeListener; the packet stores are notified; streamClose.
StopListener ==
  /\ stopper.at = "listener"
  /\ listener' = ClosedListener(listener)
  /\ tunnel' = IF mode = "forward" THEN ClosedTunnels ELSE tunnel
  /\ thread' = Notified(thread)
  /\ stopper' = [stopper EXCEPT !.at = "join"]
  /\ UNCHANGED <<mode, media, running, accept, control, error>>

StopJoins ==
  /\ stopper.at = "join" /\ stopper.join <= Len(Joins)
  /\ thread[Joins[stopper.join]] \in {"none", "ended"}
  /\ Goes(Joins[stopper.join], "none")
  /\ stopper' = [stopper EXCEPT !.join = @ + 1]
  /\ UNCHANGED <<mode, media, running, tunnel, accept, listener, control, error>>

\* The queue is drained and the channels are deleted.
StopReleases ==
  /\ stopper.at = "join" /\ stopper.join > Len(Joins)
  /\ control' = [control EXCEPT !.taken = control.accepted]
  /\ tunnel' = [m \in Media |-> IF mode = "reverse" /\ tunnel[m] # "none" THEN "released" ELSE tunnel[m]]
  /\ stopper' = [stopper EXCEPT !.at = "done"]
  /\ UNCHANGED <<mode, media, running, thread, accept, listener, error>>

-----------------------------------------------------------------------------
AcceptThread == AcceptStores \/ AcceptCreates \/ AcceptEnds
Sender == SenderStarts \/ SenderTakes \/ SenderWrites \/ SenderEnds
StopSteps == StopTunnels \/ StopListener \/ StopJoins \/ StopReleases

Next ==
  \/ Start \/ StartReverse \/ Accept \/ AcceptThread
  \/ \E m \in Media : DeviceCloses(m) \/ FirstRead(m) \/ ReaderEnds(m)
  \/ \E m \in DOMAIN Decode : CreateDecode(m) \/ DecodeFails(m) \/ DecodeEnds(m)
  \/ AudioDisabled \/ AudioDozes \/ AudioSleeps \/ AudioWakes \/ SendControl \/ Sender \/ Stop \/ StopSteps

Spec == Init /\ [][Next]_vars

\* Threads run; reads of a closed tunnel and handshakes end, and so do decode threads that do not
\* sleep (the waits of the video's have a time limit).  Nothing makes the device connect or send
\* or anyone stop.
Fairness ==
  /\ WF_vars(AcceptThread) /\ WF_vars(Sender) /\ WF_vars(StopSteps) /\ WF_vars(AudioSleeps)
  /\ \A m \in Media : WF_vars(FirstRead(m)) /\ WF_vars(tunnel[m] # "open" /\ ReaderEnds(m))
  /\ \A m \in DOMAIN Decode : /\ WF_vars(thread[m] = "reading" /\ ReaderEnds(m))
                              /\ WF_vars(DecodeEnds(m))
FairSpec == Spec /\ Fairness

-----------------------------------------------------------------------------
(* Properties.                                                             *)

TypeOK ==
  /\ mode \in {"forward", "reverse"} /\ media \in Seq(Media) /\ running \in BOOLEAN
  /\ thread \in [Threads -> {"none", "start", "reading", "loop", "doze", "late", "asleep", "missed", "sending",
                         "ended"}]
  /\ tunnel \in [Media -> {"none", "open", "closed", "released"}]
  /\ accept \in [at : {"none", "accept", "store", "create", "ended"}, left : Seq(Media)]
  /\ listener \in {"none", "open", "closed"}
  /\ control \in [accepted : Nat, taken : Nat] /\ control.taken <= control.accepted
  /\ error \in BOOLEAN
  /\ stopper \in [calls : 0..2, at : {"idle", "tunnels", "listener", "join", "done"}, join : 1..8]

NoThread == \A t \in Threads : thread[t] = "none"

\* A manager that is destroyed has no thread left: the destructor's call of stop() joins what the
\* first call missed, because the accept thread created it behind the join.
DestroyedClean == stopper.calls = 2 /\ stopper.at = "done" => NoThread

\* No thread reads a channel that stop() has deleted, not even one created behind its join.
NoReadOfReleased == \A m \in Media : thread[m] \in {"reading", "loop"} => tunnel[m] # "released"

\* Neither stop() nor the destructor takes anything away that a thread still uses or will use.
NoUseAfterRelease == DestroyedClean /\ NoReadOfReleased

\* The decode thread of the audio sleeps although it was notified: the notification of stop(), and
\* that of its reader's end, came between its check and its sleep.  Nobody will wake it.
Unnoticed == thread["audioDecode"] = "missed" /\ ~running /\ thread["audio"] \in {"ended", "none"}

\* stop() returns, wherever the threads are when it begins and also when the device connects
\* meanwhile, unless the decode thread of the audio has missed its notifications: for that thread
\* it waits for ever.
StopCompletes == stopper.calls > 0 ~> (stopper.at = "done" \/ Unnoticed)

\* While the manager runs the application learns that the video or the control tunnel is gone.  (The
\* end of an audio tunnel that the device does not use is not reported.)
LossReported ==
  (running /\ \E m \in {"video", "control"} : tunnel[m] = "closed") ~> (error \/ ~running)
=============================================================================
