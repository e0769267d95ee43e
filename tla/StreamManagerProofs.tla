------------------------- MODULE StreamManagerProofs --------------------------
(***************************************************************************)
(* What StreamManager promises, proved for any limit of the control queue  *)
(* and any number of messages:                                             *)
(*                                                                         *)
(*   TypeCorrect      TypeOK                                               *)
(*   ReleasedUnused   NoUseAfterRelease                                    *)
(*                                                                         *)
(* A thread that stop() has joined does not stay away: until its own join, *)
(* which is the last, the accept thread creates readers and senders behind *)
(* the joins.  Joined says what can be left behind a join of the first     *)
(* stop(): a reader that has not read yet, and will throw at its first     *)
(* read because the manager does not run, never one that reads or creates  *)
(* a decode thread.  JoinedAgain says that nothing is left behind a join   *)
(* of the destructor's stop(), because no accept thread is left then.      *)
(***************************************************************************)
EXTENDS StreamManager, SequenceTheorems, TLAPS

(* The destructor's stop() has passed the joins before the i-th ...        *)
PassedAgain(i) == stopper.calls = 2 /\ (stopper.at = "done" \/ (stopper.at = "join" /\ stopper.join >= i))
(* ... or one of the two calls has.                                        *)
Passed(i) ==
  \/ stopper.calls = 2
  \/ stopper.calls = 1 /\ (stopper.at = "done" \/ (stopper.at = "join" /\ stopper.join >= i))

(* TypeOK in parts.  The manager runs until the first stop() and never again. *)
Control ==
  /\ mode \in {"forward", "reverse"} /\ media \in Seq(Media) /\ running \in BOOLEAN /\ error \in BOOLEAN
  /\ control \in [accepted : Nat, taken : Nat] /\ control.taken <= control.accepted
  /\ stopper \in [calls : 0..2, at : {"idle", "tunnels", "listener", "join", "done"}, join : 1..8]
  /\ running => stopper.calls = 0
  /\ stopper.at = "idle" <=> stopper.calls = 0
  /\ stopper.at \in {"tunnels", "listener"} => stopper.join = 1
(* Channels are deleted after the last join.                               *)
Channels ==
  /\ tunnel \in [Media -> {"none", "open", "closed", "released"}]
  /\ listener \in {"none", "open", "closed"}
  /\ \A m \in Media : tunnel[m] = "released" => Passed(8)
(* The accept thread is alive while it may create threads.                 *)
Accepting ==
  /\ accept \in [at : {"none", "accept", "store", "create", "ended"}, left : Seq(Media)]
  /\ accept.at \in {"store", "create"} => accept.left # <<>>
  /\ mode = "forward" => accept.at = "none"
  /\ accept.at \in {"accept", "store", "create"} => thread["accept"] = "loop"
Running ==
  /\ thread \in [Threads -> {"none", "start", "reading", "loop", "doze", "late", "asleep", "missed",
                         "sending", "ended"}]

(* Behind the joins.                                                       *)
Unread == {"none", "start", "ended"}
Joined ==
  /\ Passed(2) => thread["video"] \in Unread
  /\ Passed(3) => thread["videoDecode"] = "none"
  /\ Passed(4) => thread["audio"] \in Unread
  /\ Passed(5) => thread["audioDecode"] = "none"
  /\ Passed(6) => thread["control"] \in Unread
  /\ Passed(8) => thread["accept"] = "none"
JoinedAgain ==
  /\ PassedAgain(2) => thread["video"] = "none"
  /\ PassedAgain(3) => thread["videoDecode"] = "none"
  /\ PassedAgain(4) => thread["audio"] = "none"
  /\ PassedAgain(5) => thread["audioDecode"] = "none"
  /\ PassedAgain(6) => thread["control"] = "none"
  /\ PassedAgain(7) => thread["controlSend"] = "none"
  /\ PassedAgain(8) => thread["accept"] = "none"

(* The inductive invariant.                                                *)
IInv == Control /\ Channels /\ Accepting /\ Running /\ Joined /\ JoinedAgain

-----------------------------------------------------------------------------
\* The threads by name, in the order of the joins.
LEMMA Names ==
  /\ Threads = {"video", "videoDecode", "audio", "audioDecode", "control", "controlSend", "accept"}
  /\ Len(Joins) = 7
  /\ Joins[1] = "video" /\ Joins[2] = "videoDecode" /\ Joins[3] = "audio" /\ Joins[4] = "audioDecode"
  /\ Joins[5] = "control" /\ Joins[6] = "controlSend" /\ Joins[7] = "accept"
  /\ DOMAIN Decode = {"video", "audio"} /\ Decode["video"] = "videoDecode" /\ Decode["audio"] = "audioDecode"
<1>1. DOMAIN Joins = 1..7 /\ Len(Joins) = 7
  BY DEF Joins
<1>2. 1..7 = {1, 2, 3, 4, 5, 6, 7}
  OBVIOUS
<1> QED
  BY <1>1, <1>2 DEF Threads, Joins, Decode

\* No decode thread and no accept thread is created for a connection.
LEMMA MediaStarts ==
  ASSUME NEW m \in Media
  PROVE  ThreadsOf(m) \subseteq {"video", "audio", "control", "controlSend"}
  BY DEF Media, ThreadsOf

\* The media that are still expected.
LEMMA HeadAndTail ==
  ASSUME NEW S, NEW q \in Seq(S), q # <<>>
  PROVE  Head(q) \in S /\ Tail(q) \in Seq(S)
  BY HeadTailProperties

-----------------------------------------------------------------------------
(* Every step keeps the invariant, part by part.                           *)

\* Nothing sets running_ again after stop(), and no message is taken twice.
LEMMA ControlKept ==
  ASSUME IInv, [Next]_vars
  PROVE  Control'
<1> USE DEF IInv, Control
<1>1. CASE Start
  BY <1>1, Names DEF Start, New
<1>2. CASE StartReverse
  BY <1>2, Names DEF StartReverse, New, Goes
<1>3. CASE AcceptEnds
  BY <1>3, Names DEF AcceptEnds, Goes, Fails
<1>4. ASSUME NEW m \in Media, FirstRead(m)
      PROVE  Control'
  BY <1>4, Names DEF FirstRead, Goes, Fails, ReadThrows
<1>5. ASSUME NEW m \in Media, ReaderEnds(m)
      PROVE  Control'
  BY <1>5, Names DEF ReaderEnds, Fails
<1>6. ASSUME NEW m \in DOMAIN Decode, DecodeFails(m)
      PROVE  Control'
  BY <1>6, Names DEF DecodeFails, Goes, Fails
<1>7. CASE SendControl
  BY <1>7, Names DEF SendControl, Waiting
<1>8. CASE SenderStarts
  BY <1>8, Names DEF SenderStarts, Goes, Fails
<1>9. CASE SenderTakes
  BY <1>9, Names DEF SenderTakes, Goes, Waiting
<1>10. CASE SenderWrites
  BY <1>10, Names DEF SenderWrites, Goes, Fails
<1>11. CASE SenderEnds
  BY <1>11, Names DEF SenderEnds, Goes, Fails, Waiting
<1>12. CASE Stop
  <2>1. stopper.calls \in {0, 1} /\ stopper.calls + 1 \in 1..2
    BY <1>12 DEF Stop
  <2>2. stopper'.calls = stopper.calls + 1 /\ stopper'.join = 1 /\ stopper'.at \in {"done", "tunnels"}
    BY <1>12 DEF Stop
  <2>3. running' = FALSE /\ UNCHANGED <<mode, media, error, control>>
        /\ stopper' \in [calls : 0..2, at : {"idle", "tunnels", "listener", "join", "done"}, join : 1..8]
    BY <1>12, <2>1 DEF Stop
  <2>4. (running' => stopper'.calls = 0) /\ (stopper'.at = "idle" <=> stopper'.calls = 0)
        /\ (stopper'.at \in {"tunnels", "listener"} => stopper'.join = 1)
    BY <2>1, <2>2, <2>3
  <2> QED
    BY <2>3, <2>4
<1>13. CASE StopTunnels
  BY <1>13, Names DEF StopTunnels, ClosedTunnels
<1>14. CASE StopListener
  BY <1>14, Names DEF StopListener, ClosedTunnels, ClosedListener
<1>15. CASE StopJoins
  BY <1>15, Names DEF StopJoins, Goes
<1>16. CASE StopReleases
  BY <1>16, Names DEF StopReleases
<1>17. CASE UNCHANGED <<control, error, media, mode, running, stopper>>
  BY <1>17 DEF Control
<1>18. CASE Accept \/ AcceptStores \/ AcceptCreates \/ (\E m \in Media : DeviceCloses(m))
         \/ (\E m \in DOMAIN Decode : CreateDecode(m)) \/ AudioDisabled
         \/ AudioDozes \/ AudioSleeps \/ AudioWakes
         \/ (\E m \in DOMAIN Decode : DecodeEnds(m))
  BY <1>17, <1>18 DEF Accept, AcceptStores, AcceptCreates, DeviceCloses, CreateDecode, AudioDisabled,
     AudioDozes, AudioSleeps, AudioWakes,
     DecodeEnds
<1> QED
  BY <1>1, <1>2, <1>3, <1>4, <1>5, <1>6, <1>7, <1>8, <1>9, <1>10, <1>11, <1>12, <1>13, <1>14, <1>15,
     <1>16, <1>17, <1>18 DEF Next, AcceptThread, Sender, StopSteps, vars

\* Only the end of a stop() deletes channels.
LEMMA ChannelsKept ==
  ASSUME IInv, [Next]_vars
  PROVE  Channels'
<1> USE DEF IInv, Channels
<1>1. CASE Start
  BY <1>1, Names DEF Passed, Control, Accepting, Joined, Start, New
<1>2. CASE StartReverse
  BY <1>2, Names DEF Passed, Control, Accepting, Joined, StartReverse, New, Goes
<1>3. CASE AcceptStores
  BY <1>3, Names, HeadAndTail DEF Passed, Control, Accepting, Joined, AcceptStores
<1>4. ASSUME NEW m \in Media, DeviceCloses(m)
      PROVE  Channels'
  BY <1>4, Names DEF Passed, Control, Accepting, Joined, DeviceCloses
<1>5. CASE Stop
  BY <1>5, Names DEF Passed, Control, Accepting, Joined, Stop, NothingToStop
<1>6. CASE StopTunnels
  BY <1>6, Names DEF Passed, Control, Accepting, Joined, StopTunnels, ClosedTunnels
<1>7. CASE StopListener
  BY <1>7, Names DEF Passed, Control, Accepting, Joined, StopListener, ClosedTunnels, ClosedListener
<1>8. CASE StopJoins
  BY <1>8, Names DEF Passed, Control, Accepting, Joined, StopJoins, Goes
<1>9. CASE StopReleases
  BY <1>9, Names DEF Passed, Control, Accepting, Joined, StopReleases
<1>10. CASE UNCHANGED <<listener, stopper, tunnel>>
  BY <1>10 DEF Passed
<1>11. CASE Accept \/ AcceptCreates \/ AcceptEnds \/ (\E m \in Media : FirstRead(m))
         \/ (\E m \in DOMAIN Decode : CreateDecode(m)) \/ AudioDisabled
         \/ AudioDozes \/ AudioSleeps \/ AudioWakes
         \/ (\E m \in Media : ReaderEnds(m)) \/ (\E m \in DOMAIN Decode : DecodeFails(m))
         \/ (\E m \in DOMAIN Decode : DecodeEnds(m)) \/ SendControl \/ SenderStarts \/ SenderTakes
         \/ SenderWrites \/ SenderEnds
  BY <1>10, <1>11 DEF Accept, AcceptCreates, AcceptEnds, FirstRead, CreateDecode, AudioDisabled,
     AudioDozes, AudioSleeps, AudioWakes,
     ReaderEnds, DecodeFails, DecodeEnds, SendControl, SenderStarts, SenderTakes, SenderWrites, SenderEnds
<1> QED
  BY <1>1, <1>2, <1>3, <1>4, <1>5, <1>6, <1>7, <1>8, <1>9, <1>10, <1>11 DEF Next, AcceptThread, Sender,
     StopSteps, vars

\* The accept thread's place agrees with its life.
LEMMA AcceptingKept ==
  ASSUME IInv, [Next]_vars
  PROVE  Accepting'
<1> USE DEF IInv, Accepting
<1>1. CASE Start
  BY <1>1, Names DEF Control, Running, Joined, Start, New
<1>2. CASE StartReverse
  BY <1>2, Names DEF Control, Running, Joined, StartReverse, New, Goes
<1>3. CASE Accept
  BY <1>3, Names DEF Control, Running, Joined, Accept
<1>4. CASE AcceptStores
  BY <1>4, Names, HeadAndTail DEF Control, Running, Joined, AcceptStores
<1>5. CASE AcceptCreates
  BY <1>5, Names, HeadAndTail, MediaStarts DEF Control, Running, Joined, AcceptCreates
<1>6. CASE AcceptEnds
  BY <1>6, Names DEF Control, Running, Joined, AcceptEnds, Goes, Fails
<1>7. ASSUME NEW m \in Media, FirstRead(m)
      PROVE  Accepting'
  BY <1>7, Names DEF Control, Running, Joined, Media, FirstRead, Goes, Fails, ReadThrows
<1>8. ASSUME NEW m \in DOMAIN Decode, CreateDecode(m)
      PROVE  Accepting'
  BY <1>8, Names DEF Control, Running, Joined, CreateDecode
<1>9. CASE AudioDisabled
  BY <1>9, Names DEF Control, Running, Joined, AudioDisabled, Goes
<1>31. CASE AudioDozes
  BY <1>31, Names DEF Control, Running, Joined, AudioDozes, Goes
<1>32. CASE AudioSleeps
  BY <1>32, Names DEF Control, Running, Joined, AudioSleeps, Goes
<1>33. CASE AudioWakes
  BY <1>33, Names DEF Control, Running, Joined, AudioWakes, Goes
<1>34. CASE StopListener
  BY <1>34, Names DEF Control, Running, Joined, StopListener, Notified
<1>10. ASSUME NEW m \in Media, ReaderEnds(m)
      PROVE  Accepting'
  BY <1>10, Names DEF Control, Running, Joined, Media, ReaderEnds, Notified, Fails
<1>11. ASSUME NEW m \in DOMAIN Decode, DecodeFails(m)
      PROVE  Accepting'
  BY <1>11, Names DEF Control, Running, Joined, DecodeFails, Goes, Fails
<1>12. ASSUME NEW m \in DOMAIN Decode, DecodeEnds(m)
      PROVE  Accepting'
  BY <1>12, Names DEF Control, Running, Joined, DecodeEnds, Goes
<1>13. CASE SenderStarts
  BY <1>13, Names DEF Control, Running, Joined, SenderStarts, Goes, Fails
<1>14. CASE SenderTakes
  BY <1>14, Names DEF Control, Running, Joined, SenderTakes, Goes, Waiting
<1>15. CASE SenderWrites
  BY <1>15, Names DEF Control, Running, Joined, SenderWrites, Goes, Fails
<1>16. CASE SenderEnds
  BY <1>16, Names DEF Control, Running, Joined, SenderEnds, Goes, Fails, Waiting
<1>17. CASE StopJoins
  BY <1>17, Names DEF Control, Running, Joined, StopJoins, Goes
<1>18. CASE UNCHANGED <<accept, mode, thread>>
  BY <1>18 DEF Accepting
<1>19. CASE (\E m \in Media : DeviceCloses(m)) \/ SendControl \/ Stop \/ StopTunnels
         \/ StopReleases
  BY <1>18, <1>19 DEF DeviceCloses, SendControl, Stop, StopTunnels, StopReleases
<1> QED
  BY <1>1, <1>2, <1>3, <1>4, <1>5, <1>6, <1>7, <1>8, <1>9, <1>10, <1>11, <1>12, <1>13, <1>14, <1>15,
     <1>16, <1>17, <1>18, <1>19, <1>31, <1>32, <1>33, <1>34 DEF Next, AcceptThread, Sender, StopSteps, vars

\* Threads keep their type.
LEMMA RunningKept ==
  ASSUME IInv, [Next]_vars
  PROVE  Running'
<1> USE DEF IInv, Running
<1>1. CASE Start
  BY <1>1, Names DEF Accepting, Control, Start, New
<1>2. CASE StartReverse
  BY <1>2, Names DEF Accepting, Control, StartReverse, New, Goes
<1>3. CASE AcceptCreates
  BY <1>3, Names, HeadAndTail, MediaStarts DEF Accepting, Control, AcceptCreates
<1>4. CASE AcceptEnds
  BY <1>4, Names DEF Accepting, Control, AcceptEnds, Goes, Fails
<1>5. ASSUME NEW m \in Media, FirstRead(m)
      PROVE  Running'
  BY <1>5, Names DEF Accepting, Control, FirstRead, Goes, Fails, ReadThrows
<1>6. ASSUME NEW m \in DOMAIN Decode, CreateDecode(m)
      PROVE  Running'
  BY <1>6, Names DEF Accepting, Control, CreateDecode
<1>7. CASE AudioDisabled
  BY <1>7, Names DEF Accepting, Control, AudioDisabled, Goes
<1>31. CASE AudioDozes
  BY <1>31, Names DEF Accepting, Control, AudioDozes, Goes
<1>32. CASE AudioSleeps
  BY <1>32, Names DEF Accepting, Control, AudioSleeps, Goes
<1>33. CASE AudioWakes
  BY <1>33, Names DEF Accepting, Control, AudioWakes, Goes
<1>34. CASE StopListener
  BY <1>34, Names DEF Accepting, Control, StopListener, Notified
<1>8. ASSUME NEW m \in Media, ReaderEnds(m)
      PROVE  Running'
  BY <1>8, Names DEF Accepting, Control, ReaderEnds, Notified, Fails
<1>9. ASSUME NEW m \in DOMAIN Decode, DecodeFails(m)
      PROVE  Running'
  BY <1>9, Names DEF Accepting, Control, DecodeFails, Goes, Fails
<1>10. ASSUME NEW m \in DOMAIN Decode, DecodeEnds(m)
      PROVE  Running'
  BY <1>10, Names DEF Accepting, Control, DecodeEnds, Goes
<1>11. CASE SenderStarts
  BY <1>11, Names DEF Accepting, Control, SenderStarts, Goes, Fails
<1>12. CASE SenderTakes
  BY <1>12, Names DEF Accepting, Control, SenderTakes, Goes, Waiting
<1>13. CASE SenderWrites
  BY <1>13, Names DEF Accepting, Control, SenderWrites, Goes, Fails
<1>14. CASE SenderEnds
  BY <1>14, Names DEF Accepting, Control, SenderEnds, Goes, Fails, Waiting
<1>15. CASE StopJoins
  BY <1>15, Names DEF Accepting, Control, StopJoins, Goes
<1>16. CASE UNCHANGED <<thread>>
  BY <1>16 DEF Running
<1>17. CASE Accept \/ AcceptStores \/ (\E m \in Media : DeviceCloses(m)) \/ SendControl \/ Stop
         \/ StopTunnels \/ StopReleases
  BY <1>16, <1>17 DEF Accept, AcceptStores, DeviceCloses, SendControl, Stop, StopTunnels,
     StopReleases
<1> QED
  BY <1>1, <1>2, <1>3, <1>4, <1>5, <1>6, <1>7, <1>8, <1>9, <1>10, <1>11, <1>12, <1>13, <1>14, <1>15,
     <1>16, <1>17, <1>31, <1>32, <1>33, <1>34 DEF Next, AcceptThread, Sender, StopSteps, vars

\* Behind the joins only threads that have not read can be created, and their read throws.
LEMMA JoinedKept ==
  ASSUME IInv, [Next]_vars
  PROVE  Joined'
<1> USE DEF IInv, Joined
<1>1. CASE Start
  BY <1>1, Names DEF Passed, Unread, Control, Running, Accepting, Start, New
<1>2. CASE StartReverse
  BY <1>2, Names DEF Passed, Unread, Control, Running, Accepting, StartReverse, New, Goes
<1>3. CASE AcceptCreates
  <2>1. Head(accept.left) \in Media /\ thread["accept"] = "loop"
    BY <1>3, HeadAndTail DEF AcceptCreates, Accepting
  <2>2. /\ \A t \in Threads :
             thread'[t] = thread[t] \/ (t \in ThreadsOf(Head(accept.left)) /\ thread'[t] = "start")
        /\ UNCHANGED stopper
    BY <1>3 DEF AcceptCreates
  <2>3. \A t \in {"videoDecode", "audioDecode", "accept"} : thread'[t] = thread[t]
    BY <2>1, <2>2, MediaStarts, Names
  <2>4. \A t \in {"video", "audio", "control"} : thread'[t] = thread[t] \/ thread'[t] = "start"
    BY <2>2, Names
  <2> QED
    BY <2>1, <2>2, <2>3, <2>4 DEF Passed, Unread
<1>4. CASE AcceptEnds
  BY <1>4, Names DEF Passed, Unread, Control, Running, Accepting, AcceptEnds, Goes, Fails
<1>5. ASSUME NEW m \in Media, FirstRead(m)
      PROVE  Joined'
  BY <1>5, Names DEF Passed, Unread, Control, Running, Accepting, FirstRead, Goes, Fails, ReadThrows
<1>6. ASSUME NEW m \in DOMAIN Decode, CreateDecode(m)
      PROVE  Joined'
  <2>1. thread[m] = "reading" /\ UNCHANGED stopper
        /\ \A t \in Threads : t \notin {m, Decode[m]} => thread'[t] = thread[t]
    BY <1>6, Names DEF Running, CreateDecode
  <2>2. Passed(3) => Passed(2)
    BY DEF Passed, Control
  <2>3. Passed(5) => Passed(4)
    BY DEF Passed, Control
  <2>4. CASE m = "video"
    <3>1. ~Passed(2) /\ ~Passed(3)
      BY <2>1, <2>2, <2>4 DEF Unread
    <3>2. \A t \in {"audio", "audioDecode", "control", "accept"} : thread'[t] = thread[t]
      BY <2>1, <2>4, Names
    <3> QED
      BY <2>1, <3>1, <3>2 DEF Passed
  <2>5. CASE m = "audio"
    <3>1. ~Passed(4) /\ ~Passed(5)
      BY <2>1, <2>3, <2>5 DEF Unread
    <3>2. \A t \in {"video", "videoDecode", "control", "accept"} : thread'[t] = thread[t]
      BY <2>1, <2>5, Names
    <3> QED
      BY <2>1, <3>1, <3>2 DEF Passed
  <2> QED
    BY <2>4, <2>5, Names
<1>7. CASE AudioDisabled
  BY <1>7, Names DEF Passed, Unread, Control, Running, Accepting, AudioDisabled, Goes
<1>31. CASE AudioDozes
  BY <1>31, Names DEF Passed, Unread, Control, Running, Accepting, AudioDozes, Goes
<1>32. CASE AudioSleeps
  BY <1>32, Names DEF Passed, Unread, Control, Running, Accepting, AudioSleeps, Goes
<1>33. CASE AudioWakes
  BY <1>33, Names DEF Passed, Unread, Control, Running, Accepting, AudioWakes, Goes
<1>8. ASSUME NEW m \in Media, ReaderEnds(m)
      PROVE  Joined'
  BY <1>8, Names DEF Passed, Unread, Control, Running, Accepting, ReaderEnds, Notified, Fails
<1>9. ASSUME NEW m \in DOMAIN Decode, DecodeFails(m)
      PROVE  Joined'
  BY <1>9, Names DEF Passed, Unread, Control, Running, Accepting, DecodeFails, Goes, Fails
<1>10. ASSUME NEW m \in DOMAIN Decode, DecodeEnds(m)
      PROVE  Joined'
  BY <1>10, Names DEF Passed, Unread, Control, Running, Accepting, DecodeEnds, Goes
<1>11. CASE SenderStarts
  BY <1>11, Names DEF Passed, Unread, Control, Running, Accepting, SenderStarts, Goes, Fails
<1>12. CASE SenderTakes
  BY <1>12, Names DEF Passed, Unread, Control, Running, Accepting, SenderTakes, Goes, Waiting
<1>13. CASE SenderWrites
  BY <1>13, Names DEF Passed, Unread, Control, Running, Accepting, SenderWrites, Goes, Fails
<1>14. CASE SenderEnds
  BY <1>14, Names DEF Passed, Unread, Control, Running, Accepting, SenderEnds, Goes, Fails, Waiting
<1>15. CASE Stop
  BY <1>15, Names DEF Passed, Unread, Control, Running, Accepting, Stop, NothingToStop
<1>16. CASE StopTunnels
  BY <1>16, Names DEF Passed, Unread, Control, Running, Accepting, StopTunnels, ClosedTunnels
<1>17. CASE StopListener
  BY <1>17, Names DEF Passed, Unread, Control, Running, Accepting, StopListener, Notified, ClosedTunnels, ClosedListener
<1>18. CASE StopJoins
  BY <1>18, Names DEF Passed, Unread, Control, Running, Accepting, StopJoins, Goes
<1>19. CASE StopReleases
  BY <1>19, Names DEF Passed, Unread, Control, Running, Accepting, StopReleases
<1>20. CASE UNCHANGED <<stopper, thread>>
  BY <1>20 DEF Passed
<1>21. CASE Accept \/ AcceptStores \/ (\E m \in Media : DeviceCloses(m)) \/ SendControl
  BY <1>20, <1>21 DEF Accept, AcceptStores, DeviceCloses, SendControl
<1> QED
  BY <1>1, <1>2, <1>3, <1>4, <1>5, <1>6, <1>7, <1>8, <1>9, <1>10, <1>11, <1>12, <1>13, <1>14, <1>15,
     <1>16, <1>17, <1>18, <1>19, <1>20, <1>21, <1>31, <1>32, <1>33 DEF Next, AcceptThread, Sender, StopSteps, vars

\* Behind the joins of the destructor nothing is created: the accept thread was joined.
LEMMA JoinedAgainKept ==
  ASSUME IInv, [Next]_vars
  PROVE  JoinedAgain'
<1> USE DEF IInv, JoinedAgain
<1>1. CASE Start
  BY <1>1, Names DEF PassedAgain, Control, Running, Accepting, Joined, Passed, Unread, Start, New
<1>2. CASE StartReverse
  BY <1>2, Names DEF PassedAgain, Control, Running, Accepting, Joined, Passed, Unread, StartReverse, New, Goes
<1>3. CASE AcceptCreates
  BY <1>3, Names, HeadAndTail, MediaStarts DEF PassedAgain, Control, Running, Accepting, Joined, Passed,
     Unread, AcceptCreates
<1>4. CASE AcceptEnds
  BY <1>4, Names DEF PassedAgain, Control, Running, Accepting, Joined, Passed, Unread, AcceptEnds, Goes, Fails
<1>5. ASSUME NEW m \in Media, FirstRead(m)
      PROVE  JoinedAgain'
  BY <1>5, Names DEF PassedAgain, Control, Running, Accepting, Joined, Passed, Unread, FirstRead, Goes,
     Fails, ReadThrows
<1>6. ASSUME NEW m \in DOMAIN Decode, CreateDecode(m)
      PROVE  JoinedAgain'
  BY <1>6, Names DEF PassedAgain, Control, Running, Accepting, Joined, Passed, Unread, CreateDecode
<1>7. CASE AudioDisabled
  BY <1>7, Names DEF PassedAgain, Control, Running, Accepting, Joined, Passed, Unread, AudioDisabled, Goes
<1>31. CASE AudioDozes
  BY <1>31, Names DEF PassedAgain, Control, Running, Accepting, Joined, Passed, Unread, AudioDozes, Goes
<1>32. CASE AudioSleeps
  BY <1>32, Names DEF PassedAgain, Control, Running, Accepting, Joined, Passed, Unread, AudioSleeps, Goes
<1>33. CASE AudioWakes
  BY <1>33, Names DEF PassedAgain, Control, Running, Accepting, Joined, Passed, Unread, AudioWakes, Goes
<1>8. ASSUME NEW m \in Media, ReaderEnds(m)
      PROVE  JoinedAgain'
  BY <1>8, Names DEF PassedAgain, Control, Running, Accepting, Joined, Passed, Unread, ReaderEnds, Notified, Fails
<1>9. ASSUME NEW m \in DOMAIN Decode, DecodeFails(m)
      PROVE  JoinedAgain'
  BY <1>9, Names DEF PassedAgain, Control, Running, Accepting, Joined, Passed, Unread, DecodeFails, Goes,
     Fails
<1>10. ASSUME NEW m \in DOMAIN Decode, DecodeEnds(m)
      PROVE  JoinedAgain'
  BY <1>10, Names DEF PassedAgain, Control, Running, Accepting, Joined, Passed, Unread, DecodeEnds, Goes
<1>11. CASE SenderStarts
  BY <1>11, Names DEF PassedAgain, Control, Running, Accepting, Joined, Passed, Unread, SenderStarts,
     Goes, Fails
<1>12. CASE SenderTakes
  BY <1>12, Names DEF PassedAgain, Control, Running, Accepting, Joined, Passed, Unread, SenderTakes,
     Goes, Waiting
<1>13. CASE SenderWrites
  BY <1>13, Names DEF PassedAgain, Control, Running, Accepting, Joined, Passed, Unread, SenderWrites,
     Goes, Fails
<1>14. CASE SenderEnds
  BY <1>14, Names DEF PassedAgain, Control, Running, Accepting, Joined, Passed, Unread, SenderEnds, Goes,
     Fails, Waiting
<1>15. CASE Stop
  BY <1>15, Names DEF PassedAgain, Control, Running, Accepting, Joined, Passed, Unread, Stop, NothingToStop
<1>16. CASE StopTunnels
  BY <1>16, Names DEF PassedAgain, Control, Running, Accepting, Joined, Passed, Unread, StopTunnels,
     ClosedTunnels
<1>17. CASE StopListener
  BY <1>17, Names DEF PassedAgain, Control, Running, Accepting, Joined, Passed, Unread, StopListener, Notified,
     ClosedTunnels, ClosedListener
<1>18. CASE StopJoins
  BY <1>18, Names DEF PassedAgain, Control, Running, Accepting, Joined, Passed, Unread, StopJoins, Goes
<1>19. CASE StopReleases
  BY <1>19, Names DEF PassedAgain, Control, Running, Accepting, Joined, Passed, Unread, StopReleases
<1>20. CASE UNCHANGED <<stopper, thread>>
  BY <1>20 DEF PassedAgain, Passed
<1>21. CASE Accept \/ AcceptStores \/ (\E m \in Media : DeviceCloses(m)) \/ SendControl
  BY <1>20, <1>21 DEF Accept, AcceptStores, DeviceCloses, SendControl
<1> QED
  BY <1>1, <1>2, <1>3, <1>4, <1>5, <1>6, <1>7, <1>8, <1>9, <1>10, <1>11, <1>12, <1>13, <1>14, <1>15,
     <1>16, <1>17, <1>18, <1>19, <1>20, <1>21, <1>31, <1>32, <1>33 DEF Next, AcceptThread, Sender, StopSteps, vars

-----------------------------------------------------------------------------
\* The invariant holds at the beginning.
LEMMA Starts == Init => IInv
<1> SUFFICES ASSUME Init PROVE IInv
  OBVIOUS
<1> USE DEF Init
<1>1. media \in Seq(Media) /\ <<>> \in Seq(Media)
  <2>1. "video" \in Media /\ "audio" \in Media /\ "control" \in Media
    BY DEF Media
  <2>2. <<"video", "control">> \in Seq(Media) /\ <<"video", "audio", "control">> \in Seq(Media)
    BY <2>1
  <2> QED
    BY <2>2, EmptySeq
<1>2. Control
  <2>1. stopper \in [calls : 0..2, at : {"idle", "tunnels", "listener", "join", "done"}, join : 1..8]
    OBVIOUS
  <2>2. mode \in {"forward", "reverse"} /\ running \in BOOLEAN /\ error \in BOOLEAN
    OBVIOUS
  <2>3. control \in [accepted : Nat, taken : Nat] /\ control.taken <= control.accepted
    OBVIOUS
  <2> QED
    BY <1>1, <2>1, <2>2, <2>3 DEF Control
<1>3. Channels /\ Accepting /\ Running
  BY <1>1, Names DEF Channels, Accepting, Running
<1>4. Joined /\ JoinedAgain
  BY DEF Joined, JoinedAgain, Passed, PassedAgain
<1> QED
  BY <1>2, <1>3, <1>4 DEF IInv

-----------------------------------------------------------------------------
(* The theorems.                                                           *)

\* Every reachable state satisfies the invariant.
THEOREM Inductive == Spec => []IInv
<1>1. ASSUME IInv, [Next]_vars
      PROVE  IInv'
  BY <1>1, ControlKept, ChannelsKept, AcceptingKept, RunningKept, JoinedKept, JoinedAgainKept DEF IInv
<1> QED
  BY <1>1, Starts, PTL DEF Spec

\* Every variable keeps its type; the sender takes no message that was not accepted.
THEOREM TypeCorrect == Spec => []TypeOK
<1>1. IInv => TypeOK
  BY DEF IInv, Control, Channels, Accepting, Running, TypeOK
<1> QED
  BY <1>1, Inductive, PTL

\* ~ScrcpyStreamManager leaves no thread, and no thread reads a channel that stop() has deleted,
\* although the accept thread may create threads behind the join of the first stop().
THEOREM ReleasedUnused == Spec => []NoUseAfterRelease
<1>1. ASSUME IInv
      PROVE  DestroyedClean
  <2> SUFFICES ASSUME stopper.calls = 2, stopper.at = "done"
               PROVE  NoThread
    BY DEF DestroyedClean
  <2>1. JoinedAgain
    BY <1>1 DEF IInv
  <2> QED
    BY <2>1, Names DEF JoinedAgain, PassedAgain, NoThread
<1>2. ASSUME IInv
      PROVE  NoReadOfReleased
  <2> SUFFICES ASSUME NEW m \in Media, tunnel[m] = "released"
               PROVE  thread[m] \notin {"reading", "loop"}
    BY DEF NoReadOfReleased
  <2>1. Channels /\ Joined /\ Control
    BY <1>2 DEF IInv
  <2>2. Passed(8) /\ stopper.join \in 1..8
    BY <2>1 DEF Channels, Control
  <2>3. Passed(2) /\ Passed(4) /\ Passed(6)
    BY <2>2 DEF Passed
  <2> QED
    BY <2>1, <2>3 DEF Joined, Unread, Media
<1>3. IInv => NoUseAfterRelease
  BY <1>1, <1>2 DEF NoUseAfterRelease
<1> QED
  BY <1>3, Inductive, PTL
=============================================================================
