-------------------------- MODULE MediaPacketsProofs --------------------------
(***************************************************************************)
(* What MediaPackets promises, proved for a pool of any size and any       *)
(* bounds on what the stream delivers:                                     *)
(*                                                                         *)
(*   TypeCorrect          TypeOK                                           *)
(*   PacketsOnce          OnePlace                                         *)
(*   StreamKept           FramesKept                                       *)
(*   ConfigurationFirst   ConfigFirst                                      *)
(*                                                                         *)
(* The inductive invariant says where the packets are (Apart: nowhere      *)
(* twice, All: somewhere), which frames are in them (Ordered: the queue    *)
(* ends with the frame delivered last and everything before it is older,   *)
(* Lossless: of a video nothing is missing), and which configuration each  *)
(* frame needs (Offered).  Only eight actions touch the packets.  Steps    *)
(* says what the others leave alone and one lemma for each of the eight    *)
(* says what it moves where, so that the parts about packets are proved    *)
(* from these effects and not from the actions.                            *)
(***************************************************************************)
EXTENDS MediaPackets, SequenceTheorems, FiniteSetTheorems, TLAPS

(* TypeOK in parts, with what the threads hold at each of their places.    *)
Carries == {"config", "submit", "frame"}
Control ==
  /\ kind \in {"video", "audio"} /\ running \in BOOLEAN /\ readerDone \in BOOLEAN
  /\ stopper \in {"none", "done", "notify", "joinReader", "joinDecoder", "stopped"}
  /\ source \in [open : BOOLEAN, frames : Nat]
Store ==
  /\ free \in Seq(Packets) /\ queue \in Seq(Packets) /\ config \in Nat
  /\ content \in [Packets -> [frame : Nat, config : Nat]]
Reading ==
  /\ reader \in [at : {"start", "read", "acquire", "reclaim", "payload", "drop", "done", "notify", "exited"},
                 packet : Packets \cup {NoPacket}]
  /\ reader.at = "payload" => reader.packet # NoPacket
  /\ reader.at \in {"start", "read", "acquire", "reclaim", "drop"} => reader.packet = NoPacket
  /\ reader.at \in {"reclaim", "drop"} => kind = "audio"
  /\ reader.at = "drop" => queue = <<>>
  /\ stopper \in {"joinDecoder", "stopped"} => reader.at = "exited"
Decoding ==
  /\ decoder \in [at : {"none", "loop", "check", "doze", "asleep", "empty", "config", "submit",
                        "frame", "exited"},
                  packet : Packets \cup {NoPacket}, buffered : BOOLEAN, applied : Nat, next : Nat]
  /\ decoder.at \in Carries <=> decoder.packet # NoPacket
  /\ reader.at = "start" => decoder.at = "none"
  /\ stopper = "stopped" => decoder.at \in {"none", "exited"}
  /\ output \in [frames : Seq(Nat), config : Nat, behind : BOOLEAN]

(* No packet is in two places ...                                          *)
In(q, p) == \E i \in 1..Len(q) : q[i] = p
Distinct(q) == \A i, j \in 1..Len(q) : q[i] = q[j] => i = j
Apart ==
  /\ Distinct(free) /\ Distinct(queue)
  /\ \A p \in Packets : In(free, p) => ~In(queue, p) /\ reader.packet # p /\ decoder.packet # p
  /\ \A p \in Packets : In(queue, p) => reader.packet # p /\ decoder.packet # p
  /\ reader.packet # NoPacket => reader.packet # decoder.packet

(* ... and until the pool is reset each of them is in one.                 *)
One(p) == IF p = NoPacket THEN 0 ELSE 1
All ==
  stopper # "stopped" =>
    /\ Len(free) + Len(queue) + One(reader.packet) + One(decoder.packet) = Cardinality(Packets)
    /\ \A p \in Packets : In(free, p) \/ In(queue, p) \/ reader.packet = p \/ decoder.packet = p

(* The frames in the queue are the last ones in their order, the frame with the decode thread is
   older, and those that have gone to the codec are older still.           *)
Ordered ==
  /\ \A i \in 1..Len(queue) : content[queue[i]].frame = (source.frames + i) - Len(queue)
  /\ Len(queue) <= source.frames
  /\ \A i, j \in 1..Len(output.frames) : i < j => output.frames[i] < output.frames[j]
  /\ \A i \in 1..Len(output.frames) :
       /\ output.frames[i] <= source.frames - Len(queue)
       /\ decoder.packet # NoPacket => output.frames[i] < content[decoder.packet].frame
  /\ decoder.packet # NoPacket => content[decoder.packet].frame <= source.frames - Len(queue)

(* The frames of a video that are not in the queue have gone to the codec or are on the way. *)
Lossless ==
  kind = "video" /\ stopper # "stopped" =>
    /\ Len(output.frames) + One(decoder.packet) + Len(queue) = source.frames
    /\ \A i \in 1..Len(output.frames) : output.frames[i] = i
    /\ decoder.packet # NoPacket => content[decoder.packet].frame = Len(output.frames) + 1

(* A packet needs no configuration newer than the newest cached.  Once the decode thread has copied
   the newest it has one new enough for its packet, and then has offered it.  *)
Offered ==
  /\ stopper # "stopped" => /\ \A p \in Packets : content[p].config <= config
                            /\ decoder.applied <= output.config /\ output.config <= config
  /\ decoder.at = "submit" => /\ content[decoder.packet].config <= decoder.next
                              /\ output.config <= decoder.next /\ decoder.next <= config
  /\ decoder.at = "frame" /\ running => content[decoder.packet].config <= output.config
  /\ ~output.behind

(* The inductive invariant.                                                *)
IInv == Control /\ Store /\ Reading /\ Decoding /\ Apart /\ All /\ Ordered /\ Lossless /\ Offered

USE DEF shared

-----------------------------------------------------------------------------
(* Sequences: what Head, Tail, Append and concatenation do to lengths, elements and members. *)

\* The head and the tail of a sequence that is not empty.
LEMMA HeadAndTail ==
  ASSUME NEW S, NEW q \in Seq(S), q # <<>>
  PROVE  /\ Head(q) \in S /\ Tail(q) \in Seq(S) /\ Head(q) = q[1]
         /\ Len(q) \in Nat \ {0} /\ Len(Tail(q)) = Len(q) - 1
         /\ \A i \in 1..Len(Tail(q)) : Tail(q)[i] = q[i + 1]
  BY HeadTailProperties, LenProperties, EmptySeq

\* A sequence with one more element.
LEMMA Appended ==
  ASSUME NEW S, NEW q \in Seq(S), NEW x \in S
  PROVE  /\ Append(q, x) \in Seq(S) /\ Len(q) \in Nat /\ Len(Append(q, x)) = Len(q) + 1
         /\ Append(q, x)[Len(q) + 1] = x
         /\ \A i \in 1..Len(q) : Append(q, x)[i] = q[i]
  BY AppendProperties, LenProperties

\* A function on 1..n is a sequence.
LEMMA Listed ==
  ASSUME NEW S, NEW n \in Nat, NEW q \in [1..n -> S]
  PROVE  q \in Seq(S) /\ Len(q) = n
  OBVIOUS

\* The elements of a sequence.
LEMMA Elements ==
  ASSUME NEW S, NEW q \in Seq(S)
  PROVE  Len(q) \in Nat /\ \A i \in 1..Len(q) : q[i] \in S
  BY LenProperties, ElementOfSeq

\* Taking the head away takes away one element, and that one for good where none is twice.
LEMMA TailIn ==
  ASSUME NEW S, NEW q \in Seq(S), q # <<>>
  PROVE  /\ In(q, q[1]) /\ q[1] \in S /\ Len(Tail(q)) = Len(q) - 1
         /\ \A p \in S : In(q, p) <=> p = q[1] \/ In(Tail(q), p)
         /\ Distinct(q) => Distinct(Tail(q)) /\ ~In(Tail(q), q[1])
<1>1. /\ Len(q) \in Nat \ {0} /\ Len(Tail(q)) = Len(q) - 1 /\ q[1] \in S
      /\ \A i \in 1..Len(Tail(q)) : Tail(q)[i] = q[i + 1]
  BY HeadAndTail
<1>2. \A i \in 1..Len(q) : i = 1 \/ (i - 1 \in 1..Len(Tail(q)) /\ Tail(q)[i - 1] = q[i])
  BY <1>1
<1>3. \A i \in 1..Len(Tail(q)) : i + 1 \in 1..Len(q) /\ i + 1 # 1
  BY <1>1
<1>4. In(q, q[1])
  BY <1>1 DEF In
<1>5. \A p \in S : In(q, p) <=> p = q[1] \/ In(Tail(q), p)
  BY <1>1, <1>2, <1>3 DEF In
<1>6. ASSUME Distinct(q)
      PROVE  Distinct(Tail(q)) /\ ~In(Tail(q), q[1])
  <2>1. ASSUME NEW i \in 1..Len(Tail(q)), NEW j \in 1..Len(Tail(q)), Tail(q)[i] = Tail(q)[j]
        PROVE  i = j
    <3>1. q[i + 1] = q[j + 1]
      BY <1>1, <2>1
    <3>2. i + 1 = j + 1
      BY <1>3, <1>6, <3>1 DEF Distinct
    <3> QED
      BY <3>2
  <2>2. ASSUME NEW i \in 1..Len(Tail(q)), Tail(q)[i] = q[1]
        PROVE  FALSE
    <3>1. q[i + 1] = q[1] /\ 1 \in 1..Len(q)
      BY <1>1, <2>2
    <3>2. i + 1 = 1
      BY <1>3, <1>6, <3>1 DEF Distinct
    <3> QED
      BY <3>2
  <2> QED
    BY <2>1, <2>2 DEF Distinct, In
<1> QED
  BY <1>1, <1>4, <1>5, <1>6

\* Appending adds one element, and none is twice if it was not there before.
LEMMA AppendIn ==
  ASSUME NEW S, NEW q \in Seq(S), NEW x \in S
  PROVE  /\ Len(Append(q, x)) = Len(q) + 1
         /\ \A p \in S : In(Append(q, x), p) <=> p = x \/ In(q, p)
         /\ Distinct(q) /\ ~In(q, x) => Distinct(Append(q, x))
<1>1. /\ Len(q) \in Nat /\ Len(Append(q, x)) = Len(q) + 1 /\ Append(q, x)[Len(q) + 1] = x
      /\ \A i \in 1..Len(q) : Append(q, x)[i] = q[i]
  BY Appended
<1>2. \A i \in 1..Len(Append(q, x)) : i = Len(q) + 1 \/ i \in 1..Len(q)
  BY <1>1
<1>3. \A i \in 1..Len(q) : i \in 1..Len(Append(q, x))
  BY <1>1
<1>4. Len(q) + 1 \in 1..Len(Append(q, x))
  BY <1>1
<1>5. \A p \in S : In(Append(q, x), p) <=> p = x \/ In(q, p)
  BY <1>1, <1>2, <1>3, <1>4 DEF In
<1>6. ASSUME Distinct(q), ~In(q, x)
      PROVE  Distinct(Append(q, x))
  BY <1>1, <1>2, <1>6 DEF Distinct, In
<1> QED
  BY <1>1, <1>5, <1>6

\* The empty sequence has no element.
LEMMA EmptyIn ==
  /\ Distinct(<<>>) /\ \A p : ~In(<<>>, p)
  BY DEF Distinct, In

\* What is in one of two sequences is in their concatenation.
LEMMA Joined ==
  ASSUME NEW S, NEW s \in Seq(S), NEW t \in Seq(S)
  PROVE  /\ s \o t \in Seq(S) /\ Len(s \o t) = Len(s) + Len(t)
         /\ Len(s) \in Nat /\ Len(t) \in Nat
         /\ \A p \in S : In(s, p) \/ In(t, p) => In(s \o t, p)
<1>1. /\ s \o t \in Seq(S) /\ Len(s \o t) = Len(s) + Len(t)
      /\ Len(s) \in Nat /\ Len(t) \in Nat
      /\ \A i \in 1..Len(s) + Len(t) : (s \o t)[i] = IF i <= Len(s) THEN s[i] ELSE t[i - Len(s)]
  BY ConcatProperties, LenProperties
<1>2. ASSUME NEW i \in 1..Len(s)
      PROVE  i \in 1..Len(s \o t) /\ (s \o t)[i] = s[i]
  BY <1>1
<1>3. ASSUME NEW i \in 1..Len(t)
      PROVE  Len(s) + i \in 1..Len(s \o t) /\ (s \o t)[Len(s) + i] = t[i]
  BY <1>1
<1> QED
  BY <1>1, <1>2, <1>3 DEF In

\* Where the elements of two sequences are in their concatenation ...
LEMMA TwoJoined ==
  ASSUME NEW S, NEW a \in Seq(S), NEW b \in Seq(S)
  PROVE  /\ a \o b \in Seq(S) /\ Len(a \o b) = Len(a) + Len(b)
         /\ Len(a) \in Nat /\ Len(b) \in Nat
         /\ \A i \in 1..Len(a) : (a \o b)[i] = a[i]
         /\ \A i \in 1..Len(b) : (a \o b)[Len(a) + i] = b[i]
<1>1. /\ a \o b \in Seq(S) /\ Len(a \o b) = Len(a) + Len(b)
      /\ Len(a) \in Nat /\ Len(b) \in Nat
      /\ \A i \in 1..Len(a) + Len(b) : (a \o b)[i] = IF i <= Len(a) THEN a[i] ELSE b[i - Len(a)]
  BY ConcatProperties, LenProperties
<1> QED
  BY <1>1

\* ... and those of three.
LEMMA ThreeJoined ==
  ASSUME NEW S, NEW a \in Seq(S), NEW b \in Seq(S), NEW c \in Seq(S)
  PROVE  /\ a \o b \o c \in Seq(S) /\ Len(a \o b \o c) = Len(a) + Len(b) + Len(c)
         /\ Len(a) \in Nat /\ Len(b) \in Nat /\ Len(c) \in Nat
         /\ \A i \in 1..Len(a) : (a \o b \o c)[i] = a[i]
         /\ \A i \in 1..Len(b) : (a \o b \o c)[Len(a) + i] = b[i]
         /\ \A i \in 1..Len(c) : (a \o b \o c)[Len(a) + Len(b) + i] = c[i]
<1> DEFINE ab == a \o b
           abc == ab \o c
<1>1. /\ ab \in Seq(S) /\ Len(ab) = Len(a) + Len(b) /\ Len(a) \in Nat /\ Len(b) \in Nat
      /\ \A i \in 1..Len(a) : ab[i] = a[i]
      /\ \A i \in 1..Len(b) : ab[Len(a) + i] = b[i]
  BY TwoJoined
<1> HIDE DEF ab
<1>2. /\ abc \in Seq(S) /\ Len(abc) = Len(ab) + Len(c) /\ Len(c) \in Nat
      /\ \A i \in 1..Len(ab) : abc[i] = ab[i]
      /\ \A i \in 1..Len(c) : abc[Len(ab) + i] = c[i]
  <2>1. ab \in Seq(S)
    BY <1>1
  <2> QED
    BY <2>1, TwoJoined
<1> HIDE DEF abc
<1>3. /\ abc \in Seq(S) /\ Len(abc) = Len(a) + Len(b) + Len(c)
      /\ Len(a) \in Nat /\ Len(b) \in Nat /\ Len(c) \in Nat
      /\ \A i \in 1..Len(a) : abc[i] = a[i]
      /\ \A i \in 1..Len(b) : abc[Len(a) + i] = b[i]
      /\ \A i \in 1..Len(c) : abc[Len(a) + Len(b) + i] = c[i]
  BY <1>1, <1>2
<1> QED
  BY <1>3 DEF ab, abc

-----------------------------------------------------------------------------
(* What the actions do to the packets.                                     *)

\* A notification moves the decode thread at most from its sleep to its predicate.
LEMMA Notifications ==
  ASSUME Decoding
  PROVE  /\ Notified(decoder) \in [at : {"none", "loop", "check", "doze", "asleep", "empty", "config", "submit",
                                         "frame", "exited"},
                                   packet : Packets \cup {NoPacket}, buffered : BOOLEAN, applied : Nat, next : Nat]
         /\ Notified(decoder).packet = decoder.packet /\ Notified(decoder).applied = decoder.applied
         /\ Notified(decoder).next = decoder.next
         /\ Notified(decoder).at \in Carries <=> decoder.at \in Carries
         /\ Notified(decoder).at = "submit" <=> decoder.at = "submit"
         /\ Notified(decoder).at = "frame" <=> decoder.at = "frame"
         /\ Notified(decoder).at = "none" <=> decoder.at = "none"
         /\ Notified(decoder).at \in {"none", "exited"} <=> decoder.at \in {"none", "exited"}
  BY DEF Decoding, Notified, Carries

\* Packets, queue and pool stay as they are ...
Rests ==
  /\ UNCHANGED <<free, queue, content>>
  /\ reader'.packet = reader.packet /\ decoder'.packet = decoder.packet

\* ... except in these actions.
Moves ==
  \/ AcquireFree \/ AudioReclaims \/ StoreFrame \/ StoreConfig
  \/ Dequeue \/ SubmitFrame \/ SkipFrame \/ StopJoinsDecoder

\* Every other step leaves them alone, and the frames and stop() as far as packets go.
LEMMA Steps ==
  ASSUME IInv, [Next]_vars
  PROVE  \/ Moves
         \/ /\ Rests /\ UNCHANGED output.frames /\ UNCHANGED kind
            /\ stopper' = "stopped" <=> stopper = "stopped"
            /\ UNCHANGED source.frames \/ ReadForNothing
<1> USE DEF IInv, Rests
<1>1. CASE StartDecoder \/ ReadMeta \/ VideoGivesUp \/ AudioFindsNone \/ AudioReclaimsNone
  BY <1>1 DEF StartDecoder, ReadMeta, VideoGivesUp, AudioFindsNone, AudioReclaimsNone, WithoutPacket, Reader,
              Reading, Decoding
<1>2. CASE ReaderFails \/ ReaderSetsDone
  BY <1>2 DEF ReaderFails, ReaderSetsDone, Reading
<1>3. CASE ReadForNothing
  BY <1>3 DEF ReadForNothing, Reader, Reading
<1>4. CASE ReaderNotifies \/ StopNotifies
  BY <1>4, Notifications DEF ReaderNotifies, StopNotifies, Stopping, Reading, Control
<1>5. CASE DecodeLoop \/ DequeueNothing \/ Doze \/ AfterEmpty \/ CopyConfig \/ SkipConfig
  BY <1>5 DEF DecodeLoop, DequeueNothing, Doze, AfterEmpty, CopyConfig, SkipConfig, DecoderAt, Decoding
<1>6. CASE SubmitConfig
  BY <1>6 DEF SubmitConfig, DecoderAt, Decoding
<1>7. CASE StopBegin \/ StopSetsDone \/ StopJoinsReader
  BY <1>7 DEF StopBegin, StopSetsDone, StopJoinsReader, Stopping, Control
<1>8. CASE UNCHANGED vars
  BY <1>8 DEF vars
<1> QED
  BY <1>1, <1>2, <1>3, <1>4, <1>5, <1>6, <1>7, <1>8
  DEF Next, ReaderStep, Delivery, DecodeStep, Codec, Stop, Moves

\* The reader takes the oldest free packet.
LEMMA Acquires ==
  ASSUME IInv, AcquireFree
  PROVE  /\ free # <<>> /\ reader.packet = NoPacket /\ reader'.packet = free[1]
         /\ free' = Tail(free)
         /\ UNCHANGED <<kind, source, queue, content, decoder, output, stopper>>
         /\ In(free, free[1]) /\ free[1] \in Packets /\ Len(free') = Len(free) - 1
         /\ \A p \in Packets : In(free, p) <=> p = free[1] \/ In(free', p)
         /\ Distinct(free) => Distinct(free') /\ ~In(free', free[1])
<1>1. /\ free # <<>> /\ reader.packet = NoPacket /\ reader'.packet = free[1]
      /\ free' = Tail(free)
      /\ UNCHANGED <<kind, source, queue, content, decoder, output, stopper>>
  BY HeadAndTail DEF IInv, AcquireFree, Reader, Reading, Store
<1>2. free \in Seq(Packets)
  BY DEF IInv, Store
<1> QED
  BY <1>1, <1>2, TailIn

\* The audio reader takes the oldest queued packet.
LEMMA Reclaims ==
  ASSUME IInv, AudioReclaims
  PROVE  /\ queue # <<>> /\ reader.packet = NoPacket /\ reader'.packet = queue[1]
         /\ queue' = Tail(queue)
         /\ UNCHANGED <<kind, source, free, content, decoder, output, stopper>> /\ kind = "audio"
         /\ In(queue, queue[1]) /\ queue[1] \in Packets /\ Len(queue') = Len(queue) - 1
         /\ \A p \in Packets : In(queue, p) <=> p = queue[1] \/ In(queue', p)
         /\ Distinct(queue) => Distinct(queue') /\ ~In(queue', queue[1])
<1>1. /\ queue # <<>> /\ reader.packet = NoPacket /\ reader'.packet = queue[1]
      /\ queue' = Tail(queue)
      /\ UNCHANGED <<kind, source, free, content, decoder, output, stopper>> /\ kind = "audio"
  BY HeadAndTail DEF IInv, AudioReclaims, Reclaimed, Reader, Reading, Store
<1>2. queue \in Seq(Packets)
  BY DEF IInv, Store
<1> QED
  BY <1>1, <1>2, TailIn

\* The reader queues its packet with the next frame.
LEMMA Stores ==
  ASSUME IInv, StoreFrame
  PROVE  /\ reader.packet \in Packets /\ reader'.packet = NoPacket
         /\ queue' = Append(queue, reader.packet)
         /\ source'.frames = source.frames + 1
         /\ content'[reader.packet].frame = source.frames + 1
         /\ \A p \in Packets : p # reader.packet => content'[p] = content[p]
         /\ decoder'.packet = decoder.packet /\ UNCHANGED <<kind, free, output, stopper>>
         /\ Len(queue') = Len(queue) + 1
         /\ \A p \in Packets : In(queue', p) <=> p = reader.packet \/ In(queue, p)
         /\ Distinct(queue) /\ ~In(queue, reader.packet) => Distinct(queue')
<1> USE DEF IInv
<1>1. reader.packet \in Packets
  BY DEF StoreFrame, Reading
<1>2. decoder' = Notified(decoder)
  BY DEF StoreFrame
<1>3. /\ reader.packet \in Packets /\ reader'.packet = NoPacket
      /\ queue' = Append(queue, reader.packet)
      /\ source'.frames = source.frames + 1
      /\ content'[reader.packet].frame = source.frames + 1
      /\ \A p \in Packets : p # reader.packet => content'[p] = content[p]
      /\ decoder'.packet = decoder.packet /\ UNCHANGED <<kind, free, output, stopper>>
  BY <1>1, <1>2, Notifications, Appended DEF StoreFrame, Reader, Store, Control
<1>4. queue \in Seq(Packets)
  BY DEF Store
<1> HIDE DEF IInv
<1> QED
  BY <1>1, <1>3, <1>4, AppendIn

\* The reader frees its packet.
LEMMA Configures ==
  ASSUME IInv, StoreConfig
  PROVE  /\ reader.packet \in Packets /\ reader'.packet = NoPacket
         /\ free' = Append(free, reader.packet)
         /\ decoder'.packet = decoder.packet /\ UNCHANGED <<kind, source, queue, content, output, stopper>>
         /\ Len(free') = Len(free) + 1
         /\ \A p \in Packets : In(free', p) <=> p = reader.packet \/ In(free, p)
         /\ Distinct(free) /\ ~In(free, reader.packet) => Distinct(free')
<1> USE DEF IInv
<1>1. reader.packet \in Packets
  BY DEF StoreConfig, Reading
<1>2. decoder' = Notified(decoder)
  BY DEF StoreConfig
<1>3. /\ reader.packet \in Packets /\ reader'.packet = NoPacket
      /\ free' = Append(free, reader.packet)
      /\ decoder'.packet = decoder.packet /\ UNCHANGED <<kind, source, queue, content, output, stopper>>
  BY <1>1, <1>2, Notifications, Appended DEF StoreConfig, Reader, Store
<1>4. free \in Seq(Packets)
  BY DEF Store
<1> HIDE DEF IInv
<1> QED
  BY <1>1, <1>3, <1>4, AppendIn

\* The decode thread takes the oldest queued packet.
LEMMA Dequeues ==
  ASSUME IInv, Dequeue
  PROVE  /\ queue # <<>> /\ decoder.packet = NoPacket /\ decoder'.packet = queue[1]
         /\ queue' = Tail(queue)
         /\ UNCHANGED <<kind, source, free, content, reader, output, stopper>>
         /\ In(queue, queue[1]) /\ queue[1] \in Packets /\ Len(queue') = Len(queue) - 1
         /\ \A p \in Packets : In(queue, p) <=> p = queue[1] \/ In(queue', p)
         /\ Distinct(queue) => Distinct(queue') /\ ~In(queue', queue[1])
<1>1. /\ queue # <<>> /\ decoder.packet = NoPacket /\ decoder'.packet = queue[1]
      /\ queue' = Tail(queue)
      /\ UNCHANGED <<kind, source, free, content, reader, output, stopper>>
  BY HeadAndTail DEF IInv, Dequeue, Decoding, Carries, Store
<1>2. queue \in Seq(Packets)
  BY DEF IInv, Store
<1> QED
  BY <1>1, <1>2, TailIn

\* The decode thread is done with the frame in its packet and frees the packet.
LEMMA Recycles ==
  ASSUME IInv, SubmitFrame \/ SkipFrame
  PROVE  /\ decoder.packet \in Packets /\ decoder'.packet = NoPacket
         /\ free' = Append(free, decoder.packet)
         /\ content[decoder.packet].frame \in Nat
         /\ output'.frames = Append(output.frames, content[decoder.packet].frame)
         /\ UNCHANGED <<kind, source, queue, content, reader, stopper>>
         /\ Len(free') = Len(free) + 1
         /\ \A p \in Packets : In(free', p) <=> p = decoder.packet \/ In(free, p)
         /\ Distinct(free) /\ ~In(free, decoder.packet) => Distinct(free')
<1> USE DEF IInv
<1>1. decoder.packet \in Packets
  BY DEF SubmitFrame, SkipFrame, Decoding, Carries
<1>2. content[decoder.packet].frame \in Nat
  BY <1>1 DEF Store
<1>3. /\ free' = Append(free, decoder.packet) /\ decoder'.packet = NoPacket
      /\ output'.frames = Append(output.frames, content[decoder.packet].frame)
      /\ UNCHANGED <<kind, source, queue, content, reader, stopper>>
  BY DEF SubmitFrame, SkipFrame, Recycle, Done, FrameOf, Decoding
<1>4. free \in Seq(Packets)
  BY DEF Store
<1> HIDE DEF IInv
<1> QED
  BY <1>1, <1>2, <1>3, <1>4, AppendIn

\* The pool is reset, when the decode thread has no packet.
LEMMA Resets ==
  ASSUME IInv, StopJoinsDecoder
  PROVE  /\ free' = <<>> /\ queue' = <<>> /\ stopper' = "stopped" /\ decoder.packet = NoPacket
         /\ UNCHANGED <<kind, source, content, reader, decoder, output>>
  BY DEF IInv, StopJoinsDecoder, Stopping, Decoding, Carries

\* The lengths and elements that the invariant gives.
LEMMA Lengths ==
  ASSUME IInv
  PROVE  /\ Len(free) \in Nat /\ Len(queue) \in Nat /\ Len(output.frames) \in Nat /\ source.frames \in Nat
         /\ \A i \in 1..Len(free) : free[i] \in Packets
         /\ \A i \in 1..Len(queue) : queue[i] \in Packets
         /\ free # <<>> => Len(free) >= 1
         /\ queue # <<>> => Len(queue) >= 1
  BY Elements, HeadAndTail DEF IInv, Store, Decoding, Control

-----------------------------------------------------------------------------
(* Every step keeps the invariant, part by part.                           *)

\* The kind, the flags, the stream and stop() keep their types.
LEMMA ControlKept ==
  ASSUME IInv, [Next]_vars
  PROVE  Control'
<1> USE PacketAssumption DEF IInv, Control
<1>1. CASE ReadForNothing
  BY <1>1 DEF ReadForNothing, Reader
<1>2. CASE StoreFrame
  BY <1>2, Notifications DEF StoreFrame, Reader
<1>3. CASE ReaderSetsDone
  BY <1>3 DEF ReaderSetsDone
<1>4. CASE StopBegin
  BY <1>4 DEF StopBegin, Stopping
<1>5. CASE StopSetsDone
  BY <1>5 DEF StopSetsDone, Stopping
<1>6. CASE StopNotifies
  BY <1>6, Notifications DEF StopNotifies, Stopping
<1>7. CASE StopJoinsReader
  BY <1>7 DEF StopJoinsReader, Stopping
<1>8. CASE StopJoinsDecoder
  BY <1>8 DEF StopJoinsDecoder, Stopping
<1>9. CASE UNCHANGED <<kind, running, readerDone, stopper, source>>
  BY <1>9
<1>10. CASE StartDecoder \/ ReaderFails \/ ReadMeta \/ AcquireFree \/ VideoGivesUp
         \/ AudioFindsNone \/ AudioReclaims \/ AudioReclaimsNone \/ StoreConfig
         \/ ReaderNotifies \/ DecodeLoop \/ Dequeue \/ DequeueNothing \/ Doze \/ AfterEmpty
         \/ CopyConfig \/ SubmitConfig \/ SkipConfig \/ SubmitFrame \/ SkipFrame
  BY <1>9, <1>10 DEF StartDecoder, Reader, ReaderFails, ReadMeta, AcquireFree, VideoGivesUp,
     AudioFindsNone, MayReclaim, AudioReclaims, Reclaimed, AudioReclaimsNone, WithoutPacket, StoreConfig,
     ReaderNotifies, DecodeLoop, DecoderAt, Dequeue, DequeueNothing, Doze, AfterEmpty, CopyConfig,
     SubmitConfig, SkipConfig, SubmitFrame, Recycle, Done, FrameOf, SkipFrame
<1> QED
  BY <1>1, <1>2, <1>3, <1>4, <1>5, <1>6, <1>7, <1>8, <1>9, <1>10 DEF Next, ReaderStep, Delivery,
     DecodeStep, Codec, Stop, vars

\* The packet store keeps its types: only packets are freed and queued.
LEMMA StoreKept ==
  ASSUME IInv, [Next]_vars
  PROVE  Store'
<1> USE PacketAssumption DEF IInv, Store
<1>1. CASE AcquireFree
  BY <1>1, HeadAndTail, PacketAssumption DEF Reading, Decoding, Carries, Control, AcquireFree, Reader
<1>2. CASE AudioReclaims
  BY <1>2, HeadAndTail DEF Reading, Decoding, Carries, Control, AudioReclaims, Reader, Reclaimed
<1>3. CASE StoreFrame
  <2>1. reader.packet \in Packets /\ source.frames \in Nat
    BY <1>3 DEF StoreFrame, Reading, Control
  <2>2. source.frames + 1 \in Nat
    BY <2>1
  <2>3. [frame |-> source.frames + 1, config |-> config] \in [frame : Nat, config : Nat]
    BY <2>2
  <2> QED
    BY <1>3, <2>1, <2>3, Appended DEF StoreFrame
<1>4. CASE StoreConfig
  BY <1>4, Notifications, Appended DEF Reading, Decoding, Carries, Control, StoreConfig, Reader
<1>5. CASE Dequeue
  BY <1>5, HeadAndTail DEF Reading, Decoding, Carries, Control, Dequeue
<1>6. CASE SubmitFrame
  <2>1. decoder.packet \in Packets
    BY <1>6 DEF SubmitFrame, Decoding, Carries
  <2>2. UNCHANGED <<queue, content, config>> /\ free' = Append(free, decoder.packet)
    BY <1>6 DEF SubmitFrame, Recycle
  <2> QED
    BY <2>1, <2>2, Appended
<1>7. CASE SkipFrame
  <2>1. decoder.packet \in Packets
    BY <1>7 DEF SkipFrame, Decoding, Carries
  <2>2. UNCHANGED <<queue, content, config>> /\ free' = Append(free, decoder.packet)
    BY <1>7 DEF SkipFrame, Recycle
  <2> QED
    BY <2>1, <2>2, Appended
<1>8. CASE StopJoinsDecoder
  BY <1>8 DEF Reading, Decoding, Carries, Control, StopJoinsDecoder, Stopping
<1>9. CASE UNCHANGED <<free, queue, content, config>>
  BY <1>9
<1>10. CASE StartDecoder \/ ReaderFails \/ ReadMeta \/ VideoGivesUp \/ AudioFindsNone
         \/ AudioReclaimsNone \/ ReadForNothing \/ ReaderSetsDone \/ ReaderNotifies
         \/ DecodeLoop \/ DequeueNothing \/ Doze \/ AfterEmpty \/ CopyConfig \/ SubmitConfig
         \/ SkipConfig \/ StopBegin \/ StopSetsDone \/ StopNotifies \/ StopJoinsReader
  BY <1>9, <1>10 DEF StartDecoder, Reader, ReaderFails, ReadMeta, VideoGivesUp, AudioFindsNone,
     MayReclaim, AudioReclaimsNone, WithoutPacket, ReadForNothing, ReaderSetsDone, ReaderNotifies,
     DecodeLoop, DecoderAt, DequeueNothing, Doze, AfterEmpty, CopyConfig, SubmitConfig, SkipConfig,
     StopBegin, Stopping, StopSetsDone, StopNotifies, StopJoinsReader
<1> QED
  BY <1>1, <1>2, <1>3, <1>4, <1>5, <1>6, <1>7, <1>8, <1>9, <1>10 DEF Next, ReaderStep, Delivery,
     DecodeStep, Codec, Stop, vars

\* The reader has a packet where it fills one, and has exited when it has been joined.
LEMMA ReadingKept ==
  ASSUME IInv, [Next]_vars
  PROVE  Reading'
<1> USE PacketAssumption DEF IInv, Reading
<1>1. CASE StartDecoder
  BY <1>1 DEF Control, Store, StartDecoder, Reader
<1>2. CASE ReaderFails
  BY <1>2 DEF Control, Store, ReaderFails
<1>3. CASE ReadMeta
  BY <1>3 DEF Control, Store, ReadMeta, Reader
<1>4. CASE AcquireFree
  BY <1>4, HeadAndTail, PacketAssumption DEF Control, Store, AcquireFree, Reader
<1>5. CASE VideoGivesUp
  BY <1>5 DEF Control, Store, VideoGivesUp, Reader
<1>6. CASE AudioFindsNone
  BY <1>6 DEF Control, Store, AudioFindsNone, Reader, MayReclaim
<1>7. CASE AudioReclaims
  BY <1>7, HeadAndTail DEF Control, Store, AudioReclaims, Reader, Reclaimed
<1>8. CASE AudioReclaimsNone
  BY <1>8 DEF Control, Store, AudioReclaimsNone, Reader, WithoutPacket
<1>9. CASE ReadForNothing
  BY <1>9 DEF Control, Store, ReadForNothing, Reader
<1>10. CASE StoreFrame
  BY <1>10, Notifications DEF Control, Store, StoreFrame, Reader
<1>11. CASE StoreConfig
  BY <1>11, Notifications DEF Control, Store, StoreConfig, Reader
<1>12. CASE ReaderSetsDone
  BY <1>12 DEF Control, Store, ReaderSetsDone
<1>13. CASE ReaderNotifies
  BY <1>13, Notifications DEF Control, Store, ReaderNotifies
<1>14. CASE Dequeue
  BY <1>14 DEF Control, Store, Dequeue
<1>15. CASE StopBegin
  BY <1>15 DEF Control, Store, StopBegin, Stopping
<1>16. CASE StopSetsDone
  BY <1>16 DEF Control, Store, StopSetsDone, Stopping
<1>17. CASE StopNotifies
  BY <1>17, Notifications DEF Control, Store, StopNotifies, Stopping
<1>18. CASE StopJoinsReader
  BY <1>18 DEF Control, Store, StopJoinsReader, Stopping
<1>19. CASE StopJoinsDecoder
  BY <1>19 DEF Control, Store, StopJoinsDecoder, Stopping
<1>20. CASE UNCHANGED <<reader, kind, queue, stopper>>
  BY <1>20
<1>21. CASE DecodeLoop \/ DequeueNothing \/ Doze \/ AfterEmpty \/ CopyConfig \/ SubmitConfig
         \/ SkipConfig \/ SubmitFrame \/ SkipFrame
  BY <1>20, <1>21 DEF DecodeLoop, DecoderAt, DequeueNothing, Doze, AfterEmpty, CopyConfig, SubmitConfig,
     SkipConfig, SubmitFrame, Recycle, Done, FrameOf, SkipFrame
<1> QED
  BY <1>1, <1>2, <1>3, <1>4, <1>5, <1>6, <1>7, <1>8, <1>9, <1>10, <1>11, <1>12, <1>13, <1>14, <1>15,
     <1>16, <1>17, <1>18, <1>19, <1>20, <1>21 DEF Next, ReaderStep, Delivery, DecodeStep, Codec, Stop, vars

\* The decode thread has a packet exactly from taking it to recycling it.
LEMMA DecodingKept ==
  ASSUME IInv, [Next]_vars
  PROVE  Decoding'
<1> USE PacketAssumption DEF IInv, Decoding
<1>1. CASE StartDecoder
  BY <1>1 DEF Carries, Control, Store, Reading, StartDecoder, Reader
<1>2. CASE ReaderFails
  BY <1>2 DEF Carries, Control, Store, Reading, ReaderFails
<1>3. CASE ReadMeta
  BY <1>3 DEF Carries, Control, Store, Reading, ReadMeta, Reader
<1>4. CASE AcquireFree
  BY <1>4, PacketAssumption DEF Carries, Control, Store, Reading, AcquireFree, Reader
<1>5. CASE VideoGivesUp
  BY <1>5 DEF Carries, Control, Store, Reading, VideoGivesUp, Reader
<1>6. CASE AudioFindsNone
  BY <1>6 DEF Carries, Control, Store, Reading, AudioFindsNone, Reader, MayReclaim
<1>7. CASE AudioReclaims
  BY <1>7 DEF Carries, Control, Store, Reading, AudioReclaims, Reader, Reclaimed
<1>8. CASE AudioReclaimsNone
  BY <1>8 DEF Carries, Control, Store, Reading, AudioReclaimsNone, Reader, WithoutPacket
<1>9. CASE ReadForNothing
  BY <1>9 DEF Carries, Control, Store, Reading, ReadForNothing, Reader
<1>10. CASE StoreFrame
  BY <1>10, Notifications DEF Carries, Control, Store, Reading, StoreFrame, Reader
<1>11. CASE StoreConfig
  BY <1>11, Notifications DEF Carries, Control, Store, Reading, StoreConfig, Reader
<1>12. CASE ReaderSetsDone
  BY <1>12 DEF Carries, Control, Store, Reading, ReaderSetsDone
<1>13. CASE ReaderNotifies
  BY <1>13, Notifications DEF Carries, Control, Store, Reading, ReaderNotifies
<1>14. CASE DecodeLoop
  BY <1>14 DEF Carries, Control, Store, Reading, DecodeLoop, DecoderAt
<1>15. CASE Dequeue
  <2>1. Head(queue) \in Packets
    BY <1>15, HeadAndTail DEF Dequeue, Store
  <2>2. decoder' = [decoder EXCEPT !.at = "config", !.packet = Head(queue)] /\ UNCHANGED <<reader, stopper, output>>
    BY <1>15 DEF Dequeue
  <2>3. stopper # "stopped" /\ reader.at # "start"
    BY <1>15 DEF Dequeue
  <2> QED
    BY <2>1, <2>2, <2>3 DEF Carries
<1>16. CASE DequeueNothing
  BY <1>16 DEF Carries, Control, Store, Reading, DequeueNothing, DecoderAt
<1>17. CASE Doze
  BY <1>17 DEF Carries, Control, Store, Reading, Doze, DecoderAt
<1>18. CASE AfterEmpty
  BY <1>18 DEF Carries, Control, Store, Reading, AfterEmpty, DecoderAt
<1>19. CASE CopyConfig
  BY <1>19 DEF Carries, Control, Store, Reading, CopyConfig
<1>20. CASE SubmitConfig
  BY <1>20 DEF Carries, Control, Store, Reading, SubmitConfig, DecoderAt
<1>21. CASE SkipConfig
  BY <1>21 DEF Carries, Control, Store, Reading, SkipConfig, DecoderAt
<1>22. CASE SubmitFrame
  <2>1. decoder.packet \in Packets /\ stopper # "stopped" /\ reader.at # "start"
    BY <1>22 DEF SubmitFrame, Carries
  <2>2. content[decoder.packet].frame \in Nat
    BY <2>1 DEF Store
  <2>3. \E b \in BOOLEAN, l \in {"loop", "exited"} :
          /\ output' = [output EXCEPT !.frames = Append(@, content[decoder.packet].frame), !.behind = b]
          /\ decoder' = [decoder EXCEPT !.at = l, !.packet = NoPacket]
          /\ UNCHANGED <<reader, stopper>>
    <3>1. \A n \in Nat : (output.behind \/ output.config < n) \in BOOLEAN /\ content[decoder.packet].config \in Nat
      BY <2>1 DEF Store
    <3> QED
      BY <1>22, <3>1 DEF SubmitFrame, Done, Recycle, FrameOf
  <2>4. Append(output.frames, content[decoder.packet].frame) \in Seq(Nat)
    BY <2>2, Appended
  <2> QED
    BY <2>1, <2>3, <2>4 DEF Carries
<1>23. CASE SkipFrame
  <2>1. decoder.packet \in Packets /\ stopper # "stopped" /\ reader.at # "start"
    BY <1>23 DEF SkipFrame, Carries
  <2>2. content[decoder.packet].frame \in Nat
    BY <2>1 DEF Store
  <2>3. \E b \in BOOLEAN, l \in {"loop", "exited"} :
          /\ output' = [output EXCEPT !.frames = Append(@, content[decoder.packet].frame), !.behind = b]
          /\ decoder' = [decoder EXCEPT !.at = l, !.packet = NoPacket]
          /\ UNCHANGED <<reader, stopper>>
    <3>1. \A n \in Nat : (output.behind \/ output.config < n) \in BOOLEAN /\ content[decoder.packet].config \in Nat
      BY <2>1 DEF Store
    <3> QED
      BY <1>23, <3>1 DEF SkipFrame, Done, Recycle, FrameOf
  <2>4. Append(output.frames, content[decoder.packet].frame) \in Seq(Nat)
    BY <2>2, Appended
  <2> QED
    BY <2>1, <2>3, <2>4 DEF Carries
<1>24. CASE StopBegin
  BY <1>24 DEF Carries, Control, Store, Reading, StopBegin, Stopping
<1>25. CASE StopSetsDone
  BY <1>25 DEF Carries, Control, Store, Reading, StopSetsDone, Stopping
<1>26. CASE StopNotifies
  BY <1>26, Notifications DEF StopNotifies, Stopping
<1>27. CASE StopJoinsReader
  BY <1>27 DEF Carries, Control, Store, Reading, StopJoinsReader, Stopping
<1>28. CASE StopJoinsDecoder
  BY <1>28 DEF Carries, Control, Store, Reading, StopJoinsDecoder, Stopping
<1>29. CASE UNCHANGED <<decoder, stopper, output, reader>>
  BY <1>29
<1> QED
  BY <1>1, <1>2, <1>3, <1>4, <1>5, <1>6, <1>7, <1>8, <1>9, <1>10, <1>11, <1>12, <1>13, <1>14, <1>15,
     <1>16, <1>17, <1>18, <1>19, <1>20, <1>21, <1>22, <1>23, <1>24, <1>25, <1>26, <1>27, <1>28,
     <1>29 DEF Next, ReaderStep, Delivery, DecodeStep, Codec, Stop, vars

\* The configuration a packet needs is never newer than what is pending or has been offered.
LEMMA OfferedKept ==
  ASSUME IInv, [Next]_vars
  PROVE  Offered'
<1> USE PacketAssumption DEF IInv, Offered
<1>1. CASE StartDecoder
  BY <1>1 DEF Store, Decoding, Carries, Control, Reading, Apart, StartDecoder, Reader
<1>2. CASE StoreFrame
  <2>1. reader.packet \in Packets /\ reader.packet # decoder.packet /\ stopper # "stopped"
    BY <1>2 DEF StoreFrame, Reading, Apart
  <2>2. /\ decoder' = Notified(decoder) /\ UNCHANGED <<config, output, running, stopper>>
        /\ content' = [content EXCEPT ![reader.packet] = [frame |-> source.frames + 1, config |-> config]]
    BY <1>2 DEF StoreFrame
  <2>3. \A p \in Packets : content'[p].config = IF p = reader.packet THEN config ELSE content[p].config
    BY <2>1, <2>2 DEF Store
  <2>4. decoder.at \in {"submit", "frame"} => content'[decoder.packet].config = content[decoder.packet].config
    BY <2>1, <2>3 DEF Decoding, Carries
  <2>5. /\ decoder'.packet = decoder.packet /\ decoder'.applied = decoder.applied /\ decoder'.next = decoder.next
        /\ decoder'.at = "submit" <=> decoder.at = "submit"
        /\ decoder'.at = "frame" <=> decoder.at = "frame"
    BY <2>2, Notifications
  <2> QED
    BY <2>1, <2>2, <2>3, <2>4, <2>5 DEF Store
<1>3. CASE StoreConfig
  BY <1>3, Notifications DEF Store, Decoding, Carries, Control, Reading, Apart, StoreConfig, Reader
<1>4. CASE ReaderNotifies
  BY <1>4, Notifications DEF Store, Decoding, Carries, Control, Reading, Apart, ReaderNotifies
<1>5. CASE DecodeLoop
  BY <1>5 DEF Store, Decoding, Carries, Control, Reading, Apart, DecodeLoop, DecoderAt
<1>6. CASE Dequeue
  BY <1>6 DEF Store, Decoding, Carries, Control, Reading, Apart, Dequeue
<1>7. CASE DequeueNothing
  BY <1>7 DEF Store, Decoding, Carries, Control, Reading, Apart, DequeueNothing, DecoderAt
<1>8. CASE Doze
  BY <1>8 DEF Store, Decoding, Carries, Control, Reading, Apart, Doze, DecoderAt
<1>9. CASE AfterEmpty
  BY <1>9 DEF Store, Decoding, Carries, Control, Reading, Apart, AfterEmpty, DecoderAt
<1>10. CASE CopyConfig
  <2>1. decoder.packet \in Packets /\ stopper # "stopped"
    BY <1>10 DEF CopyConfig, Decoding, Carries
  <2>2. UNCHANGED <<stopper, content, config, output, running>>
    BY <1>10 DEF CopyConfig
  <2>3. content[decoder.packet].config <= config /\ decoder.applied <= output.config /\ output.config <= config
    BY <2>1
  <2>4. CASE ConfigPending
    <3>1. decoder' = [decoder EXCEPT !.at = "submit", !.next = config]
      BY <1>10, <2>4 DEF CopyConfig
    <3> QED
      BY <2>1, <2>2, <2>3, <3>1 DEF Decoding, Store
  <2>5. CASE ~ConfigPending
    <3>1. decoder' = [decoder EXCEPT !.at = "frame"]
      BY <1>10, <2>5 DEF CopyConfig
    <3>2. content[decoder.packet].config <= output.config
      BY <2>1, <2>3, <2>5 DEF ConfigPending, Decoding, Store
    <3> QED
      BY <2>1, <2>2, <2>3, <3>1, <3>2 DEF Decoding, Store
  <2> QED
    BY <2>4, <2>5
<1>11. CASE SubmitConfig
  <2>1. decoder.packet \in Packets /\ stopper # "stopped"
    BY <1>11 DEF SubmitConfig, Decoding, Carries
  <2>2. UNCHANGED <<stopper, content, config, running>> /\ output' = [output EXCEPT !.config = decoder.next]
    BY <1>11 DEF SubmitConfig
  <2>3. output'.config = decoder.next /\ output'.behind = output.behind
    BY <2>2 DEF Decoding
  <2>4. /\ decoder'.at = "frame" /\ decoder'.packet = decoder.packet
        /\ decoder'.applied \in {decoder.applied, decoder.next}
    BY <1>11 DEF SubmitConfig, DecoderAt, Decoding
  <2>5. /\ content[decoder.packet].config <= decoder.next /\ decoder.next <= config
        /\ output.config <= decoder.next /\ decoder.applied <= output.config
    BY <1>11, <2>1 DEF SubmitConfig
  <2>6. decoder.next \in Nat /\ decoder.applied \in Nat /\ output.config \in Nat
    BY DEF Decoding
  <2> QED
    BY <2>1, <2>2, <2>3, <2>4, <2>5, <2>6
<1>12. CASE SkipConfig
  BY <1>12 DEF Store, Decoding, Carries, Control, Reading, Apart, SkipConfig, DecoderAt
<1>13. CASE SubmitFrame
  <2>1. decoder.packet \in Packets /\ stopper # "stopped" /\ decoder.at = "frame" /\ running
    BY <1>13 DEF SubmitFrame, Decoding, Carries
  <2>2. content[decoder.packet].config <= output.config
    BY <2>1
  <2>3. ~(output.config < content[decoder.packet].config) /\ ~(output.config < 0)
    BY <2>1, <2>2 DEF Decoding, Store
  <2>4. ~output'.behind /\ output'.config = output.config
    BY <1>13, <2>3 DEF SubmitFrame, Done, Decoding
  <2>5. decoder'.at \in {"loop", "exited"} /\ decoder'.applied = decoder.applied
    BY <1>13 DEF SubmitFrame, Recycle, Decoding
  <2>6. UNCHANGED <<stopper, content, config>>
    BY <1>13 DEF SubmitFrame
  <2> QED
    BY <2>4, <2>5, <2>6
<1>14. CASE SkipFrame
  BY <1>14 DEF Store, Decoding, Carries, Control, Reading, Apart, SkipFrame, Recycle, Done, FrameOf
<1>15. CASE StopBegin
  BY <1>15 DEF Store, Decoding, Carries, Control, Reading, Apart, StopBegin, Stopping
<1>16. CASE StopSetsDone
  BY <1>16 DEF Store, Decoding, Carries, Control, Reading, Apart, StopSetsDone, Stopping
<1>17. CASE StopNotifies
  BY <1>17, Notifications DEF Store, Decoding, Carries, Control, Reading, Apart, StopNotifies, Stopping
<1>18. CASE StopJoinsReader
  BY <1>18 DEF Store, Decoding, Carries, Control, Reading, Apart, StopJoinsReader, Stopping
<1>19. CASE StopJoinsDecoder
  BY <1>19 DEF Store, Decoding, Carries, Control, Reading, Apart, StopJoinsDecoder, Stopping
<1>20. CASE UNCHANGED <<stopper, content, config, decoder, output, running>>
  BY <1>20
<1>21. CASE ReaderFails \/ ReadMeta \/ AcquireFree \/ VideoGivesUp \/ AudioFindsNone
         \/ AudioReclaims \/ AudioReclaimsNone \/ ReadForNothing \/ ReaderSetsDone
  BY <1>20, <1>21 DEF ReaderFails, ReadMeta, Reader, AcquireFree, VideoGivesUp, AudioFindsNone,
     MayReclaim, AudioReclaims, Reclaimed, AudioReclaimsNone, WithoutPacket, ReadForNothing, ReaderSetsDone
<1> QED
  BY <1>1, <1>2, <1>3, <1>4, <1>5, <1>6, <1>7, <1>8, <1>9, <1>10, <1>11, <1>12, <1>13, <1>14, <1>15,
     <1>16, <1>17, <1>18, <1>19, <1>20, <1>21 DEF Next, ReaderStep, Delivery, DecodeStep, Codec, Stop, vars

\* No packet gets to a second place.
LEMMA ApartKept ==
  ASSUME IInv, [Next]_vars
  PROVE  Apart'
<1> SUFFICES /\ Distinct(free') /\ Distinct(queue')
             /\ \A p \in Packets : In(free', p) => ~In(queue', p) /\ reader'.packet # p /\ decoder'.packet # p
             /\ \A p \in Packets : In(queue', p) => reader'.packet # p /\ decoder'.packet # p
             /\ reader'.packet # NoPacket => reader'.packet # decoder'.packet
  BY DEF Apart, In, Distinct
<1>0. Apart /\ NoPacket \notin Packets
  BY PacketAssumption DEF IInv
<1> USE DEF Apart
<1>1. CASE AcquireFree
  BY <1>0, <1>1, Acquires
<1>2. CASE AudioReclaims
  BY <1>0, <1>2, Reclaims
<1>3. CASE StoreFrame
  BY <1>0, <1>3, Stores
<1>4. CASE StoreConfig
  BY <1>0, <1>4, Configures
<1>5. CASE Dequeue
  BY <1>0, <1>5, Dequeues
<1>6. CASE SubmitFrame \/ SkipFrame
  BY <1>0, <1>6, Recycles
<1>7. CASE StopJoinsDecoder
  BY <1>0, <1>7, Resets, EmptyIn
<1>8. CASE Rests
  BY <1>0, <1>8 DEF Rests
<1> QED
  BY <1>1, <1>2, <1>3, <1>4, <1>5, <1>6, <1>7, <1>8, Steps DEF Moves

\* No packet is lost, and the lengths add up.
LEMMA AllKept ==
  ASSUME IInv, [Next]_vars
  PROVE  All'
<1> DEFINE Total == Len(free) + Len(queue) + One(reader.packet) + One(decoder.packet)
           Total1 == Len(free') + Len(queue') + One(reader'.packet) + One(decoder'.packet)
<1> SUFFICES ASSUME stopper' # "stopped"
             PROVE  /\ Total1 = Cardinality(Packets)
                    /\ \A p \in Packets : In(free', p) \/ In(queue', p) \/ reader'.packet = p \/ decoder'.packet = p
  BY DEF All, In, One
<1>0. /\ Len(free) \in Nat /\ Len(queue) \in Nat
      /\ One(reader.packet) \in Nat /\ One(decoder.packet) \in Nat
      /\ One(NoPacket) = 0 /\ \A p \in Packets : p # NoPacket /\ One(p) = 1
  BY PacketAssumption, Lengths DEF One
<1>a. stopper # "stopped" =>
        /\ Total = Cardinality(Packets)
        /\ \A p \in Packets : In(free, p) \/ In(queue, p) \/ reader.packet = p \/ decoder.packet = p
  BY DEF IInv, All
<1>1. CASE AcquireFree
  <2>1. /\ Len(free') = Len(free) - 1 /\ Len(queue') = Len(queue)
        /\ One(reader.packet) = 0 /\ One(reader'.packet) = 1 /\ One(decoder'.packet) = One(decoder.packet)
    BY <1>0, <1>1, Acquires
  <2>2. Total1 = Total
    BY <1>0, <2>1
  <2>3. \A p \in Packets : In(free, p) \/ In(queue, p) \/ reader.packet = p \/ decoder.packet = p
                             => In(free', p) \/ In(queue', p) \/ reader'.packet = p \/ decoder'.packet = p
    BY <1>0, <1>1, Acquires
  <2>4. UNCHANGED stopper
    BY <1>1, Acquires
  <2> HIDE DEF Total, Total1
  <2> QED
    BY <1>a, <2>2, <2>3, <2>4
<1>2. CASE AudioReclaims
  <2>1. /\ Len(free') = Len(free) /\ Len(queue') = Len(queue) - 1
        /\ One(reader.packet) = 0 /\ One(reader'.packet) = 1 /\ One(decoder'.packet) = One(decoder.packet)
    BY <1>0, <1>2, Reclaims
  <2>2. Total1 = Total
    BY <1>0, <2>1
  <2>3. \A p \in Packets : In(free, p) \/ In(queue, p) \/ reader.packet = p \/ decoder.packet = p
                             => In(free', p) \/ In(queue', p) \/ reader'.packet = p \/ decoder'.packet = p
    BY <1>0, <1>2, Reclaims
  <2>4. UNCHANGED stopper
    BY <1>2, Reclaims
  <2> HIDE DEF Total, Total1
  <2> QED
    BY <1>a, <2>2, <2>3, <2>4
<1>3. CASE StoreFrame
  <2>1. /\ Len(free') = Len(free) /\ Len(queue') = Len(queue) + 1
        /\ One(reader.packet) = 1 /\ One(reader'.packet) = 0 /\ One(decoder'.packet) = One(decoder.packet)
    BY <1>0, <1>3, Stores
  <2>2. Total1 = Total
    BY <1>0, <2>1
  <2>3. \A p \in Packets : In(free, p) \/ In(queue, p) \/ reader.packet = p \/ decoder.packet = p
                             => In(free', p) \/ In(queue', p) \/ reader'.packet = p \/ decoder'.packet = p
    BY <1>3, Stores
  <2>4. UNCHANGED stopper
    BY <1>3, Stores
  <2> HIDE DEF Total, Total1
  <2> QED
    BY <1>a, <2>2, <2>3, <2>4
<1>4. CASE StoreConfig
  <2>1. /\ Len(free') = Len(free) + 1 /\ Len(queue') = Len(queue)
        /\ One(reader.packet) = 1 /\ One(reader'.packet) = 0 /\ One(decoder'.packet) = One(decoder.packet)
    BY <1>0, <1>4, Configures
  <2>2. Total1 = Total
    BY <1>0, <2>1
  <2>3. \A p \in Packets : In(free, p) \/ In(queue, p) \/ reader.packet = p \/ decoder.packet = p
                             => In(free', p) \/ In(queue', p) \/ reader'.packet = p \/ decoder'.packet = p
    BY <1>4, Configures
  <2>4. UNCHANGED stopper
    BY <1>4, Configures
  <2> HIDE DEF Total, Total1
  <2> QED
    BY <1>a, <2>2, <2>3, <2>4
<1>5. CASE Dequeue
  <2>1. /\ Len(free') = Len(free) /\ Len(queue') = Len(queue) - 1
        /\ One(decoder.packet) = 0 /\ One(decoder'.packet) = 1 /\ One(reader'.packet) = One(reader.packet)
    BY <1>0, <1>5, Dequeues
  <2>2. Total1 = Total
    BY <1>0, <2>1
  <2>3. \A p \in Packets : In(free, p) \/ In(queue, p) \/ reader.packet = p \/ decoder.packet = p
                             => In(free', p) \/ In(queue', p) \/ reader'.packet = p \/ decoder'.packet = p
    BY <1>0, <1>5, Dequeues
  <2>4. UNCHANGED stopper
    BY <1>5, Dequeues
  <2> HIDE DEF Total, Total1
  <2> QED
    BY <1>a, <2>2, <2>3, <2>4
<1>6. CASE SubmitFrame \/ SkipFrame
  <2>1. /\ Len(free') = Len(free) + 1 /\ Len(queue') = Len(queue)
        /\ One(decoder.packet) = 1 /\ One(decoder'.packet) = 0 /\ One(reader'.packet) = One(reader.packet)
    BY <1>0, <1>6, Recycles
  <2>2. Total1 = Total
    BY <1>0, <2>1
  <2>3. \A p \in Packets : In(free, p) \/ In(queue, p) \/ reader.packet = p \/ decoder.packet = p
                             => In(free', p) \/ In(queue', p) \/ reader'.packet = p \/ decoder'.packet = p
    BY <1>6, Recycles
  <2>4. UNCHANGED stopper
    BY <1>6, Recycles
  <2> HIDE DEF Total, Total1
  <2> QED
    BY <1>a, <2>2, <2>3, <2>4
<1>7. CASE StopJoinsDecoder
  BY <1>7, Resets
<1>8. CASE Rests /\ (stopper' = "stopped" <=> stopper = "stopped")
  BY <1>a, <1>8 DEF Rests
<1> QED
  BY <1>1, <1>2, <1>3, <1>4, <1>5, <1>6, <1>7, <1>8, Steps DEF Moves

\* The queue without its head, place by place.
LEMMA Tails ==
  ASSUME IInv, queue # <<>>, queue' = Tail(queue)
  PROVE  /\ Len(queue') = Len(queue) - 1 /\ Len(queue) \in Nat \ {0}
         /\ queue[1] \in Packets
         /\ \A i \in 1..Len(queue') : i + 1 \in 1..Len(queue) /\ queue'[i] = queue[i + 1]
<1>1. queue \in Seq(Packets)
  BY DEF IInv, Store
<1> QED
  BY <1>1, HeadAndTail

\* The frames stay in order: a new one goes behind all, and only the oldest leave.
LEMMA OrderedKept ==
  ASSUME IInv, [Next]_vars
  PROVE  Ordered'
<1>o. Ordered
  BY DEF IInv
<1>s. ASSUME UNCHANGED <<queue, content, output.frames, source.frames>>, decoder'.packet = decoder.packet
      PROVE  Ordered'
  BY <1>o, <1>s DEF Ordered
<1>1. CASE AcquireFree \/ StoreConfig
  <2>1. UNCHANGED <<queue, content, output, source>> /\ decoder'.packet = decoder.packet
    BY <1>1, Acquires, Configures
  <2> QED
    BY <1>s, <2>1
<1>2. CASE AudioReclaims
  <2>1. /\ queue # <<>> /\ queue' = Tail(queue)
        /\ UNCHANGED <<source, content, decoder, output>>
    BY <1>2, Reclaims
  <2>2. source.frames \in Nat /\ (decoder.packet # NoPacket => content[decoder.packet].frame \in Nat)
        /\ \A i \in 1..Len(output.frames) : output.frames[i] \in Nat
    BY Elements DEF IInv, Control, Store, Decoding
  <2> QED
    BY <1>o, <2>1, <2>2, Tails DEF Ordered
<1>3. CASE StoreFrame
  <2>1. /\ reader.packet \in Packets /\ queue' = Append(queue, reader.packet)
        /\ source'.frames = source.frames + 1
        /\ content'[reader.packet].frame = source.frames + 1
        /\ \A p \in Packets : p # reader.packet => content'[p] = content[p]
        /\ decoder'.packet = decoder.packet /\ UNCHANGED output
    BY <1>3, Stores
  <2>2. queue \in Seq(Packets) /\ source.frames \in Nat
        /\ \A i \in 1..Len(output.frames) : output.frames[i] \in Nat
    BY Elements DEF IInv, Control, Store, Decoding
  <2>3. /\ Len(queue) \in Nat /\ Len(queue') = Len(queue) + 1 /\ queue'[Len(queue) + 1] = reader.packet
        /\ \A i \in 1..Len(queue) : queue'[i] = queue[i] /\ queue[i] \in Packets
    BY <2>1, <2>2, Appended, Elements
  <2>4. \A i \in 1..Len(queue) : content'[queue[i]] = content[queue[i]]
    BY <2>1, <2>3 DEF IInv, Apart, In
  <2>5. decoder.packet # NoPacket => content'[decoder.packet] = content[decoder.packet]
    BY <2>1, PacketAssumption DEF IInv, Apart, Decoding
  <2>6. ASSUME NEW i \in 1..Len(queue')
        PROVE  content'[queue'[i]].frame = (source'.frames + i) - Len(queue')
    <3>1. CASE i = Len(queue) + 1
      BY <2>1, <2>2, <2>3, <3>1
    <3>2. CASE i \in 1..Len(queue)
      <4>1. content'[queue'[i]].frame = content[queue[i]].frame
        BY <2>3, <2>4, <3>2
      <4>2. content[queue[i]].frame = (source.frames + i) - Len(queue)
        BY <1>o, <3>2 DEF Ordered
      <4>3. i \in Nat /\ (source'.frames + i) - Len(queue') = (source.frames + i) - Len(queue)
        BY <2>1, <2>2, <2>3, <3>2
      <4> QED
        BY <4>1, <4>2, <4>3
    <3> QED
      BY <2>3, <3>1, <3>2
  <2>7. source'.frames - Len(queue') = source.frames - Len(queue) /\ Len(queue') <= source'.frames
    BY <1>o, <2>1, <2>2, <2>3 DEF Ordered
  <2> QED
    BY <1>o, <2>1, <2>5, <2>6, <2>7 DEF Ordered
<1>4. CASE Dequeue
  <2>1. /\ queue # <<>> /\ queue' = Tail(queue) /\ decoder'.packet = queue[1] /\ decoder.packet = NoPacket
        /\ UNCHANGED <<source, content, output>>
    BY <1>4, Dequeues
  <2>2. source.frames \in Nat /\ \A i \in 1..Len(output.frames) : output.frames[i] \in Nat
    BY Elements DEF IInv, Control, Store, Decoding
  <2>3. content[queue[1]].frame = (source.frames + 1) - Len(queue)
    BY <1>o, <2>1, Tails DEF Ordered
  <2> QED
    BY <1>o, <2>1, <2>2, <2>3, Tails DEF Ordered
<1>5. CASE SubmitFrame \/ SkipFrame
  <2>1. /\ decoder.packet \in Packets /\ decoder'.packet = NoPacket
        /\ content[decoder.packet].frame \in Nat
        /\ output'.frames = Append(output.frames, content[decoder.packet].frame)
        /\ UNCHANGED <<source, queue, content>>
    BY <1>5, Recycles
  <2>2. output.frames \in Seq(Nat) /\ source.frames \in Nat /\ Len(queue) \in Nat
    BY Lengths DEF IInv, Decoding
  <2>3. /\ Len(output.frames) \in Nat /\ Len(output'.frames) = Len(output.frames) + 1
        /\ output'.frames[Len(output.frames) + 1] = content[decoder.packet].frame
        /\ \A i \in 1..Len(output.frames) : output'.frames[i] = output.frames[i] /\ output.frames[i] \in Nat
    BY <2>1, <2>2, Appended, Elements
  <2>4. decoder.packet # NoPacket
    BY <2>1, PacketAssumption
  <2>5. \A i \in 1..Len(output'.frames) : i = Len(output.frames) + 1 \/ i \in 1..Len(output.frames)
    BY <2>3
  <2>6. \A i, j \in 1..Len(output'.frames) : i < j => i \in 1..Len(output.frames)
    BY <2>3
  <2>7. \A i, j \in 1..Len(output'.frames) : i < j => output'.frames[i] < output'.frames[j]
    BY <1>o, <2>3, <2>4, <2>5, <2>6 DEF Ordered
  <2>8. \A i \in 1..Len(output'.frames) : output'.frames[i] <= source.frames - Len(queue)
    BY <1>o, <2>3, <2>4, <2>5 DEF Ordered
  <2> QED
    BY <1>o, <2>1, <2>7, <2>8 DEF Ordered
<1>6. CASE StopJoinsDecoder
  <2>1. /\ queue' = <<>> /\ decoder'.packet = NoPacket
        /\ UNCHANGED <<source, output>>
    BY <1>6, Resets
  <2>2. /\ Len(queue') = 0 /\ source.frames \in Nat /\ Len(queue) \in Nat
        /\ \A i \in 1..Len(output.frames) : output.frames[i] \in Nat
    BY <2>1, Lengths, Elements DEF IInv, Decoding
  <2> QED
    BY <1>o, <2>1, <2>2 DEF Ordered
<1>7. CASE Rests /\ UNCHANGED output.frames /\ UNCHANGED source.frames
  BY <1>s, <1>7 DEF Rests
<1>8. CASE Rests /\ UNCHANGED output.frames /\ ReadForNothing
  <2>1. queue = <<>> /\ source'.frames \in {source.frames, source.frames + 1}
    BY <1>8 DEF ReadForNothing, IInv, Reading, Control
  <2>2. Len(queue) = 0 /\ Len(queue') = 0 /\ source.frames \in Nat
        /\ (decoder.packet # NoPacket => content[decoder.packet].frame \in Nat)
        /\ \A i \in 1..Len(output.frames) : output.frames[i] \in Nat
    BY <1>8, <2>1, Elements DEF Rests, IInv, Control, Store, Decoding
  <2> QED
    BY <1>o, <1>8, <2>1, <2>2 DEF Ordered, Rests
<1> QED
  BY <1>1, <1>2, <1>3, <1>4, <1>5, <1>6, <1>7, <1>8, Steps DEF Moves

\* A video has no reclaim and no read for nothing, so that no frame leaves but to the codec.
LEMMA LosslessKept ==
  ASSUME IInv, [Next]_vars
  PROVE  Lossless'
<1>o. Lossless
  BY DEF IInv
<1>n. One(NoPacket) = 0 /\ (\A p \in Packets : p # NoPacket /\ One(p) = 1) /\ One(decoder.packet) \in Nat
  BY PacketAssumption DEF One
<1>s. ASSUME UNCHANGED <<kind, queue, content, output.frames, source.frames>>, decoder'.packet = decoder.packet,
             stopper' = "stopped" <=> stopper = "stopped"
      PROVE  Lossless'
  BY <1>o, <1>s DEF Lossless, One
<1> SUFFICES ASSUME kind' = "video", stopper' # "stopped"
             PROVE  /\ Len(output'.frames) + One(decoder'.packet) + Len(queue') = source'.frames
                    /\ \A i \in 1..Len(output'.frames) : output'.frames[i] = i
                    /\ decoder'.packet # NoPacket => content'[decoder'.packet].frame = Len(output'.frames) + 1
  BY DEF Lossless, One
<1>1. CASE AcquireFree \/ StoreConfig
  <2>1. UNCHANGED <<kind, queue, content, output, source, stopper>> /\ decoder'.packet = decoder.packet
    BY <1>1, Acquires, Configures
  <2> QED
    BY <1>o, <2>1 DEF Lossless
<1>2. CASE AudioReclaims
  BY <1>2, Reclaims
<1>3. CASE StoreFrame
  <2>1. /\ reader.packet \in Packets /\ queue' = Append(queue, reader.packet)
        /\ source'.frames = source.frames + 1
        /\ \A p \in Packets : p # reader.packet => content'[p] = content[p]
        /\ decoder'.packet = decoder.packet /\ UNCHANGED <<kind, output, stopper>>
    BY <1>3, Stores
  <2>2. Len(queue) \in Nat /\ Len(queue') = Len(queue) + 1 /\ Len(output.frames) \in Nat /\ source.frames \in Nat
    BY <2>1, Lengths, Appended DEF IInv, Store
  <2>3. decoder.packet # NoPacket => content'[decoder.packet] = content[decoder.packet]
    BY <2>1, PacketAssumption DEF IInv, Apart, Decoding
  <2>4. /\ Len(output.frames) + One(decoder.packet) + Len(queue) = source.frames
        /\ \A i \in 1..Len(output.frames) : output.frames[i] = i
        /\ decoder.packet # NoPacket => content[decoder.packet].frame = Len(output.frames) + 1
    BY <1>o, <2>1 DEF Lossless
  <2>5. Len(output'.frames) + One(decoder'.packet) + Len(queue') = source'.frames
    <3> DEFINE done == Len(output.frames)
               held == One(decoder.packet)
    <3>1. done \in Nat /\ held \in Nat /\ done + held + Len(queue) = source.frames
      BY <1>n, <2>2, <2>4
    <3>2. Len(output'.frames) = done /\ One(decoder'.packet) = held
      BY <2>1
    <3>3. Len(queue') = Len(queue) + 1 /\ source'.frames = source.frames + 1 /\ Len(queue) \in Nat
      BY <2>1, <2>2
    <3> SUFFICES done + held + Len(queue') = source'.frames
      BY <3>2
    <3> HIDE DEF done, held
    <3> QED
      BY <3>1, <3>3
  <2> QED
    BY <2>1, <2>3, <2>4, <2>5
<1>4. CASE Dequeue
  <2>1. /\ queue # <<>> /\ queue' = Tail(queue) /\ decoder'.packet = queue[1] /\ decoder.packet = NoPacket
        /\ UNCHANGED <<kind, source, content, output, stopper>>
    BY <1>4, Dequeues
  <2>2. source.frames \in Nat /\ Len(output.frames) \in Nat
    BY Lengths
  <2>3. content[queue[1]].frame = (source.frames + 1) - Len(queue)
    BY <2>1, Tails DEF IInv, Ordered
  <2> QED
    BY <1>o, <1>n, <2>1, <2>2, <2>3, Tails DEF Lossless
<1>5. CASE SubmitFrame \/ SkipFrame
  <2>1. /\ decoder.packet \in Packets /\ decoder'.packet = NoPacket
        /\ content[decoder.packet].frame \in Nat
        /\ output'.frames = Append(output.frames, content[decoder.packet].frame)
        /\ UNCHANGED <<kind, source, queue, content, stopper>>
    BY <1>5, Recycles
  <2>2. output.frames \in Seq(Nat) /\ source.frames \in Nat /\ Len(queue) \in Nat
    BY Lengths DEF IInv, Decoding
  <2>3. /\ Len(output.frames) \in Nat /\ Len(output'.frames) = Len(output.frames) + 1
        /\ output'.frames[Len(output.frames) + 1] = content[decoder.packet].frame
        /\ \A i \in 1..Len(output.frames) : output'.frames[i] = output.frames[i]
    BY <2>1, <2>2, Appended
  <2>4. \A i \in 1..Len(output'.frames) : i = Len(output.frames) + 1 \/ i \in 1..Len(output.frames)
    BY <2>3
  <2> QED
    BY <1>o, <1>n, <2>1, <2>2, <2>3, <2>4 DEF Lossless
<1>6. CASE StopJoinsDecoder
  BY <1>6, Resets
<1>7. CASE Rests /\ UNCHANGED output.frames /\ UNCHANGED kind
           /\ (stopper' = "stopped" <=> stopper = "stopped") /\ UNCHANGED source.frames
  BY <1>o, <1>7 DEF Rests, Lossless
<1>8. CASE Rests /\ ReadForNothing
  BY <1>8 DEF ReadForNothing, IInv, Reading
<1> QED
  BY <1>1, <1>2, <1>3, <1>4, <1>5, <1>6, <1>7, <1>8, Steps DEF Moves

\* The pool at the beginning has every packet once.
LEMMA Pooled ==
  /\ Pool \in Seq(Packets) /\ Len(Pool) = Cardinality(Packets) /\ Distinct(Pool)
  /\ \A p \in Packets : In(Pool, p)
<1> DEFINE n == Cardinality(Packets)
<1>1. n \in Nat /\ ExistsBijection(1..n, Packets)
  BY FS_CardinalityType, PacketAssumption
<1>2. \E s \in [1..n -> Packets] : \A p \in Packets : \E i \in DOMAIN s : s[i] = p
  BY <1>1 DEF ExistsBijection, Bijection, Surjection
<1> HIDE DEF n
<1>3. Pool \in [1..n -> Packets] /\ \A p \in Packets : \E i \in DOMAIN Pool : Pool[i] = p
  BY <1>2 DEF Pool, n
<1>4. Pool \in Seq(Packets) /\ Len(Pool) = n
  BY <1>1, <1>3
<1>5. IsFiniteSet(1..n) /\ Cardinality(1..n) = n
  BY <1>1, FS_Interval
<1>6. Pool \in Surjection(1..n, Packets)
  BY <1>3 DEF Surjection
<1>7. Pool \in Injection(1..n, Packets)
  BY <1>5, <1>6, FS_SurjSameCardinalityImpliesInj DEF n
<1>8. Distinct(Pool)
  BY <1>1, <1>4, <1>7 DEF Distinct, Injection, IsInjective
<1> QED
  BY <1>3, <1>4, <1>8 DEF In, n

\* The invariant holds at the beginning.
LEMMA Starts == Init => IInv
<1> SUFFICES ASSUME Init PROVE IInv
  OBVIOUS
<1> USE PacketAssumption DEF Init
<1>1. Control /\ Reading
  BY DEF Control, Reading
<1>2. Store
  BY Pooled, EmptySeq DEF Store
<1>3. Decoding
  BY EmptySeq DEF Decoding, Carries
<1>4. Apart
  BY Pooled, EmptyIn DEF Apart
<1>5. All
  BY Pooled, FS_CardinalityType DEF All, One
<1>6. Ordered /\ Lossless
  BY DEF Ordered, Lossless, One
<1>7. Offered
  BY DEF Offered
<1> QED
  BY <1>1, <1>2, <1>3, <1>4, <1>5, <1>6, <1>7 DEF IInv

-----------------------------------------------------------------------------
(* The invariant implies the properties.                                   *)

\* Every packet is in exactly one place: Apart and All, on the one sequence of the places.
LEMMA OnePlaceHolds == IInv => OnePlace
<1> SUFFICES ASSUME IInv, stopper # "stopped"
             PROVE  /\ Len(Places) = Cardinality(Packets)
                    /\ \A p \in Packets : \E i \in DOMAIN Places : Places[i] = p
  BY DEF OnePlace
<1> DEFINE a == free
           b == queue
           c == Held(reader)
           d == Held(decoder)
<1>1. a \in Seq(Packets) /\ b \in Seq(Packets) /\ c \in Seq(Packets) /\ d \in Seq(Packets)
  BY DEF IInv, Store, Reading, Decoding, Held
<1>2. Len(c) = One(reader.packet) /\ Len(d) = One(decoder.packet)
  BY DEF Held, One
<1>3. /\ reader.packet # NoPacket => In(c, reader.packet)
      /\ decoder.packet # NoPacket => In(d, decoder.packet)
  <2>1. \A p : In(<<p>>, p)
    BY DEF In
  <2> QED
    BY <2>1 DEF Held
<1> HIDE DEF a, b, c, d
<1> DEFINE ab == a \o b
           abc == ab \o c
<1>4. Places = abc \o d
  BY DEF Places, a, b, c, d
<1>5. /\ ab \in Seq(Packets) /\ Len(ab) = Len(a) + Len(b) /\ Len(a) \in Nat /\ Len(b) \in Nat
      /\ \A p \in Packets : In(a, p) \/ In(b, p) => In(ab, p)
  BY <1>1, Joined
<1> HIDE DEF ab
<1>6. /\ abc \in Seq(Packets) /\ Len(abc) = Len(ab) + Len(c)
      /\ \A p \in Packets : In(ab, p) \/ In(c, p) => In(abc, p)
  BY <1>1, <1>5, Joined DEF abc
<1> HIDE DEF abc
<1>7. /\ Places \in Seq(Packets) /\ Len(Places) = Len(abc) + Len(d)
      /\ \A p \in Packets : In(abc, p) \/ In(d, p) => In(Places, p)
  <2>1. /\ abc \o d \in Seq(Packets) /\ Len(abc \o d) = Len(abc) + Len(d)
        /\ \A p \in Packets : In(abc, p) \/ In(d, p) => In(abc \o d, p)
    <3>1. abc \in Seq(Packets) /\ d \in Seq(Packets)
      BY <1>1, <1>6
    <3> QED
      BY <3>1, Joined
  <2> QED
    BY <1>4, <2>1
<1>8. /\ Len(a) + Len(b) + One(reader.packet) + One(decoder.packet) = Cardinality(Packets)
      /\ \A p \in Packets : In(a, p) \/ In(b, p) \/ reader.packet = p \/ decoder.packet = p
  BY DEF IInv, All, a, b
<1>9. Len(Places) = Cardinality(Packets)
  BY <1>2, <1>5, <1>6, <1>7, <1>8
<1>10. ASSUME NEW p \in Packets
       PROVE  \E i \in DOMAIN Places : Places[i] = p
  <2>1. In(Places, p)
    BY <1>3, <1>5, <1>6, <1>7, <1>8, PacketAssumption
  <2>2. DOMAIN Places = 1..Len(Places)
    BY <1>7, LenProperties
  <2> QED
    BY <2>1, <2>2 DEF In
<1> QED
  BY <1>9, <1>10

\* The line of frames is in order, complete for a video, and ends with the newest: Ordered and
\* Lossless, on the one sequence of what has gone, what is on the way and what is queued.
LEMMA FramesKeptHolds == IInv => FramesKept
<1> SUFFICES ASSUME IInv
             PROVE  FramesKept
  OBVIOUS
<1> DEFINE done == output.frames
           now == Numbers(Held(decoder))
           next == Numbers(queue)
<1>1. /\ queue \in Seq(Packets) /\ Len(queue) \in Nat /\ DOMAIN queue = 1..Len(queue)
      /\ content \in [Packets -> [frame : Nat, config : Nat]]
      /\ \A i \in 1..Len(queue) : queue[i] \in Packets
      /\ done \in Seq(Nat) /\ Len(done) \in Nat /\ source.frames \in Nat
      /\ \A i \in 1..Len(done) : done[i] \in Nat
  BY Lengths, Elements, LenProperties DEF IInv, Store, Decoding
<1>2. next \in Seq(Nat) /\ Len(next) = Len(queue) /\ \A i \in 1..Len(queue) : next[i] = content[queue[i]].frame
  <2>1. \A i \in 1..Len(queue) : content[queue[i]].frame \in Nat
    BY <1>1
  <2>2. next \in [1..Len(queue) -> Nat]
    BY <1>1, <2>1 DEF Numbers, FrameOf
  <2>3. next \in Seq(Nat) /\ Len(next) = Len(queue)
    <3> HIDE DEF next
    <3>1. Len(queue) \in Nat
      BY <1>1
    <3> QED
      BY <2>2, <3>1, Listed
  <2> QED
    BY <1>1, <2>3 DEF Numbers, FrameOf
<1>3. /\ now \in Seq(Nat) /\ Len(now) = One(decoder.packet)
      /\ decoder.packet # NoPacket => now[1] = content[decoder.packet].frame
  <2>1. CASE decoder.packet = NoPacket
    <3>1. now = <<>>
      BY <2>1 DEF Held, Numbers
    <3> QED
      BY <2>1, <3>1, EmptySeq DEF One
  <2>2. CASE decoder.packet # NoPacket
    <3>1. decoder.packet \in Packets
      BY <2>2 DEF IInv, Decoding
    <3>2. content[decoder.packet].frame \in Nat
      BY <1>1, <3>1
    <3>3. Held(decoder) = <<decoder.packet>>
      BY <2>2 DEF Held
    <3>4. now \in [1..1 -> Nat] /\ now[1] = content[decoder.packet].frame
      BY <3>2, <3>3 DEF Numbers, FrameOf
    <3>5. now \in Seq(Nat) /\ Len(now) = 1
      <4>1. now \in [1..1 -> Nat]
        BY <3>4
      <4> HIDE DEF now
      <4> QED
        BY <4>1, Listed
    <3> QED
      BY <2>2, <3>4, <3>5 DEF One
  <2> QED
    BY <2>1, <2>2
<1> DEFINE before == Len(done) + Len(now)
<1> HIDE DEF done, now, next
<1>4. /\ Len(Line) = before + Len(next) /\ Line \in Seq(Nat)
      /\ \A i \in 1..Len(done) : Line[i] = done[i]
      /\ \A i \in 1..Len(now) : Line[Len(done) + i] = now[i]
      /\ \A i \in 1..Len(next) : Line[before + i] = next[i]
  <2>1. Line = done \o now \o next
    BY DEF Line, done, now, next
  <2>2. done \in Seq(Nat) /\ now \in Seq(Nat) /\ next \in Seq(Nat)
    BY <1>1, <1>2, <1>3
  <2>3. /\ done \o now \o next \in Seq(Nat) /\ Len(done \o now \o next) = Len(done) + Len(now) + Len(next)
        /\ \A i \in 1..Len(done) : (done \o now \o next)[i] = done[i]
        /\ \A i \in 1..Len(now) : (done \o now \o next)[Len(done) + i] = now[i]
        /\ \A i \in 1..Len(next) : (done \o now \o next)[Len(done) + Len(now) + i] = next[i]
    BY <2>2, ThreeJoined
  <2> QED
    BY <2>1, <2>3
<1>5. One(decoder.packet) \in {0, 1} /\ before \in Nat
  BY <1>1, <1>3 DEF One
<1>6. Len(Line) = before + Len(queue) /\ before = Len(done) + One(decoder.packet) /\ Len(done) \in Nat
  <2>1. Len(Line) = before + Len(next)
    BY <1>4
  <2>2. Len(next) = Len(queue) /\ Len(now) = One(decoder.packet)
    BY <1>2, <1>3
  <2>3. Len(done) \in Nat
    BY <1>1
  <2> QED
    BY <2>1, <2>2, <2>3
<1> HIDE DEF before
<1>7. ASSUME NEW i \in 1..Len(Line)
      PROVE  /\ i <= Len(done) => Line[i] = done[i]
             /\ i > Len(done) /\ i <= before =>
                  i = Len(done) + 1 /\ decoder.packet # NoPacket /\ Line[i] = content[decoder.packet].frame
             /\ i > before => i - before \in 1..Len(queue) /\ Line[i] = content[queue[i - before]].frame
  <2>1. CASE i <= Len(done)
    BY <1>4, <1>5, <1>6, <2>1
  <2>2. CASE i > Len(done) /\ i <= before
    <3>1. One(decoder.packet) = 1 /\ i = Len(done) + 1
      BY <1>5, <1>6, <2>2
    <3>2. decoder.packet # NoPacket
      BY <3>1 DEF One
    <3>3. Len(now) = 1 /\ now[1] = content[decoder.packet].frame
      BY <1>3, <3>1, <3>2
    <3>4. Line[i] = now[1]
      BY <1>4, <3>1, <3>3
    <3>5. ~(i > before) /\ ~(i <= Len(done))
      BY <1>5, <1>6, <2>2
    <3> QED
      BY <3>1, <3>2, <3>3, <3>4, <3>5
  <2>3. CASE i > before
    <3>1. i - before \in 1..Len(queue) /\ i = before + (i - before)
      BY <1>1, <1>5, <1>6, <2>3
    <3>2. Line[i] = next[i - before]
      BY <1>2, <1>4, <3>1
    <3>3. ~(i <= before) /\ ~(i <= Len(done))
      BY <1>5, <1>6, <2>3
    <3> QED
      BY <1>2, <3>1, <3>2, <3>3
  <2> QED
    BY <1>5, <1>6, <2>1, <2>2, <2>3
<1>8. /\ \A i \in 1..Len(queue) : content[queue[i]].frame = (source.frames + i) - Len(queue)
      /\ \A i, j \in 1..Len(done) : i < j => done[i] < done[j]
      /\ \A i \in 1..Len(done) : /\ done[i] <= source.frames - Len(queue)
                                 /\ decoder.packet # NoPacket => done[i] < content[decoder.packet].frame
      /\ decoder.packet # NoPacket => content[decoder.packet].frame <= source.frames - Len(queue)
      /\ decoder.packet # NoPacket => content[decoder.packet].frame \in Nat
  BY DEF IInv, Ordered, Decoding, Store, done
<1>9. InOrder
  <2> SUFFICES ASSUME NEW i \in 1..(Len(Line) - 1)
               PROVE  Line[i] < Line[i + 1]
    BY DEF InOrder
  <2>1. i \in 1..Len(Line) /\ i + 1 \in 1..Len(Line) /\ i \in Nat
    BY <1>1, <1>5, <1>6
  <2>2. Len(done) <= before /\ before <= Len(done) + 1 /\ Len(done) \in Nat
    BY <1>5, <1>6
  <2>3. CASE i + 1 <= Len(done)
    <3>1. Line[i] = done[i] /\ Line[i + 1] = done[i + 1] /\ i \in 1..Len(done) /\ i + 1 \in 1..Len(done)
      BY <1>7, <2>1, <2>2, <2>3
    <3> QED
      BY <1>8, <2>1, <3>1
  <2>4. CASE i + 1 > Len(done) /\ i + 1 <= before
    <3>1. i = Len(done) /\ i \in 1..Len(done) /\ Line[i] = done[i]
      BY <1>7, <2>1, <2>2, <2>4
    <3>2. decoder.packet # NoPacket /\ Line[i + 1] = content[decoder.packet].frame
      BY <1>7, <2>1, <2>2, <2>4
    <3> QED
      BY <1>8, <3>1, <3>2
  <2>5. CASE i + 1 > before
    <3>1. /\ (i + 1) - before \in 1..Len(queue)
          /\ Line[i + 1] = (source.frames + ((i + 1) - before)) - Len(queue)
      BY <1>7, <1>8, <2>1, <2>5
    <3>2. Line[i + 1] > source.frames - Len(queue)
      BY <1>1, <1>5, <2>1, <3>1
    <3>3. CASE i > before
      <4>1. i - before \in 1..Len(queue) /\ Line[i] = (source.frames + (i - before)) - Len(queue)
        BY <1>7, <1>8, <2>1, <3>3
      <4> QED
        BY <1>1, <1>5, <2>1, <3>1, <4>1
    <3>4. CASE i <= before
      <4>1. Line[i] <= source.frames - Len(queue) /\ Line[i] \in Nat
        <5>1. CASE i <= Len(done)
          <6>1. i \in 1..Len(done) /\ Line[i] = done[i] /\ done[i] \in Nat
            BY <1>1, <1>7, <2>1, <2>2, <5>1
          <6> QED
            BY <1>8, <6>1
        <5>2. CASE i > Len(done)
          BY <1>7, <1>8, <2>1, <3>4, <5>2
        <5> QED
          BY <2>1, <2>2, <5>1, <5>2
      <4> QED
        BY <1>1, <3>1, <3>2, <4>1
    <3> QED
      BY <1>5, <2>1, <3>3, <3>4
  <2> QED
    BY <1>5, <2>1, <2>2, <2>3, <2>4, <2>5
<1>10. VideoLossless
  <2> SUFFICES ASSUME kind = "video", stopper # "stopped"
               PROVE  Line = [i \in 1..source.frames |-> i]
    BY DEF VideoLossless
  <2>1. /\ Len(done) + One(decoder.packet) + Len(queue) = source.frames
        /\ \A i \in 1..Len(done) : done[i] = i
        /\ decoder.packet # NoPacket => content[decoder.packet].frame = Len(done) + 1
    BY DEF IInv, Lossless, done
  <2>2. Len(Line) = source.frames /\ before + Len(queue) = source.frames
    BY <1>5, <1>6, <2>1
  <2>3. ASSUME NEW i \in 1..Len(Line)
        PROVE  Line[i] = i
    <3>1. CASE i <= Len(done)
      BY <1>1, <1>7, <2>1, <3>1
    <3>2. CASE i > Len(done) /\ i <= before
      BY <1>7, <2>1, <3>2
    <3>3. CASE i > before
      <4>1. i - before \in 1..Len(queue) /\ Line[i] = (source.frames + (i - before)) - Len(queue)
        BY <1>7, <1>8, <3>3
      <4> QED
        BY <1>1, <1>5, <2>2, <4>1
    <3> QED
      BY <1>1, <1>5, <3>1, <3>2, <3>3
  <2>4. Line \in [1..source.frames -> Nat]
    BY <1>4, <2>2, LenProperties
  <2> QED
    BY <2>2, <2>3, <2>4
<1>11. KeepsNewest
  BY <1>1, <1>8 DEF KeepsNewest, FrameOf
<1> QED
  BY <1>9, <1>10, <1>11 DEF FramesKept

-----------------------------------------------------------------------------
(* The theorems.                                                           *)

\* Every reachable state satisfies the invariant.
THEOREM Inductive == Spec => []IInv
<1>1. ASSUME IInv, [Next]_vars
      PROVE  IInv'
  BY <1>1, ControlKept, StoreKept, ReadingKept, DecodingKept, ApartKept, AllKept, OrderedKept, LosslessKept,
     OfferedKept DEF IInv
<1> QED
  BY <1>1, Starts, PTL DEF Spec

\* Every variable keeps its type; in particular only packets of the pool are queued and freed.
THEOREM TypeCorrect == Spec => []TypeOK
<1>1. IInv => TypeOK
  BY DEF IInv, Control, Store, Reading, Decoding, TypeOK
<1> QED
  BY <1>1, Inductive, PTL

\* MediaPacketStore.h: reader and decode thread never have one packet at the same time, and no
\* packet is lost, although the audio reader takes packets from the queue too.
THEOREM PacketsOnce == Spec => []OnePlace
  BY OnePlaceHolds, Inductive, PTL

\* What comes out of the queue is the stream in its order, all of it for video and the latest of it
\* for audio.
THEOREM StreamKept == Spec => []FramesKept
  BY FramesKeptHolds, Inductive, PTL

\* No frame goes to the codec before the configuration read ahead of it has been offered to it.
THEOREM ConfigurationFirst == Spec => []ConfigFirst
<1>1. IInv => ConfigFirst
  BY DEF IInv, Offered, ConfigFirst
<1> QED
  BY <1>1, Inductive, PTL
=============================================================================
