--------------------------- MODULE DecoderProofs ---------------------------
(***************************************************************************)
(* What Decoder promises, proved for every number of buffers, every pool,  *)
(* frame and period length and every sequence of timestamps:               *)
(*                                                                         *)
(*   TypeCorrect   every variable has its type                             *)
(*   OwnedOnce     every output buffer and every PCM frame is in one place *)
(*   InOrder       packets are seen and heard in the order they were fed   *)
(*   Bounded       no frame waits beyond the cap, and the decoded audio    *)
(*                 stays within the pool and one frame                     *)
(*                                                                         *)
(* The order is the hard one.  A packet is, from its end to its beginning, *)
(* shown, near the screen or the speaker, in a queue of decoded output, in *)
(* the hand of the callback, in the codec, or still to be fed: six places  *)
(* in a line (Stages), and everything in one of them comes before          *)
(* everything in the next.  Each action moves one packet one place on.     *)
(***************************************************************************)
EXTENDS Decoder, SequenceTheorems, FiniteSetTheorems, TLAPS

-----------------------------------------------------------------------------

\* An entry of the output queue.
Entry == [buf : OutBuffers, packet : Packets]

\* What Init, Start and Release have done by each of their steps.
Control ==
  /\ kind \in Kinds /\ pts \in Timelines /\ pts \in Seq(Int)
  /\ ctl \in {"new", "inited", "half started", "spawn", "waiting", "on", "failed", "join",
             "stop renderer", "stop codec", "release", "released"}
  /\ started \in BOOLEAN /\ running \in BOOLEAN
  /\ sys \in [codec : {"none", "ready", "running"}, context : {"none", "live"},
              renderer : {"none", "ready", "running", "stopped"}]
  /\ ctl = "new" => Nothing
  /\ ctl = "inited" => /\ kind # "raw" => sys.codec = "ready" /\ sys.context = "live"
  /\ ctl = "half started" => kind = "audio" /\ sys.codec = "ready" /\ sys.context = "live"
  /\ ctl \in {"spawn", "join"} => kind = "video"
  /\ ctl = "stop renderer" => kind # "video"
  /\ kind = "raw" => sys.codec = "none"
  /\ sys.codec = "running" =>
       /\ sys.context = "live"
       /\ ctl \in {"spawn", "waiting", "on", "join", "stop renderer", "stop codec"}
  /\ kind # "raw" /\ ctl \in {"spawn", "waiting", "on"} => sys.codec = "running"
  /\ ctl = "release" => sys.codec = "none"
  /\ ctl = "released" => Nothing

\* The output callback holds a buffer while it runs, and runs only on a running codec.
Calling ==
  /\ callback \in [at : {"idle", "check", "take", "enqueue"}, buf : OutBuffers \cup {None},
                   packet : Packets \cup {0}, frame : PcmIds \cup {None}]
  /\ callback.at # "idle" => sys.codec = "running" /\ callback.packet # 0
  /\ callback.at # "idle" <=> callback.buf # None
  /\ callback.at = "take" => kind = "audio"
  /\ callback.frame # None <=> callback.at = "enqueue" /\ kind = "audio"

\* The render thread holds a buffer between taking and freeing it, and is joined before the codec goes.
Rendering ==
  /\ render \in [at : {"off", "wait", "have", "pace", "ended"}, buf : OutBuffers \cup {None},
                 packet : Packets \cup {0}, firsts : Nat]
  /\ render.buf # None <=> render.at \in {"have", "pace"}
  /\ render.buf # None => render.packet # 0
  /\ render.at \in {"wait", "have", "pace"} =>
       kind = "video" /\ sys.codec = "running" /\ ctl \in {"waiting", "on", "join"}

\* The feeder holds a buffer only of a started decoder, while packets remain.
Feeding ==
  /\ input \in [free : SUBSET InBuffers, queue : Seq(InBuffers), fed : 0..Len(pts), coded : Seq(Packets)]
  /\ held \in InBuffers \cup PcmIds \cup {None}
  /\ held # None => /\ ctl = "on" /\ input.fed < Len(pts)
                    /\ held \in PcmIds <=> kind = "raw"
  /\ kind = "raw" => input.coded = <<>>

\* The output queue, which only video uses.
Outputs ==
  /\ output \in [free : SUBSET OutBuffers, queue : Seq(Entry)]
  /\ kind # "video" => output.queue = <<>>

\* The clock of the video, whose slack RenderOutputLoop caps.
Pacing == clock \in [set : BOOLEAN, pts : Int, slack : Int] /\ clock.slack <= LeadCap

\* The pool of PCM frames, which only sound uses.
Pooled ==
  /\ pcm \in [alloc : SUBSET PcmIds, free : SUBSET PcmIds, queue : Seq(PcmIds),
              of : [PcmIds -> [packet : Packets \cup {0}, left : 0..FrameLen]]]
  /\ pcm.free \subseteq pcm.alloc
  /\ \A f \in PcmIds : pcm.of[f].left # 0 => pcm.of[f].packet # 0
  /\ kind = "video" => pcm.alloc = {}

\* The renderer asks for data only while it runs.
Writing ==
  /\ writer \in [frame : PcmIds \cup {None}, want : 0..Period]
  /\ writer.want # 0 => sys.renderer = "running"

\* What has been seen or heard.
Shows == shown \in Seq(Packets)

\* The helpers: no element twice, an element somewhere, a buffer somewhere, no buffer twice.
Distinct(q) == \A i, j \in 1..Len(q) : q[i] = q[j] => i = j
In(q, x) == \E i \in 1..Len(q) : q[i] = x
HasBuf(q, b) == \E i \in 1..Len(q) : q[i].buf = b
Single(q) == \A i, j \in 1..Len(q) : q[i].buf = q[j].buf => i = j

\* The four places of an output buffer.
Somewhere(b) == b \in output.free \/ callback.buf = b \/ render.buf = b \/ HasBuf(output.queue, b)

\* Every output buffer is in one of its places until the decoder is released, and never in two.
Buffers ==
  /\ ctl # "released" => \A b \in OutBuffers : Somewhere(b)
  /\ \A b \in OutBuffers :
     /\ b \in output.free => callback.buf # b /\ render.buf # b /\ ~HasBuf(output.queue, b)
     /\ callback.buf = b => render.buf # b /\ ~HasBuf(output.queue, b)
     /\ render.buf = b => ~HasBuf(output.queue, b)
  /\ Single(output.queue)

\* Every allocated PCM frame is in one place.
Frames ==
  /\ \A f \in PcmIds :
     /\ f \in pcm.alloc <=> (f \in pcm.free \/ In(pcm.queue, f) \/ callback.frame = f \/ writer.frame = f \/ held = f)
     /\ f \in pcm.free => ~In(pcm.queue, f) /\ callback.frame # f /\ writer.frame # f /\ held # f
     /\ In(pcm.queue, f) => callback.frame # f /\ writer.frame # f /\ held # f
     /\ callback.frame = f => writer.frame # f /\ held # f
     /\ writer.frame = f => held # f
  /\ Distinct(pcm.queue)

\* How many PCM frames there are.
Counts ==
  /\ kind = "audio" => /\ Len(pcm.queue) <= PoolSize /\ Cardinality(pcm.alloc) <= PoolSize + 1
                       /\ callback.at \in {"take", "enqueue"} => Len(pcm.queue) < PoolSize
  /\ kind = "raw" => Cardinality(pcm.alloc) <= PoolSize + input.fed + (IF held = None THEN 0 ELSE 1)

\* What is left of a frame, and whose it is.
Left(f) == pcm.of[f].left
Pk(f) == pcm.of[f].packet

\* Frames nobody has begun to copy are whole.
WholeIn(q, of) == \A i \in 1..Len(q) : of[q[i]].left \in {0, FrameLen}
Whole ==
  /\ WholeIn(pcm.queue, pcm.of)
  /\ callback.frame # None => pcm.of[callback.frame] = [packet |-> callback.packet, left |-> FrameLen]

\* The queues keep the order of the packets.
BySequence(q) == \A i, j \in 1..Len(q) : i < j => q[i].packet < q[j].packet
Rises(q) == \A i, j \in 1..Len(q) : i < j => q[i] < q[j]
ByContent(q, of) ==
  \A i, j \in 1..Len(q) :
     i < j /\ of[q[i]].left # 0 /\ of[q[j]].left # 0 => of[q[i]].packet < of[q[j]].packet
Sorted == BySequence(output.queue) /\ Rises(input.coded) /\ ByContent(pcm.queue, pcm.of)

\* What stands in a queue.
Elems(q) == {q[i] : i \in 1..Len(q)}
OutPackets(q) == {q[i].packet : i \in 1..Len(q)}
Loaded(q, of) == {of[q[i]].packet : i \in {j \in 1..Len(q) : of[q[j]].left # 0}}

\* The packet about to be seen, or being heard.
Near == {k \in Packets : render.buf # None /\ render.packet = k}
  \cup {k \in Packets : writer.frame # None /\ Left(writer.frame) # 0 /\ Pk(writer.frame) = k}

\* The other places, from what has been shown to what is still to be fed.
Stage0 == Elems(shown) \ Near
Stage2 == OutPackets(output.queue) \cup Loaded(pcm.queue, pcm.of)
Stage3 == {k \in Packets : callback.at # "idle" /\ callback.packet = k}
Stage4 == Elems(input.coded)
Stage5 == {k \in Nat : k > input.fed}
Stages == [n \in 0..5 |-> CASE n = 0 -> Stage0 [] n = 1 -> Near [] n = 2 -> Stage2
                            [] n = 3 -> Stage3 [] n = 4 -> Stage4 [] n = 5 -> Stage5]

\* A line: everything in one place comes before everything in the next.
Before(A, B) == \A x \in A, y \in B : x < y
Line(S) == \A m, n \in 0..5 : m < n => Before(S[m], S[n])

\* How often a packet is announced when it is over.
Total == IF kind = "video" THEN 1 ELSE FrameLen

\* What is over was played to its end, what is near to where it stands.
Played ==
  /\ \A k \in Near : Times(k) = IF kind = "video" THEN 0 ELSE FrameLen - Left(writer.frame)
  /\ \A k \in Stage0 : Times(k) = Total

\* Until the decoder is released its packets stand in a line.
Ordering == ctl # "released" => Line(Stages) /\ Played

\* What needs no order.
Shape ==
  /\ Control /\ Calling /\ Rendering /\ Feeding /\ Outputs /\ Pacing /\ Pooled /\ Writing /\ Shows
  /\ Buffers /\ Frames /\ Counts

\* The inductive invariant.
IInv ==
  /\ Control /\ Calling /\ Rendering /\ Feeding /\ Outputs /\ Pacing /\ Pooled /\ Writing /\ Shows
  /\ Buffers /\ Frames /\ Counts
  /\ Whole /\ Sorted /\ Ordering /\ ShownInOrder

\* The head and the tail of a sequence that is not empty.
LEMMA HeadAndTail ==
  ASSUME NEW S, NEW q \in Seq(S), q # <<>>
  PROVE  /\ Head(q) \in S /\ Tail(q) \in Seq(S) /\ Head(q) = q[1]
         /\ Len(q) \in Nat \ {0} /\ Len(Tail(q)) = Len(q) - 1
         /\ \A i \in 1..Len(Tail(q)) : Tail(q)[i] = q[i + 1]
  BY HeadTailProperties, LenProperties, EmptySeq

\* A sequence with one more element.
LEMMA Appended ==
  ASSUME NEW S, NEW q \in Seq(S), NEW x \in S
  PROVE  /\ Append(q, x) \in Seq(S) /\ Len(q) \in Nat /\ Len(Append(q, x)) = Len(q) + 1
         /\ Append(q, x)[Len(q) + 1] = x
         /\ \A i \in 1..Len(q) : Append(q, x)[i] = q[i]
  BY AppendProperties, LenProperties

\* The elements of a sequence.
LEMMA Elements ==
  ASSUME NEW S, NEW q \in Seq(S)
  PROVE  Len(q) \in Nat /\ \A i \in 1..Len(q) : q[i] \in S
  BY LenProperties, ElementOfSeq

\* One element, any number of times.
LEMMA Repeated ==
  ASSUME NEW S, NEW n \in Nat, NEW x \in S
  PROVE  [i \in 1..n |-> x] \in Seq(S)
  OBVIOUS

\* Taking the head away takes away one element, and that one for good where none is twice.
LEMMA TailIn ==
  ASSUME NEW S, NEW q \in Seq(S), q # <<>>
  PROVE  /\ In(q, q[1]) /\ q[1] \in S /\ Len(Tail(q)) = Len(q) - 1
         /\ \A p \in S : In(q, p) <=> p = q[1] \/ In(Tail(q), p)
         /\ Distinct(q) => Distinct(Tail(q)) /\ ~In(Tail(q), q[1])
<1>1. /\ Len(q) \in Nat \ {0} /\ Len(Tail(q)) = Len(q) - 1 /\ q[1] \in S
      /\ \A i \in 1..Len(Tail(q)) : Tail(q)[i] = q[i + 1]
  BY HeadAndTail
<1>2. \A i \in 1..Len(q) : i = 1 \/ (i - 1 \in 1..Len(Tail(q)) /\ Tail(q)[i - 1] = q[i])
  BY <1>1
<1>3. \A i \in 1..Len(Tail(q)) : i + 1 \in 1..Len(q) /\ i + 1 # 1
  BY <1>1
<1>4. In(q, q[1])
  BY <1>1 DEF In
<1>5. \A p \in S : In(q, p) <=> p = q[1] \/ In(Tail(q), p)
  BY <1>1, <1>2, <1>3 DEF In
<1>6. ASSUME Distinct(q)
      PROVE  Distinct(Tail(q)) /\ ~In(Tail(q), q[1])
  <2>1. ASSUME NEW i \in 1..Len(Tail(q)), NEW j \in 1..Len(Tail(q)), Tail(q)[i] = Tail(q)[j]
        PROVE  i = j
    <3>1. q[i + 1] = q[j + 1]
      BY <1>1, <2>1
    <3>2. i + 1 = j + 1
      BY <1>3, <1>6, <3>1 DEF Distinct
    <3> QED
      BY <3>2
  <2>2. ASSUME NEW i \in 1..Len(Tail(q)), Tail(q)[i] = q[1]
        PROVE  FALSE
    <3>1. q[i + 1] = q[1] /\ 1 \in 1..Len(q)
      BY <1>1, <2>2
    <3>2. i + 1 = 1
      BY <1>3, <1>6, <3>1 DEF Distinct
    <3> QED
      BY <3>2
  <2> QED
    BY <2>1, <2>2 DEF Distinct, In
<1> QED
  BY <1>1, <1>4, <1>5, <1>6

\* Appending adds one element, and none is twice if it was not there before.
LEMMA AppendIn ==
  ASSUME NEW S, NEW q \in Seq(S), NEW x \in S
  PROVE  /\ Len(Append(q, x)) = Len(q) + 1
         /\ \A p \in S : In(Append(q, x), p) <=> p = x \/ In(q, p)
         /\ Distinct(q) /\ ~In(q, x) => Distinct(Append(q, x))
<1>1. /\ Len(q) \in Nat /\ Len(Append(q, x)) = Len(q) + 1 /\ Append(q, x)[Len(q) + 1] = x
      /\ \A i \in 1..Len(q) : Append(q, x)[i] = q[i]
  BY Appended
<1>2. \A i \in 1..Len(Append(q, x)) : i = Len(q) + 1 \/ i \in 1..Len(q)
  BY <1>1
<1>3. \A i \in 1..Len(q) : i \in 1..Len(Append(q, x))
  BY <1>1
<1>4. Len(q) + 1 \in 1..Len(Append(q, x))
  BY <1>1
<1>5. \A p \in S : In(Append(q, x), p) <=> p = x \/ In(q, p)
  BY <1>1, <1>2, <1>3, <1>4 DEF In
<1>6. ASSUME Distinct(q), ~In(q, x)
      PROVE  Distinct(Append(q, x))
  BY <1>1, <1>2, <1>6 DEF Distinct, In
<1> QED
  BY <1>1, <1>5, <1>6

\* The empty sequence has no element.
LEMMA EmptyIn ==
  /\ Distinct(<<>>) /\ \A p : ~In(<<>>, p)
  BY DEF Distinct, In
\* The output queue without its head.
LEMMA OutTail ==
  ASSUME NEW q \in Seq(Entry), q # <<>>
  PROVE  /\ q[1] \in Entry /\ HasBuf(q, q[1].buf)
         /\ \A b \in OutBuffers : HasBuf(q, b) <=> b = q[1].buf \/ HasBuf(Tail(q), b)
         /\ Single(q) => Single(Tail(q)) /\ ~HasBuf(Tail(q), q[1].buf)
<1>1. /\ Len(q) \in Nat \ {0} /\ Len(Tail(q)) = Len(q) - 1 /\ q[1] \in Entry
      /\ \A i \in 1..Len(Tail(q)) : Tail(q)[i] = q[i + 1]
  BY HeadAndTail
<1>2. \A i \in 1..Len(q) : i = 1 \/ (i - 1 \in 1..Len(Tail(q)) /\ Tail(q)[i - 1] = q[i])
  BY <1>1
<1>3. \A i \in 1..Len(Tail(q)) : i + 1 \in 1..Len(q) /\ i + 1 # 1
  BY <1>1
<1>4. HasBuf(q, q[1].buf)
  BY <1>1 DEF HasBuf
<1>5. \A b \in OutBuffers : HasBuf(q, b) <=> b = q[1].buf \/ HasBuf(Tail(q), b)
  BY <1>1, <1>2, <1>3 DEF HasBuf
<1>6. ASSUME Single(q)
      PROVE  Single(Tail(q)) /\ ~HasBuf(Tail(q), q[1].buf)
  <2>1. ASSUME NEW i \in 1..Len(Tail(q)), NEW j \in 1..Len(Tail(q)), Tail(q)[i].buf = Tail(q)[j].buf
        PROVE  i = j
    <3>1. q[i + 1].buf = q[j + 1].buf
      BY <1>1, <2>1
    <3>2. i + 1 = j + 1
      BY <1>3, <1>6, <3>1 DEF Single
    <3> QED
      BY <3>2
  <2>2. ASSUME NEW i \in 1..Len(Tail(q)), Tail(q)[i].buf = q[1].buf
        PROVE  FALSE
    <3>1. q[i + 1].buf = q[1].buf /\ 1 \in 1..Len(q)
      BY <1>1, <2>2
    <3>2. i + 1 = 1
      BY <1>3, <1>6, <3>1 DEF Single
    <3> QED
      BY <3>2
  <2> QED
    BY <2>1, <2>2 DEF Single, HasBuf
<1> QED
  BY <1>1, <1>4, <1>5, <1>6

\* An entry more in the output queue.
LEMMA OutAppend ==
  ASSUME NEW q \in Seq(Entry), NEW e \in Entry
  PROVE  /\ \A b \in OutBuffers : HasBuf(Append(q, e), b) <=> b = e.buf \/ HasBuf(q, b)
         /\ Single(q) /\ ~HasBuf(q, e.buf) => Single(Append(q, e))
<1>1. /\ Len(q) \in Nat /\ Len(Append(q, e)) = Len(q) + 1 /\ Append(q, e)[Len(q) + 1] = e
      /\ \A i \in 1..Len(q) : Append(q, e)[i] = q[i]
  BY Appended
<1>2. \A i \in 1..Len(Append(q, e)) : i = Len(q) + 1 \/ i \in 1..Len(q)
  BY <1>1
<1>3. \A i \in 1..Len(q) : i \in 1..Len(Append(q, e))
  BY <1>1
<1>4. Len(q) + 1 \in 1..Len(Append(q, e))
  BY <1>1
<1>5. \A b \in OutBuffers : HasBuf(Append(q, e), b) <=> b = e.buf \/ HasBuf(q, b)
  BY <1>1, <1>2, <1>3, <1>4 DEF HasBuf
<1>6. ASSUME Single(q), ~HasBuf(q, e.buf)
      PROVE  Single(Append(q, e))
  BY <1>1, <1>2, <1>6 DEF Single, HasBuf
<1> QED
  BY <1>1, <1>5, <1>6

\* A queue names at most as many frames as it has places.
LEMMA Named ==
  ASSUME NEW q \in Seq(Nat), NEW S, \A x \in S : In(q, x)
  PROVE  IsFiniteSet(S) /\ Cardinality(S) <= Len(q)
<1> DEFINE n == Len(q)
           T == {q[i] : i \in 1..n}
           f == [i \in 1..n |-> q[i]]
<1>1. n \in Nat
  BY LenProperties
<1>2. IsFiniteSet(1..n) /\ Cardinality(1..n) = n
  <2>1. 1 \in Int /\ n \in Int
    BY <1>1
  <2>2. IsFiniteSet(1..n) /\ Cardinality(1..n) = IF 1 > n THEN 0 ELSE n - 1 + 1
    BY <2>1, FS_Interval
  <2> HIDE DEF n
  <2> QED
    BY <1>1, <2>2
<1>3. f \in Surjection(1..n, T)
  <2>1. f \in [1..n -> T]
    OBVIOUS
  <2>2. \A y \in T : \E i \in 1..n : f[i] = y
    OBVIOUS
  <2> QED
    BY <2>1, <2>2 DEF Surjection
<1>4. S \subseteq T
  BY DEF In
<1> HIDE DEF n, T, f
<1>5. IsFiniteSet(T) /\ Cardinality(T) <= n
  BY <1>2, <1>3, FS_Surjection
<1>6. IsFiniteSet(S) /\ Cardinality(S) <= Cardinality(T)
  BY <1>4, <1>5, FS_Subset
<1>7. Cardinality(S) \in Nat /\ Cardinality(T) \in Nat
  BY <1>5, <1>6, FS_CardinalityType
<1> QED
  BY <1>1, <1>5, <1>6, <1>7 DEF n

\* Nothing of it changes.
LEMMA ControlSame ==
  ASSUME Control, UNCHANGED <<kind, pts, ctl, started, running, sys>>
  PROVE  Control'
<1>1. /\ UNCHANGED kind /\ UNCHANGED pts /\ UNCHANGED ctl /\ UNCHANGED started /\ UNCHANGED running /\ UNCHANGED sys
  OBVIOUS
<1>2. (kind \in Kinds /\ pts \in Timelines /\ pts \in Seq(Int))'
  BY <1>1 DEF Control
<1>3. (ctl \in {"new", "inited", "half started", "spawn", "waiting", "on", "failed", "join",
             "stop renderer", "stop codec", "release", "released"})'
  BY <1>1 DEF Control
<1>4. (started \in BOOLEAN /\ running \in BOOLEAN)'
  BY <1>1 DEF Control
<1>5. (  /\ sys \in [codec : {"none", "ready", "running"}, context : {"none", "live"},
              renderer : {"none", "ready", "running", "stopped"}])'
  BY <1>1 DEF Control
<1> QED BY <1>1, <1>2, <1>3, <1>4, <1>5 DEF Control, Nothing

\* Time stamps are numbered from one.
LEMMA Numbers ==
  ASSUME Control
  PROVE  /\ Len(pts) \in Nat /\ Packets = 1..Len(pts) /\ 0 \notin Packets /\ Packets \subseteq Nat
<1>1. Len(pts) \in Nat /\ DOMAIN pts = 1..Len(pts)
  BY LenProperties DEF Control
<1> QED
  BY <1>1 DEF Packets

\* Nothing left of codec, context and renderer.
LEMMA NothingIs ==
  Nothing => sys.codec = "none" /\ sys.context = "none" /\ sys.renderer = "none"
  BY DEF Nothing

\* There is a frame that is not allocated.
LEMMA Spare ==
  ASSUME Control, NEW S \in SUBSET PcmIds, Cardinality(S) <= PoolSize + Len(pts)
  PROVE  \E f \in PcmIds : f \notin S
<1> DEFINE n == PoolSize + 1 + Len(pts)
<1>1. n \in Nat /\ n = PoolSize + Len(pts) + 1 /\ n > 0 /\ PoolSize + Len(pts) \in Nat
  <2>1. Len(pts) \in Nat
    BY LenProperties DEF Control
  <2> QED
    BY <2>1, SizesAssumption
<1>2. IsFiniteSet(1..n) /\ Cardinality(1..n) = n
  <2>1. 1 \in Int /\ n \in Int
    BY <1>1
  <2> HIDE DEF n
  <2>2. IsFiniteSet(1..n) /\ Cardinality(1..n) = IF 1 > n THEN 0 ELSE n - 1 + 1
    BY <2>1, FS_Interval
  <2> QED
    BY <1>1, <2>2
<1>3. PcmIds = 1..n
  BY DEF PcmIds
<1>4. S # PcmIds
  <2>1. n \in Nat /\ Cardinality(S) < n
    <3>1. Cardinality(S) \in Nat
      BY <1>2, <1>3, FS_Subset, FS_CardinalityType
    <3> QED
      BY <1>1, <3>1
  <2> HIDE DEF n
  <2> QED
    BY <1>2, <1>3, <2>1
<1> QED
  BY <1>4

\* Identifiers of frames are numbers, hence no buffers.
LEMMA Ids ==
  ASSUME Control
  PROVE  /\ Len(pts) \in Nat /\ PcmIds \subseteq Nat /\ IsFiniteSet(PcmIds) /\ None \notin PcmIds
         /\ \A b \in InBuffers : b \notin PcmIds
<1>1. Len(pts) \in Nat
  BY LenProperties DEF Control
<1>2. PoolSize + 1 + Len(pts) \in Int /\ 1 \in Int
  BY <1>1, SizesAssumption
<1>3. IsFiniteSet(PcmIds)
  BY <1>2, FS_Interval DEF PcmIds
<1>4. PcmIds \subseteq Nat
  BY <1>2 DEF PcmIds
<1> QED
  BY <1>1, <1>3, <1>4, BuffersAssumption

\* The frame that is taken: one of the pool, or one that nobody has.
LEMMA FrameIs ==
  ASSUME IInv,
         \/ kind = "audio" /\ callback.at = "take"
         \/ kind = "raw" /\ held = None /\ input.fed < Len(pts)
  PROVE  /\ FrameFor(pcm) \in PcmIds
         /\ FrameFor(pcm) \in pcm.free \/ (pcm.free = {} /\ FrameFor(pcm) \notin pcm.alloc)
         /\ ~In(pcm.queue, FrameFor(pcm))
         /\ callback.frame # FrameFor(pcm) /\ writer.frame # FrameFor(pcm) /\ held # FrameFor(pcm)
         /\ kind = "audio" => Cardinality(pcm.alloc \cup {FrameFor(pcm)}) <= PoolSize + 1
         /\ kind = "raw" => Cardinality(pcm.alloc \cup {FrameFor(pcm)}) <= PoolSize + input.fed + 1
<1>0. /\ Control /\ Calling /\ Feeding /\ Pooled /\ Writing /\ Frames /\ Counts
      /\ pcm.alloc \subseteq PcmIds /\ pcm.free \subseteq pcm.alloc /\ pcm.queue \in Seq(PcmIds)
      /\ input.fed \in Nat /\ Len(pts) \in Nat /\ PoolSize \in Nat /\ Len(pcm.queue) \in Nat
  <2>1. /\ Control /\ Calling /\ Feeding /\ Pooled /\ Writing /\ Frames /\ Counts
        /\ pcm.alloc \subseteq PcmIds /\ pcm.free \subseteq pcm.alloc /\ pcm.queue \in Seq(PcmIds)
    BY DEF IInv, Pooled
  <2>2. Len(pts) \in Nat /\ Len(pcm.queue) \in Nat
    BY <2>1, Ids, LenProperties
  <2>3. input.fed \in Nat
    BY <2>1, <2>2 DEF Feeding
  <2> QED
    BY <2>1, <2>2, <2>3, SizesAssumption
<1>1. /\ PcmIds \subseteq Nat /\ IsFiniteSet(PcmIds) /\ None \notin PcmIds
      /\ \A b \in InBuffers : b \notin PcmIds
  BY <1>0, Ids
<1>2. IsFiniteSet(pcm.alloc) /\ Cardinality(pcm.alloc) \in Nat
  BY <1>0, <1>1, FS_Subset, FS_CardinalityType
<1>3. CASE pcm.free # {}
  <2> DEFINE f == FrameFor(pcm)
  <2>1. f \in pcm.free
    BY <1>3 DEF FrameFor
  <2>2. f \in pcm.alloc /\ f \in PcmIds
    BY <1>0, <2>1
  <2> HIDE DEF f
  <2>3. ~In(pcm.queue, f) /\ callback.frame # f /\ writer.frame # f /\ held # f
    BY <1>0, <2>1, <2>2 DEF Frames
  <2>4. pcm.alloc \cup {f} = pcm.alloc
    BY <2>2
  <2>5. /\ kind = "audio" => Cardinality(pcm.alloc) <= PoolSize + 1
        /\ kind = "raw" /\ held = None => Cardinality(pcm.alloc) <= PoolSize + input.fed
    BY <1>0 DEF Counts
  <2>6. /\ kind = "audio" => Cardinality(pcm.alloc) <= PoolSize + 1
        /\ kind = "raw" => Cardinality(pcm.alloc) <= PoolSize + input.fed + 1
    BY <1>0, <1>2, <2>5
  <2> QED
    BY <2>1, <2>2, <2>3, <2>4, <2>6 DEF f
<1>4. CASE pcm.free = {}
  <2>1. kind = "audio" => Cardinality(pcm.alloc) <= PoolSize
    <3> SUFFICES ASSUME kind = "audio" PROVE Cardinality(pcm.alloc) <= PoolSize
      OBVIOUS
    <3> DEFINE S == {f \in pcm.alloc : In(pcm.queue, f)}
    <3>1. callback.frame = None
      BY <1>0 DEF Calling
    <3>2. held \notin PcmIds
      BY <1>0, <1>1 DEF Feeding
    <3>3. pcm.alloc \subseteq S \cup {writer.frame}
      BY <1>0, <1>1, <1>4, <3>1, <3>2 DEF Frames
    <3>4. pcm.queue \in Seq(Nat)
      BY <1>0, <1>1, SeqMonotonic
    <3>5. \A x \in S : In(pcm.queue, x)
      OBVIOUS
    <3> HIDE DEF S
    <3>6. IsFiniteSet(S) /\ Cardinality(S) <= Len(pcm.queue) /\ Cardinality(S) \in Nat
      BY <3>4, <3>5, Named, FS_CardinalityType
    <3>7. /\ IsFiniteSet(S \cup {writer.frame})
          /\ Cardinality(S \cup {writer.frame}) = IF writer.frame \in S THEN Cardinality(S) ELSE Cardinality(S) + 1
      BY <3>6, FS_AddElement, Zenon
    <3>8. Cardinality(pcm.alloc) <= Cardinality(S \cup {writer.frame})
      BY <3>3, <3>7, FS_Subset
    <3>9. Len(pcm.queue) < PoolSize
      BY <1>0 DEF Counts
    <3> QED
      BY <1>0, <1>2, <3>6, <3>7, <3>8, <3>9
  <2>2. kind = "raw" => Cardinality(pcm.alloc) <= PoolSize + input.fed /\ input.fed < Len(pts)
    BY <1>0 DEF Counts
  <2>3. Cardinality(pcm.alloc) <= PoolSize + Len(pts)
    BY <1>0, <1>2, <2>1, <2>2
  <2>4. \E f \in PcmIds : f \notin pcm.alloc
    BY <1>0, <2>3, Spare
  <2> DEFINE f == FrameFor(pcm)
  <2>5. f \in PcmIds /\ f \notin pcm.alloc
    BY <1>4, <2>4 DEF FrameFor
  <2> HIDE DEF f
  <2>6. ~In(pcm.queue, f) /\ callback.frame # f /\ writer.frame # f /\ held # f
    BY <1>0, <2>5 DEF Frames
  <2>7. Cardinality(pcm.alloc \cup {f}) = Cardinality(pcm.alloc) + 1
    <3>1. Cardinality(pcm.alloc \cup {f}) = IF f \in pcm.alloc THEN Cardinality(pcm.alloc) ELSE Cardinality(pcm.alloc) + 1
      BY <1>2, FS_AddElement, Zenon
    <3> QED
      BY <2>5, <3>1
  <2>8. /\ kind = "audio" => Cardinality(pcm.alloc \cup {f}) <= PoolSize + 1
        /\ kind = "raw" => Cardinality(pcm.alloc \cup {f}) <= PoolSize + input.fed + 1
    BY <1>0, <1>2, <2>1, <2>2, <2>7
  <2> QED
    BY <1>4, <2>5, <2>6, <2>8 DEF f
<1> QED
  BY <1>3, <1>4

\* What each step does to the frames.
LEMMA GetDoes ==
  ASSUME IInv, GetInputBuffer, kind = "raw"
  PROVE  /\ held = None /\ held' = FrameFor(pcm) /\ held' \in PcmIds /\ held' # None
         /\ pcm' = [alloc |-> pcm.alloc \cup {held'}, free |-> pcm.free \ {held'}, queue |-> pcm.queue, of |-> pcm.of]
         /\ UNCHANGED <<kind, pts, ctl, sys, input, output, callback, render, clock, writer, shown>>
<1>1. /\ held = None /\ input.fed < Len(pts) /\ held' = FrameFor(pcm) /\ pcm' = TakeFrame(pcm, FrameFor(pcm))
      /\ UNCHANGED <<kind, pts, ctl, sys, input, output, callback, render, clock, writer, shown>>
  BY DEF GetInputBuffer, lifecycle
<1>2. FrameFor(pcm) \in PcmIds
  BY <1>1, FrameIs
<1>3. None \notin PcmIds
  BY Ids DEF IInv
<1> QED
  BY <1>1, <1>2, <1>3 DEF TakeFrame, IInv, Pooled

\* What a packet becomes in its frame, or nothing when it does not fit.
Content == [packet : {input.fed + 1}, left : {FrameLen}] \cup [packet : {0}, left : {0}]
\* The step lemmas: what each action does, written out.  SubmitInputBuffer feeds the next packet.
LEMMA SubmitDoes ==
  ASSUME IInv, SubmitInputBuffer, kind = "raw"
  PROVE  /\ held \in PcmIds /\ held' = None /\ input.fed + 1 \in Packets
         /\ \E c \in Content :
              pcm' = [alloc |-> pcm.alloc, free |-> pcm.free, queue |-> Append(pcm.queue, held),
                      of |-> [pcm.of EXCEPT ![held] = c]]
         /\ input' = [input EXCEPT !.fed = input.fed + 1]
         /\ UNCHANGED <<kind, pts, ctl, sys, output, callback, render, clock, writer, shown>>
<1>1. PICK fits \in BOOLEAN :
        /\ pcm' = Enqueue(Fill(pcm, held, IF fits THEN input.fed + 1 ELSE 0, IF fits THEN FrameLen ELSE 0), held)
        /\ input' = [input EXCEPT !.fed = input.fed + 1]
  BY DEF SubmitInputBuffer
<1>2. /\ held # None /\ held' = None
      /\ UNCHANGED <<kind, pts, ctl, sys, output, callback, render, clock, writer, shown>>
  BY DEF SubmitInputBuffer, lifecycle
<1>3. /\ held \in PcmIds /\ input.fed < Len(pts) /\ input.fed \in 0..Len(pts)
  BY <1>2 DEF IInv, Feeding
<1>4. input.fed + 1 \in Packets
  <2>1. Len(pts) \in Nat /\ Packets = 1..Len(pts)
    BY Numbers DEF IInv
  <2> QED
    BY <1>3, <2>1
<1>5. CASE fits
  <2> DEFINE c == [packet |-> input.fed + 1, left |-> FrameLen]
  <2>1. c \in Content
    BY DEF Content
  <2>2. pcm' = [alloc |-> pcm.alloc, free |-> pcm.free, queue |-> Append(pcm.queue, held),
                of |-> [pcm.of EXCEPT ![held] = c]]
    BY <1>1, <1>5 DEF Enqueue, Fill, IInv, Pooled
  <2> HIDE DEF c
  <2> QED
    BY <1>1, <1>2, <1>3, <1>4, <2>1, <2>2
<1>6. CASE ~fits
  <2> DEFINE c == [packet |-> 0, left |-> 0]
  <2>1. c \in Content
    BY DEF Content
  <2>2. pcm' = [alloc |-> pcm.alloc, free |-> pcm.free, queue |-> Append(pcm.queue, held),
                of |-> [pcm.of EXCEPT ![held] = c]]
    BY <1>1, <1>6 DEF Enqueue, Fill, IInv, Pooled
  <2> HIDE DEF c
  <2> QED
    BY <1>1, <1>2, <1>3, <1>4, <2>1, <2>2
<1> QED
  BY <1>5, <1>6

\* OnNewOutputBuffer takes a frame from the pool and copies the packet into it.
LEMMA TakenDoes ==
  ASSUME IInv, PcmTaken
  PROVE  LET f == FrameFor(pcm) IN
         /\ callback.at = "take" /\ kind = "audio" /\ f \in PcmIds /\ f # None /\ callback.packet \in Packets
         /\ callback' = [at |-> "enqueue", buf |-> callback.buf, packet |-> callback.packet, frame |-> f]
         /\ pcm' = [alloc |-> pcm.alloc \cup {f}, free |-> pcm.free \ {f}, queue |-> pcm.queue,
                    of |-> [pcm.of EXCEPT ![f] = [packet |-> callback.packet, left |-> FrameLen]]]
         /\ UNCHANGED <<kind, pts, ctl, sys, input, held, output, render, clock, writer, shown>>
<1> DEFINE f == FrameFor(pcm)
<1>1. /\ callback.at = "take" /\ callback' = [callback EXCEPT !.at = "enqueue", !.frame = f]
      /\ pcm' = Fill(TakeFrame(pcm, f), f, callback.packet, FrameLen)
      /\ UNCHANGED <<kind, pts, ctl, sys, input, held, output, render, clock, writer, shown>>
  BY DEF PcmTaken, lifecycle
<1>2. kind = "audio" /\ callback.packet \in Packets
  BY <1>1 DEF IInv, Calling
<1>3. f \in PcmIds
  BY <1>1, <1>2, FrameIs
<1> HIDE DEF f
<1>4. f # None
  BY <1>3, Ids DEF IInv
<1>5. pcm' = [alloc |-> pcm.alloc \cup {f}, free |-> pcm.free \ {f}, queue |-> pcm.queue,
                    of |-> [pcm.of EXCEPT ![f] = [packet |-> callback.packet, left |-> FrameLen]]]
  BY <1>1 DEF Fill, TakeFrame, IInv, Pooled
<1>6. callback' = [at |-> "enqueue", buf |-> callback.buf, packet |-> callback.packet, frame |-> f]
  BY <1>1 DEF IInv, Calling
<1> QED
  BY <1>1, <1>2, <1>3, <1>4, <1>5, <1>6 DEF f

\* OnNewOutputBuffer queues the frame and frees the buffer.
LEMMA QueuedDoes ==
  ASSUME IInv, PcmQueued
  PROVE  /\ callback.at = "enqueue" /\ kind = "audio" /\ callback.frame \in PcmIds /\ callback.frame # None
         /\ callback.buf \in OutBuffers /\ callback.packet \in Packets
         /\ callback' = NoCallback
         /\ output' = [free |-> output.free \cup {callback.buf}, queue |-> output.queue]
         /\ pcm' = [alloc |-> pcm.alloc, free |-> pcm.free, queue |-> Append(pcm.queue, callback.frame), of |-> pcm.of]
         /\ UNCHANGED <<kind, pts, ctl, sys, input, held, render, clock, writer, shown>>
<1>1. /\ callback.at = "enqueue" /\ kind = "audio" /\ callback' = NoCallback
      /\ pcm' = Enqueue(pcm, callback.frame) /\ output' = Freed(callback.buf)
      /\ UNCHANGED <<kind, pts, ctl, sys, input, held, render, clock, writer, shown>>
  BY DEF PcmQueued, lifecycle
<1>2. callback.frame \in PcmIds /\ callback.frame # None /\ callback.buf \in OutBuffers /\ callback.packet \in Packets
  BY <1>1 DEF IInv, Calling
<1>3. pcm' = [alloc |-> pcm.alloc, free |-> pcm.free, queue |-> Append(pcm.queue, callback.frame), of |-> pcm.of]
  BY <1>1 DEF Enqueue, IInv, Pooled
<1>4. output' = [free |-> output.free \cup {callback.buf}, queue |-> output.queue]
  BY <1>1 DEF Freed, IInv, Outputs
<1> QED
  BY <1>1, <1>2, <1>3, <1>4

\* OnAudioRendererWriteData returns a frame it has used up.
LEMMA RecyclesDoes ==
  ASSUME IInv, WriteRecycles
  PROVE  /\ writer.frame \in PcmIds /\ writer.frame # None /\ Left(writer.frame) = 0
         /\ pcm' = [alloc |-> pcm.alloc, free |-> pcm.free \cup {writer.frame}, queue |-> pcm.queue, of |-> pcm.of]
         /\ writer' = [frame |-> None, want |-> writer.want]
         /\ UNCHANGED <<kind, pts, ctl, sys, input, held, output, callback, render, clock, shown>>
<1>1. /\ writer.frame # None /\ pcm.of[writer.frame].left = 0
      /\ pcm' = [pcm EXCEPT !.free = @ \cup {writer.frame}] /\ writer' = [writer EXCEPT !.frame = None]
      /\ UNCHANGED <<kind, pts, ctl, sys, input, held, output, callback, render, clock, shown>>
  BY DEF WriteRecycles, Recycle, Exhausted, lifecycle
<1>2. writer.frame \in PcmIds /\ writer' = [frame |-> None, want |-> writer.want]
  BY <1>1 DEF IInv, Writing
<1>3. pcm' = [alloc |-> pcm.alloc, free |-> pcm.free \cup {writer.frame}, queue |-> pcm.queue, of |-> pcm.of]
  BY <1>1 DEF IInv, Pooled
<1> QED
  BY <1>1, <1>2, <1>3 DEF Left

\* OnAudioRendererWriteData takes the next frame,
LEMMA TakesDoes ==
  ASSUME IInv, WriteTakes, pcm.queue # <<>>
  PROVE  /\ writer.frame = None /\ pcm.queue[1] \in PcmIds /\ Tail(pcm.queue) \in Seq(PcmIds)
         /\ writer' = [frame |-> pcm.queue[1], want |-> writer.want]
         /\ pcm' = [alloc |-> pcm.alloc, free |-> pcm.free, queue |-> Tail(pcm.queue), of |-> pcm.of]
         /\ UNCHANGED <<kind, pts, ctl, sys, input, held, output, callback, render, clock, shown>>
<1>1. /\ writer.frame = None /\ writer' = [writer EXCEPT !.frame = Head(pcm.queue)]
      /\ pcm' = [pcm EXCEPT !.queue = Tail(@)]
      /\ UNCHANGED <<kind, pts, ctl, sys, input, held, output, callback, render, clock, shown>>
  BY DEF WriteTakes, lifecycle
<1>2. Head(pcm.queue) = pcm.queue[1] /\ pcm.queue[1] \in PcmIds /\ Tail(pcm.queue) \in Seq(PcmIds)
  BY HeadAndTail DEF IInv, Pooled
<1>3. writer' = [frame |-> pcm.queue[1], want |-> writer.want]
  BY <1>1, <1>2 DEF IInv, Writing
<1>4. pcm' = [alloc |-> pcm.alloc, free |-> pcm.free, queue |-> Tail(pcm.queue), of |-> pcm.of]
  BY <1>1 DEF IInv, Pooled
<1> QED
  BY <1>1, <1>2, <1>3, <1>4

\* or fills the rest with silence,
LEMMA SilenceDoes ==
  ASSUME IInv, WriteTakes, pcm.queue = <<>>
  PROVE  /\ writer.frame = None /\ writer' = [frame |-> None, want |-> 0] /\ UNCHANGED pcm
         /\ UNCHANGED <<kind, pts, ctl, sys, input, held, output, callback, render, clock, shown>>
  BY DEF WriteTakes, lifecycle, IInv, Writing

\* or copies as much as is left and wanted.
LEMMA CopiesDoes ==
  ASSUME IInv, WriteCopies
  PROVE  \E n \in Nat \ {0} :
         /\ writer.frame \in PcmIds /\ writer.frame # None /\ writer.want - n \in 0..Period
         /\ Left(writer.frame) - n \in 0..FrameLen /\ Left(writer.frame) # 0 /\ Pk(writer.frame) \in Packets
         /\ Left(writer.frame) \in Nat
         /\ pcm' = [alloc |-> pcm.alloc, free |-> pcm.free, queue |-> pcm.queue,
                    of |-> [pcm.of EXCEPT ![writer.frame] =
                              [packet |-> Pk(writer.frame), left |-> Left(writer.frame) - n]]]
         /\ writer' = [frame |-> writer.frame, want |-> writer.want - n]
         /\ shown' = shown \o [i \in 1..n |-> Pk(writer.frame)]
         /\ sys.renderer = "running"
         /\ UNCHANGED <<kind, pts, ctl, sys, input, held, output, callback, render, clock>>
<1> DEFINE f == writer.frame
           n == Least(pcm.of[f].left, writer.want)
<1>1. /\ writer.want > 0 /\ f # None /\ pcm.of[f].left # 0
      /\ pcm' = Fill(pcm, f, pcm.of[f].packet, pcm.of[f].left - n)
      /\ writer' = [writer EXCEPT !.want = @ - n]
      /\ shown' = shown \o [i \in 1..n |-> pcm.of[f].packet]
      /\ UNCHANGED <<kind, pts, ctl, sys, input, held, output, callback, render, clock>>
  BY DEF WriteCopies, Exhausted, lifecycle
<1>2. /\ f \in PcmIds /\ writer.want \in 0..Period /\ sys.renderer = "running"
      /\ pcm.of[f].left \in 0..FrameLen /\ pcm.of[f].packet \in Packets
  <2>1. f \in PcmIds /\ writer.want \in 0..Period /\ (writer.want # 0 => sys.renderer = "running")
    BY <1>1 DEF IInv, Writing
  <2>2. pcm.of[f] \in [packet : Packets \cup {0}, left : 0..FrameLen] /\ (pcm.of[f].left # 0 => pcm.of[f].packet # 0)
    BY <2>1 DEF IInv, Pooled
  <2> QED
    BY <1>1, <2>1, <2>2
<1>3. /\ n \in Nat \ {0} /\ n <= pcm.of[f].left /\ n <= writer.want /\ writer.want - n \in 0..Period
      /\ pcm.of[f].left - n \in 0..FrameLen /\ pcm.of[f].left \in Nat
  <2>1. ASSUME NEW l \in 0..FrameLen, NEW w \in 0..Period, l # 0, w > 0
        PROVE  /\ Least(l, w) \in Nat \ {0} /\ Least(l, w) <= l /\ Least(l, w) <= w
               /\ w - Least(l, w) \in 0..Period /\ l - Least(l, w) \in 0..FrameLen /\ l \in Nat
    BY <2>1, SizesAssumption DEF Least
  <2> QED
    BY <1>1, <1>2, <2>1
<1> HIDE DEF n
<1>4. writer' = [frame |-> f, want |-> writer.want - n]
  BY <1>1 DEF IInv, Writing
<1>5. pcm' = [alloc |-> pcm.alloc, free |-> pcm.free, queue |-> pcm.queue,
              of |-> [pcm.of EXCEPT ![f] = [packet |-> pcm.of[f].packet, left |-> pcm.of[f].left - n]]]
  BY <1>1 DEF Fill, IInv, Pooled
<1> QED
  BY <1>1, <1>2, <1>3, <1>4, <1>5 DEF Left, Pk

\* Release drops every queue.
LEMMA RestDoes ==
  ASSUME IInv, ReleaseRest
  PROVE  /\ ctl' = "released" /\ ctl = "release" /\ writer.want = 0
         /\ output' = [free |-> output.free, queue |-> <<>>]
         /\ pcm' = [alloc |-> {}, free |-> {}, queue |-> <<>>, of |-> pcm.of]
         /\ writer' = [frame |-> None, want |-> 0]
         /\ UNCHANGED <<kind, pts, input, held, callback, render, clock, shown>>
  BY DEF ReleaseRest, IInv, Outputs, Pooled, Writing

\* What each step does to the output buffers.
LEMMA OutputDoes ==
  ASSUME IInv, CodecOutput
  PROVE  /\ callback.at = "idle" /\ callback.buf = None /\ callback.frame = None
         /\ input.coded # <<>> /\ Head(input.coded) \in Packets
         /\ \E b \in output.free :
              /\ b \in OutBuffers /\ b # None
              /\ callback' = [at |-> "check", buf |-> b, packet |-> Head(input.coded), frame |-> None]
              /\ output' = [free |-> output.free \ {b}, queue |-> output.queue]
         /\ input' = [input EXCEPT !.coded = Tail(input.coded)] /\ sys.codec = "running"
         /\ UNCHANGED <<kind, pts, ctl, sys, held, render, clock, pcm, writer, shown>>
<1>1. PICK b \in output.free :
        /\ callback' = [at |-> "check", buf |-> b, packet |-> Head(input.coded), frame |-> None]
        /\ output' = [output EXCEPT !.free = @ \ {b}]
  BY DEF CodecOutput
<1>2. /\ input.coded # <<>> /\ input' = [input EXCEPT !.coded = Tail(@)] /\ sys.codec = "running" /\ callback.at = "idle"
      /\ UNCHANGED <<kind, pts, ctl, sys, held, render, clock, pcm, writer, shown>>
  BY DEF CodecOutput, lifecycle, audio
<1>3. Head(input.coded) \in Packets
  BY <1>2, HeadAndTail DEF IInv, Feeding
<1>4. b \in OutBuffers /\ output' = [free |-> output.free \ {b}, queue |-> output.queue]
  BY <1>1 DEF IInv, Outputs
<1>5. b # None
  BY <1>4, BuffersAssumption
<1>6. callback.buf = None /\ callback.frame = None
  BY <1>2 DEF IInv, Calling
<1> QED
  BY <1>1, <1>2, <1>3, <1>4, <1>5, <1>6

\* OnNewOutputBuffer frees a buffer it does not want.
LEMMA DroppedDoes ==
  ASSUME IInv, OutputDropped
  PROVE  /\ callback.at = "check" /\ callback.buf \in OutBuffers /\ callback.buf # None /\ callback.frame = None
         /\ callback' = NoCallback
         /\ output' = [free |-> output.free \cup {callback.buf}, queue |-> output.queue]
         /\ UNCHANGED <<kind, pts, ctl, sys, input, held, render, clock, pcm, writer, shown>>
<1>1. /\ callback.at = "check" /\ callback' = NoCallback /\ output' = Freed(callback.buf)
      /\ UNCHANGED <<kind, pts, ctl, sys, input, held, render, clock, pcm, writer, shown>>
  BY DEF OutputDropped, lifecycle, audio
<1>2. callback.buf \in OutBuffers /\ callback.buf # None /\ callback.frame = None
  BY <1>1 DEF IInv, Calling
<1> QED
  BY <1>1, <1>2 DEF Freed, IInv, Outputs

\* OnNewOutputBuffer queues a buffer for RenderOutputLoop.
LEMMA BufferedDoes ==
  ASSUME IInv, OutputQueued
  PROVE  /\ callback.at = "enqueue" /\ kind = "video" /\ callback.buf \in OutBuffers /\ callback.buf # None
         /\ callback.packet \in Packets /\ callback.frame = None
         /\ [buf |-> callback.buf, packet |-> callback.packet] \in Entry
         /\ callback' = NoCallback
         /\ output' = [free |-> output.free,
                       queue |-> Append(output.queue, [buf |-> callback.buf, packet |-> callback.packet])]
         /\ UNCHANGED <<kind, pts, ctl, sys, input, held, render, clock, pcm, writer, shown>>
<1>1. /\ callback.at = "enqueue" /\ kind = "video" /\ callback' = NoCallback
      /\ output' = [output EXCEPT !.queue = Append(@, [buf |-> callback.buf, packet |-> callback.packet])]
      /\ UNCHANGED <<kind, pts, ctl, sys, input, held, render, clock, pcm, writer, shown>>
  BY DEF OutputQueued, lifecycle, audio
<1>2. /\ callback.buf \in OutBuffers /\ callback.buf # None /\ callback.packet \in Packets /\ callback.frame = None
  BY <1>1 DEF IInv, Calling
<1>3. [buf |-> callback.buf, packet |-> callback.packet] \in Entry
  BY <1>2 DEF Entry
<1> QED
  BY <1>1, <1>2, <1>3 DEF IInv, Outputs

\* RenderOutputLoop takes the oldest buffer.
LEMMA RenderTakesDoes ==
  ASSUME IInv, RenderTakes
  PROVE  /\ output.queue # <<>> /\ output.queue[1] \in Entry /\ render.at = "wait" /\ render.buf = None
         /\ output.queue[1].buf \in OutBuffers /\ output.queue[1].buf # None /\ output.queue[1].packet \in Packets
         /\ Tail(output.queue) \in Seq(Entry)
         /\ render' = [at |-> "have", buf |-> output.queue[1].buf, packet |-> output.queue[1].packet,
                       firsts |-> render.firsts]
         /\ output' = [free |-> output.free, queue |-> Tail(output.queue)]
         /\ UNCHANGED <<kind, pts, ctl, sys, input, held, callback, clock, pcm, writer, shown>>
<1>1. /\ output.queue # <<>> /\ output.queue \in Seq(Entry) /\ render.at = "wait"
      /\ render' = [render EXCEPT !.at = "have", !.buf = Head(output.queue).buf,
                                  !.packet = Head(output.queue).packet]
      /\ output' = [output EXCEPT !.queue = Tail(@)]
      /\ UNCHANGED <<kind, pts, ctl, sys, input, held, callback, clock, pcm, writer, shown>>
  BY DEF RenderTakes, lifecycle, audio, IInv, Outputs
<1>2. /\ output.queue[1] \in Entry /\ Head(output.queue) = output.queue[1] /\ Tail(output.queue) \in Seq(Entry)
  BY <1>1, HeadAndTail
<1>3. output.queue[1].buf \in OutBuffers /\ output.queue[1].packet \in Packets
  BY <1>2 DEF Entry
<1>4. output.queue[1].buf # None
  BY <1>3, BuffersAssumption
<1>5. output' = [free |-> output.free, queue |-> Tail(output.queue)]
  BY <1>1 DEF IInv, Outputs
<1>6. /\ render.buf = None
      /\ render' = [at |-> "have", buf |-> output.queue[1].buf, packet |-> output.queue[1].packet,
                    firsts |-> render.firsts]
  BY <1>1, <1>2 DEF IInv, Rendering
<1> QED
  BY <1>1, <1>2, <1>3, <1>4, <1>5, <1>6

\* The frame is not shown.
Frees == RenderFrees \/ (RenderHas /\ ~running)
\* RenderOutputLoop frees a buffer it does not show.
LEMMA FreesDoes ==
  ASSUME IInv, Frees
  PROVE  /\ render.at \in {"have", "pace"} /\ render.buf \in OutBuffers /\ render.buf # None /\ render.packet \in Packets
         /\ render' = [at |-> "wait", buf |-> None, packet |-> 0, firsts |-> render.firsts]
         /\ output' = [free |-> output.free \cup {render.buf}, queue |-> output.queue]
         /\ UNCHANGED <<kind, pts, ctl, sys, input, held, callback, clock, pcm, writer, shown>>
<1>1. render.at \in {"have", "pace"} /\ FreesBuffer
      /\ UNCHANGED <<kind, pts, ctl, sys, input, held, callback, pcm, writer>>
  BY DEF Frees, RenderFrees, RenderHas, lifecycle, audio
<1>2. render.buf \in OutBuffers /\ render.buf # None /\ render.packet \in Packets
  BY <1>1 DEF IInv, Rendering
<1>3. /\ render' = [at |-> "wait", buf |-> None, packet |-> 0, firsts |-> render.firsts]
      /\ UNCHANGED <<clock, shown>>
  BY <1>1 DEF FreesBuffer, RenderWaits, IInv, Rendering
<1>4. output' = [free |-> output.free \cup {render.buf}, queue |-> output.queue]
  BY <1>1 DEF FreesBuffer, Freed, IInv, Outputs
<1> QED
  BY <1>1, <1>2, <1>3, <1>4

\* Its time is set.
LEMMA PacesDoes ==
  ASSUME IInv, RenderHas, running
  PROVE  /\ render.at = "have" /\ render.buf \in OutBuffers /\ render.packet \in Packets /\ pts[render.packet] \in Int
         /\ render' = [at |-> "pace", buf |-> render.buf, packet |-> render.packet, firsts |-> render.firsts]
         /\ clock' = Target(clock, pts[render.packet])
         /\ UNCHANGED <<kind, pts, ctl, sys, input, held, output, callback, pcm, writer, shown>>
<1>1. /\ render.at = "have" /\ clock' = Target(clock, pts[render.packet]) /\ render' = [render EXCEPT !.at = "pace"]
      /\ UNCHANGED <<kind, pts, ctl, sys, input, held, output, callback, pcm, writer, shown>>
  BY DEF RenderHas, lifecycle, audio
<1>2. render.buf \in OutBuffers /\ render.packet \in Packets
  BY <1>1 DEF IInv, Rendering
<1>3. pts[render.packet] \in Int
  BY <1>2, ElementOfSeq, LenProperties DEF IInv, Control, Packets
<1>4. render' = [at |-> "pace", buf |-> render.buf, packet |-> render.packet, firsts |-> render.firsts]
  BY <1>1 DEF IInv, Rendering
<1> QED
  BY <1>1, <1>2, <1>3, <1>4

\* It is shown.
LEMMA ShowsDoes ==
  ASSUME IInv, RenderShows
  PROVE  /\ render.at = "pace" /\ render.buf \in OutBuffers /\ render.buf # None /\ render.packet \in Packets
         /\ shown' = Append(shown, render.packet) /\ render.firsts \in Nat /\ kind = "video"
         /\ render' = [at |-> "wait", buf |-> None, packet |-> 0,
                       firsts |-> IF shown = <<>> THEN render.firsts + 1 ELSE render.firsts]
         /\ output' = [free |-> output.free \cup {render.buf}, queue |-> output.queue]
         /\ UNCHANGED <<kind, pts, ctl, sys, input, held, callback, clock, pcm, writer>>
<1>1. /\ render.at = "pace" /\ shown' = Append(shown, render.packet) /\ output' = Freed(render.buf)
      /\ render' = [RenderWaits EXCEPT !.firsts = IF shown = <<>> THEN @ + 1 ELSE @]
      /\ UNCHANGED <<kind, pts, ctl, sys, input, held, callback, clock, pcm, writer>>
  BY DEF RenderShows, lifecycle, audio
<1>2. /\ render.buf \in OutBuffers /\ render.buf # None /\ render.packet \in Packets /\ render.firsts \in Nat
      /\ kind = "video"
  BY <1>1 DEF IInv, Rendering
<1>3. render' = [at |-> "wait", buf |-> None, packet |-> 0,
                 firsts |-> IF shown = <<>> THEN render.firsts + 1 ELSE render.firsts]
  BY <1>1 DEF RenderWaits, IInv, Rendering
<1>4. output' = [free |-> output.free \cup {render.buf}, queue |-> output.queue]
  BY <1>1 DEF Freed, IInv, Outputs
<1> QED
  BY <1>1, <1>2, <1>3, <1>4

\* A target is never further away than the cap.
LEMMA TargetIs ==
  ASSUME NEW c \in [set : BOOLEAN, pts : Int, slack : Int], NEW t \in Int
  PROVE  /\ Target(c, t) \in [set : BOOLEAN, pts : Int, slack : Int]
         /\ Target(c, t).slack <= LeadCap
<1>1. CASE t < 0
  BY <1>1, SizesAssumption DEF Target, NoClock
<1>2. CASE ~(t < 0)
  <2> DEFINE delta == t - c.pts
             next == c.slack + delta
             paced == /\ c.set /\ delta >= 0 /\ delta <= GapLimit
                      /\ next <= MaxLead(delta) /\ -next <= LagLimit
             s == IF paced THEN next ELSE 0
  <2>1. delta \in Int /\ next \in Int /\ LeadCap \in Nat /\ Interval \in Int /\ Tolerance \in Int
    BY SizesAssumption
  <2>2. Target(c, t) = [set |-> TRUE, pts |-> t, slack |-> s]
    BY <1>2 DEF Target
  <2>3. ASSUME NEW d \in Int PROVE MaxLead(d) \in Int /\ MaxLead(d) <= LeadCap
    BY <2>1 DEF MaxLead, Least, Most
  <2>4. s \in Int /\ s <= LeadCap
    <3>1. CASE paced
      <4>1. next <= MaxLead(delta) /\ s = next
        BY <3>1
      <4>2. MaxLead(delta) \in Int /\ MaxLead(delta) <= LeadCap
        BY <2>1, <2>3
      <4> HIDE DEF next, delta, s
      <4> QED
        BY <2>1, <4>1, <4>2
    <3>2. CASE ~paced
      BY <2>1, <3>2
    <3> QED
      BY <3>1, <3>2
  <2> HIDE DEF s
  <2> QED
    BY <2>2, <2>4
<1> QED
  BY <1>1, <1>2

\* Lengths are numbers.
LEMMA QueueLength ==
  ASSUME IInv
  PROVE  PoolSize \in Nat /\ Len(pcm.queue) \in Nat /\ input.fed \in Nat
<1>1. pcm.queue \in Seq(PcmIds) /\ input.fed \in 0..Len(pts)
  BY DEF IInv, Pooled, Feeding
<1>2. Len(pts) \in Nat
  BY Ids DEF IInv
<1> QED
  BY <1>1, <1>2, LenProperties, SizesAssumption

\* A copy moves no frame.
LEMMA CopiesMoveNothing ==
  ASSUME IInv, WriteCopies
  PROVE  /\ pcm'.alloc = pcm.alloc /\ pcm'.free = pcm.free /\ pcm'.queue = pcm.queue
         /\ writer'.frame = writer.frame /\ writer.frame \in PcmIds
         /\ UNCHANGED <<kind, pts, ctl, sys, input, held, output, callback, render, clock>>
<1>1. PICK n \in Nat \ {0} :
        /\ pcm' = [alloc |-> pcm.alloc, free |-> pcm.free, queue |-> pcm.queue,
                   of |-> [pcm.of EXCEPT ![writer.frame] =
                              [packet |-> Pk(writer.frame), left |-> Left(writer.frame) - n]]]
        /\ writer' = [frame |-> writer.frame, want |-> writer.want - n] /\ writer.frame \in PcmIds
        /\ UNCHANGED <<kind, pts, ctl, sys, input, held, output, callback, render, clock>>
  BY CopiesDoes
<1> QED
  BY <1>1

\* How often a packet is in a sequence, and a sequence with n more copies of one.
Count(q, k) == Cardinality({i \in DOMAIN q : q[i] = k})
Extended(q, r, x, n) ==
  /\ Len(r) = Len(q) + n
  /\ \A i \in 1..Len(q) : r[i] = q[i]
  /\ \A i \in Len(q) + 1..Len(q) + n : r[i] = x

\* A longer queue has the old places and the new one.
LEMMA Appending ==
  ASSUME NEW S, NEW q \in Seq(S), NEW x \in S
  PROVE  Append(q, x) \in Seq(S) /\ Extended(q, Append(q, x), x, 1)
<1>1. /\ Append(q, x) \in Seq(S) /\ Len(q) \in Nat /\ Len(Append(q, x)) = Len(q) + 1
      /\ Append(q, x)[Len(q) + 1] = x
      /\ \A i \in 1..Len(q) : Append(q, x)[i] = q[i]
  BY Appended
<1>2. \A i \in Len(q) + 1..Len(q) + 1 : i = Len(q) + 1
  BY <1>1
<1> QED
  BY <1>1, <1>2 DEF Extended

\* Announcing a packet n times adds n to its count and nothing to the others.
LEMMA Copying ==
  ASSUME NEW S, NEW q \in Seq(S), NEW x \in S, NEW n \in Nat
  PROVE  /\ q \o [i \in 1..n |-> x] \in Seq(S)
         /\ Extended(q, q \o [i \in 1..n |-> x], x, n)
<1> DEFINE c == [i \in 1..n |-> x]
<1>1. c \in Seq(S) /\ Len(c) = n /\ \A i \in 1..n : c[i] = x
  OBVIOUS
<1> HIDE DEF c
<1>2. /\ q \o c \in Seq(S) /\ Len(q \o c) = Len(q) + n /\ Len(q) \in Nat
      /\ \A i \in 1..Len(q) + n : (q \o c)[i] = IF i <= Len(q) THEN q[i] ELSE c[i - Len(q)]
  BY <1>1, ConcatProperties, LenProperties
<1>3. \A i \in Len(q) + 1..Len(q) + n : i - Len(q) \in 1..n /\ ~(i <= Len(q)) /\ i \in 1..Len(q) + n
  BY <1>2
<1>4. \A i \in 1..Len(q) : i <= Len(q) /\ i \in 1..Len(q) + n
  BY <1>2
<1>5. \A i \in 1..Len(q) : (q \o c)[i] = q[i]
  BY <1>2, <1>4
<1>6. \A i \in Len(q) + 1..Len(q) + n : (q \o c)[i] = x
  BY <1>1, <1>2, <1>3
<1> QED
  BY <1>2, <1>5, <1>6 DEF Extended, c

\* A count is a number, and it is zero for what is not there.
LEMMA Counted ==
  ASSUME NEW S, NEW q \in Seq(S), NEW k
  PROVE  /\ IsFiniteSet({i \in DOMAIN q : q[i] = k}) /\ Count(q, k) \in Nat
         /\ k \notin Elems(q) <=> Count(q, k) = 0
<1> DEFINE D == {i \in DOMAIN q : q[i] = k}
<1>1. DOMAIN q = 1..Len(q) /\ Len(q) \in Nat
  BY LenProperties
<1>2. IsFiniteSet(1..Len(q))
  <2>1. 1 \in Int /\ Len(q) \in Int
    BY <1>1
  <2> QED
    BY <2>1, FS_Interval
<1>3. IsFiniteSet(D) /\ Cardinality(D) \in Nat
  BY <1>1, <1>2, FS_Subset, FS_CardinalityType
<1>4. Cardinality(D) = 0 <=> D = {}
  BY <1>3, FS_EmptySet
<1>5. D = {} <=> k \notin Elems(q)
  BY <1>1 DEF Elems
<1> QED
  BY <1>3, <1>4, <1>5 DEF Count

\* How often a packet is announced after more announcements.
LEMMA CountsOf ==
  ASSUME NEW S, NEW q \in Seq(S), NEW r \in Seq(S), NEW x \in S, NEW n \in Nat, Extended(q, r, x, n)
  PROVE  /\ \A k : k # x => Count(r, k) = Count(q, k)
         /\ Count(r, x) = Count(q, x) + n
         /\ n # 0 => Elems(r) = Elems(q) \cup {x}
<1>1. /\ DOMAIN q = 1..Len(q) /\ Len(q) \in Nat /\ DOMAIN r = 1..Len(r) /\ Len(r) = Len(q) + n
      /\ \A i \in 1..Len(q) : r[i] = q[i]
      /\ \A i \in Len(q) + 1..Len(q) + n : r[i] = x
  BY LenProperties DEF Extended
<1>2. \A i : i \in DOMAIN r <=> i \in DOMAIN q \/ i \in Len(q) + 1..Len(q) + n
  BY <1>1
<1>3. ASSUME NEW k, k # x
      PROVE  Count(r, k) = Count(q, k)
  <2>1. {i \in DOMAIN r : r[i] = k} = {i \in DOMAIN q : q[i] = k}
    BY <1>1, <1>2, <1>3
  <2> QED
    BY <2>1 DEF Count
<1>4. Count(r, x) = Count(q, x) + n
  <2> DEFINE D == {i \in DOMAIN q : q[i] = x}
             E == Len(q) + 1..Len(q) + n
  <2>1. {i \in DOMAIN r : r[i] = x} = D \cup E
    BY <1>1, <1>2
  <2>2. IsFiniteSet(D) /\ Cardinality(D) \in Nat
    BY Counted, FS_CardinalityType
  <2>3. IsFiniteSet(E) /\ Cardinality(E) = n
    <3>1. Len(q) + 1 \in Int /\ Len(q) + n \in Int
      BY <1>1
    <3>2. /\ IsFiniteSet(E)
          /\ Cardinality(E) = IF Len(q) + 1 > Len(q) + n THEN 0 ELSE Len(q) + n - (Len(q) + 1) + 1
      <4> DEFINE a == Len(q) + 1
                 b == Len(q) + n
      <4>1. a \in Int /\ b \in Int
        BY <3>1
      <4> HIDE DEF a, b
      <4>2. IsFiniteSet(a..b) /\ Cardinality(a..b) = IF a > b THEN 0 ELSE b - a + 1
        BY <4>1, FS_Interval
      <4> QED
        BY <4>2 DEF a, b
    <3> HIDE DEF E
    <3> QED
      BY <1>1, <3>2
  <2>4. D \cap E = {}
    BY <1>1
  <2> HIDE DEF D, E
  <2>5. Cardinality(D \cup E) = Cardinality(D) + Cardinality(E) - Cardinality(D \cap E)
    BY <2>2, <2>3, FS_Union
  <2>6. Cardinality(D \cap E) = 0
    BY <2>4, FS_EmptySet
  <2>7. Cardinality(D \cup E) = Cardinality(D) + n
    BY <2>2, <2>3, <2>5, <2>6
  <2> QED
    BY <2>1, <2>7 DEF Count, D
<1>5. ASSUME n # 0
      PROVE  Elems(r) = Elems(q) \cup {x}
  <2>1. Len(q) + 1 \in Len(q) + 1..Len(q) + n
    BY <1>1, <1>5
  <2> QED
    BY <1>1, <1>2, <2>1 DEF Elems
<1> QED
  BY <1>3, <1>4, <1>5

\* What is shown stays in order when copies of the next packet follow.
Rising(q, t, once) ==
  \A i \in 2..Len(q) :
     \/ q[i - 1] < q[i] /\ Count(q, q[i - 1]) = t
     \/ q[i - 1] = q[i] /\ ~once
\* A rising announcement goes on rising.
LEMMA RisingOn ==
  ASSUME NEW S \in SUBSET Nat, NEW q \in Seq(S), NEW r \in Seq(S), NEW x \in S, NEW n \in Nat \ {0}, NEW t, NEW once \in BOOLEAN,
         Extended(q, r, x, n), Rising(q, t, once),
         \A y \in Elems(q) : y # x => y < x /\ Count(q, y) = t,
         once => n = 1 /\ x \notin Elems(q)
  PROVE  Rising(r, t, once)
<1>1. /\ Len(q) \in Nat /\ Len(r) = Len(q) + n
      /\ \A i \in 1..Len(q) : r[i] = q[i] /\ q[i] \in S
      /\ \A i \in Len(q) + 1..Len(q) + n : r[i] = x
  BY Elements DEF Extended
<1>2. \A k : k # x => Count(r, k) = Count(q, k)
  BY CountsOf
<1>3. ASSUME NEW i \in 2..Len(r)
      PROVE  \/ r[i - 1] < r[i] /\ Count(r, r[i - 1]) = t
             \/ r[i - 1] = r[i] /\ ~once
  <2>1. CASE i <= Len(q)
    <3>1. i \in 2..Len(q) /\ i \in 1..Len(q) /\ i - 1 \in 1..Len(q)
      BY <1>1, <2>1
    <3>2. r[i] = q[i] /\ r[i - 1] = q[i - 1] /\ q[i] \in S /\ q[i - 1] \in S
      BY <1>1, <3>1
    <3>3. CASE q[i - 1] < q[i] /\ Count(q, q[i - 1]) = t
      <4>1. q[i - 1] # x
        <5>1. q[i] \in Elems(q)
          BY <3>1 DEF Elems
        <5>2. q[i] \in Nat /\ x \in Nat
          BY <3>2
        <5>3. ASSUME q[i - 1] = x PROVE FALSE
          <6>1. x < q[i] /\ q[i] # x
            BY <3>3, <5>2, <5>3
          <6>2. q[i] < x
            BY <5>1, <6>1
          <6> QED
            BY <5>2, <6>1, <6>2
        <5> QED
          BY <5>3
      <4> QED
        BY <1>2, <3>2, <3>3, <4>1
    <3> QED
      BY <3>1, <3>2, <3>3 DEF Rising
  <2>2. CASE i = Len(q) + 1
    <3>1. i - 1 \in 1..Len(q) /\ i \in Len(q) + 1..Len(q) + n
      BY <1>1, <2>2
    <3>2. r[i] = x /\ r[i - 1] = q[i - 1] /\ q[i - 1] \in Elems(q)
      BY <1>1, <3>1 DEF Elems
    <3> QED
      BY <1>2, <3>2
  <2>3. CASE i > Len(q) + 1
    <3>1. i \in Len(q) + 1..Len(q) + n /\ i - 1 \in Len(q) + 1..Len(q) + n /\ n # 1
      BY <1>1, <2>3
    <3> QED
      BY <1>1, <3>1
  <2> QED
    BY <1>1, <2>1, <2>2, <2>3
<1> QED
  BY <1>3 DEF Rising

\* A packet that moves to an earlier place in the line, over empty places.
LEMMA Moves ==
  ASSUME NEW S, NEW T, NEW m \in 0..5, NEW n \in 0..5, m < n, NEW h \in S[n], Line(S),
         \A i \in 0..5 : i # m => T[i] \subseteq S[i],
         T[m] \subseteq S[m] \cup {h},
         \A i \in 0..5 : m < i /\ i < n => T[i] = {},
         \A x \in T[n] : h < x
  PROVE  Line(T)
<1> SUFFICES ASSUME NEW a \in 0..5, NEW b \in 0..5, a < b, NEW x \in T[a], NEW y \in T[b]
             PROVE  x < y
  BY DEF Line, Before
<1>1. \A p \in 0..5, r \in 0..5 : p < r => \A u \in S[p], w \in S[r] : u < w
  BY DEF Line, Before
<1>2. CASE a = m /\ x = h
  <2>1. CASE b < n
    BY <1>2, <2>1
  <2>2. CASE b = n
    BY <1>2, <2>2
  <2>3. CASE b > n
    <3>1. y \in S[b]
      BY <1>2, <2>3
    <3> QED
      BY <1>1, <1>2, <2>3, <3>1
  <2> QED
    BY <2>1, <2>2, <2>3
<1>3. CASE b = m /\ y = h
  <2>1. x \in S[a] /\ a < n
    BY <1>3
  <2> QED
    BY <1>1, <1>3, <2>1
<1>4. CASE ~(a = m /\ x = h) /\ ~(b = m /\ y = h)
  <2>1. x \in S[a] /\ y \in S[b]
    BY <1>4
  <2> QED
    BY <1>1, <2>1
<1> QED
  BY <1>2, <1>3, <1>4

\* Packets that leave the line.
LEMMA Thins ==
  ASSUME NEW S, NEW T, Line(S), \A i \in 0..5 : T[i] \subseteq S[i]
  PROVE  Line(T)
  BY DEF Line, Before

\* The queues of packets when one is appended, and when the head is taken.
LEMMA OutAppended ==
  ASSUME NEW q \in Seq(Entry), NEW e \in Entry
  PROVE  /\ OutPackets(Append(q, e)) = OutPackets(q) \cup {e.packet}
         /\ BySequence(q) /\ (\A x \in OutPackets(q) : x < e.packet) => BySequence(Append(q, e))
<1>1. /\ Len(q) \in Nat /\ Len(Append(q, e)) = Len(q) + 1 /\ Append(q, e)[Len(q) + 1] = e
      /\ \A i \in 1..Len(q) : Append(q, e)[i] = q[i]
  BY Appended
<1>2. /\ \A i \in 1..Len(Append(q, e)) : i = Len(q) + 1 \/ i \in 1..Len(q)
      /\ \A i \in 1..Len(q) : i \in 1..Len(Append(q, e)) /\ i < Len(q) + 1
      /\ Len(q) + 1 \in 1..Len(Append(q, e))
  BY <1>1
<1>3. OutPackets(Append(q, e)) = OutPackets(q) \cup {e.packet}
  BY <1>1, <1>2 DEF OutPackets
<1>4. ASSUME BySequence(q), \A x \in OutPackets(q) : x < e.packet,
             NEW i \in 1..Len(Append(q, e)), NEW j \in 1..Len(Append(q, e)), i < j
      PROVE  Append(q, e)[i].packet < Append(q, e)[j].packet
  <2>1. i \in 1..Len(q)
    BY <1>1, <1>4
  <2>2. q[i].packet \in OutPackets(q)
    BY <2>1 DEF OutPackets
  <2> QED
    BY <1>1, <1>2, <1>4, <2>1, <2>2 DEF BySequence
<1> QED
  BY <1>3, <1>4 DEF BySequence

\* Taking the oldest buffer keeps the order.
LEMMA OutTailed ==
  ASSUME NEW q \in Seq(Entry), q # <<>>
  PROVE  /\ OutPackets(q) = OutPackets(Tail(q)) \cup {q[1].packet}
         /\ BySequence(q) => /\ BySequence(Tail(q))
                             /\ \A x \in OutPackets(Tail(q)) : q[1].packet < x
<1>1. /\ Len(q) \in Nat \ {0} /\ Len(Tail(q)) = Len(q) - 1
      /\ \A i \in 1..Len(Tail(q)) : Tail(q)[i] = q[i + 1]
  BY HeadAndTail
<1>2. /\ \A i \in 1..Len(q) : i = 1 \/ (i - 1 \in 1..Len(Tail(q)) /\ Tail(q)[i - 1] = q[i])
      /\ \A i \in 1..Len(Tail(q)) : i + 1 \in 1..Len(q) /\ 1 < i + 1
      /\ 1 \in 1..Len(q)
  BY <1>1
<1>3. OutPackets(q) = OutPackets(Tail(q)) \cup {q[1].packet}
  BY <1>1, <1>2 DEF OutPackets
<1>4. ASSUME BySequence(q)
      PROVE  /\ BySequence(Tail(q))
             /\ \A x \in OutPackets(Tail(q)) : q[1].packet < x
  <2>1. ASSUME NEW i \in 1..Len(Tail(q)), NEW j \in 1..Len(Tail(q)), i < j
        PROVE  Tail(q)[i].packet < Tail(q)[j].packet
    <3>1. i + 1 < j + 1
      BY <1>1, <2>1
    <3> QED
      BY <1>1, <1>2, <1>4, <3>1 DEF BySequence
  <2>2. ASSUME NEW i \in 1..Len(Tail(q)) PROVE q[1].packet < Tail(q)[i].packet
    BY <1>1, <1>2, <1>4 DEF BySequence
  <2> QED
    BY <2>1, <2>2 DEF BySequence, OutPackets
<1> QED
  BY <1>3, <1>4

\* Feeding the next packet keeps the order.
LEMMA CodedAppended ==
  ASSUME NEW S, NEW q \in Seq(S), NEW e \in S
  PROVE  /\ Elems(Append(q, e)) = Elems(q) \cup {e}
         /\ Rises(q) /\ (\A x \in Elems(q) : x < e) => Rises(Append(q, e))
<1>1. /\ Len(q) \in Nat /\ Len(Append(q, e)) = Len(q) + 1 /\ Append(q, e)[Len(q) + 1] = e
      /\ \A i \in 1..Len(q) : Append(q, e)[i] = q[i]
  BY Appended
<1>2. /\ \A i \in 1..Len(Append(q, e)) : i = Len(q) + 1 \/ i \in 1..Len(q)
      /\ \A i \in 1..Len(q) : i \in 1..Len(Append(q, e)) /\ i < Len(q) + 1
      /\ Len(q) + 1 \in 1..Len(Append(q, e))
  BY <1>1
<1>3. Elems(Append(q, e)) = Elems(q) \cup {e}
  BY <1>1, <1>2 DEF Elems
<1>4. ASSUME Rises(q), \A x \in Elems(q) : x < e,
             NEW i \in 1..Len(Append(q, e)), NEW j \in 1..Len(Append(q, e)), i < j
      PROVE  Append(q, e)[i] < Append(q, e)[j]
  <2>1. i \in 1..Len(q)
    BY <1>1, <1>4
  <2>2. q[i] \in Elems(q)
    BY <2>1 DEF Elems
  <2> QED
    BY <1>1, <1>2, <1>4, <2>1, <2>2 DEF Rises
<1> QED
  BY <1>3, <1>4 DEF Rises

\* A packet that leaves the codec keeps the order.
LEMMA CodedTailed ==
  ASSUME NEW S, NEW q \in Seq(S), q # <<>>
  PROVE  /\ Elems(q) = Elems(Tail(q)) \cup {q[1]}
         /\ Rises(q) => /\ Rises(Tail(q))
                        /\ \A x \in Elems(Tail(q)) : q[1] < x
<1>1. /\ Len(q) \in Nat \ {0} /\ Len(Tail(q)) = Len(q) - 1
      /\ \A i \in 1..Len(Tail(q)) : Tail(q)[i] = q[i + 1]
  BY HeadAndTail
<1>2. /\ \A i \in 1..Len(q) : i = 1 \/ (i - 1 \in 1..Len(Tail(q)) /\ Tail(q)[i - 1] = q[i])
      /\ \A i \in 1..Len(Tail(q)) : i + 1 \in 1..Len(q) /\ 1 < i + 1
      /\ 1 \in 1..Len(q)
  BY <1>1
<1>3. Elems(q) = Elems(Tail(q)) \cup {q[1]}
  <2>1. \A i \in 1..Len(q) : q[i] = q[1] \/ q[i] \in Elems(Tail(q))
    BY <1>2 DEF Elems
  <2>2. \A i \in 1..Len(Tail(q)) : Tail(q)[i] \in Elems(q)
    BY <1>1, <1>2 DEF Elems
  <2>3. q[1] \in Elems(q)
    BY <1>2 DEF Elems
  <2> QED
    BY <2>1, <2>2, <2>3 DEF Elems
<1>4. ASSUME Rises(q)
      PROVE  /\ Rises(Tail(q))
             /\ \A x \in Elems(Tail(q)) : q[1] < x
  <2>1. ASSUME NEW i \in 1..Len(Tail(q)), NEW j \in 1..Len(Tail(q)), i < j
        PROVE  Tail(q)[i] < Tail(q)[j]
    <3>1. i + 1 < j + 1
      BY <1>1, <2>1
    <3> QED
      BY <1>1, <1>2, <1>4, <3>1 DEF Rises
  <2>2. ASSUME NEW i \in 1..Len(Tail(q)) PROVE q[1] < Tail(q)[i]
    BY <1>1, <1>2, <1>4 DEF Rises
  <2> QED
    BY <2>1, <2>2 DEF Rises, Elems
<1> QED
  BY <1>3, <1>4

\* Queueing a frame keeps the order.
LEMMA PcmAppended ==
  ASSUME NEW S, NEW q \in Seq(S), NEW f \in S, NEW of
  PROVE  /\ of[f].left = 0 => Loaded(Append(q, f), of) = Loaded(q, of)
         /\ of[f].left # 0 => Loaded(Append(q, f), of) = Loaded(q, of) \cup {of[f].packet}
         /\ WholeIn(q, of) /\ of[f].left \in {0, FrameLen} => WholeIn(Append(q, f), of)
         /\ ByContent(q, of) /\ (of[f].left # 0 => \A x \in Loaded(q, of) : x < of[f].packet)
              => ByContent(Append(q, f), of)
<1>1. /\ Len(q) \in Nat /\ Len(Append(q, f)) = Len(q) + 1 /\ Append(q, f)[Len(q) + 1] = f
      /\ \A i \in 1..Len(q) : Append(q, f)[i] = q[i]
  BY Appended
<1>2. /\ \A i \in 1..Len(Append(q, f)) : i = Len(q) + 1 \/ i \in 1..Len(q)
      /\ \A i \in 1..Len(q) : i \in 1..Len(Append(q, f)) /\ i < Len(q) + 1
      /\ Len(q) + 1 \in 1..Len(Append(q, f))
  BY <1>1
<1>3. /\ of[f].left = 0 => Loaded(Append(q, f), of) = Loaded(q, of)
      /\ of[f].left # 0 => Loaded(Append(q, f), of) = Loaded(q, of) \cup {of[f].packet}
  BY <1>1, <1>2 DEF Loaded
<1>4. WholeIn(q, of) /\ of[f].left \in {0, FrameLen} => WholeIn(Append(q, f), of)
  BY <1>1, <1>2 DEF WholeIn
<1>5. ASSUME ByContent(q, of), of[f].left # 0 => \A x \in Loaded(q, of) : x < of[f].packet,
             NEW i \in 1..Len(Append(q, f)), NEW j \in 1..Len(Append(q, f)), i < j,
             of[Append(q, f)[i]].left # 0, of[Append(q, f)[j]].left # 0
      PROVE  of[Append(q, f)[i]].packet < of[Append(q, f)[j]].packet
  <2>1. i \in 1..Len(q)
    BY <1>1, <1>5
  <2>2. of[q[i]].packet \in Loaded(q, of)
    BY <1>1, <1>5, <2>1 DEF Loaded
  <2> QED
    BY <1>1, <1>2, <1>5, <2>1, <2>2 DEF ByContent
<1> QED
  BY <1>3, <1>4, <1>5 DEF ByContent

\* Taking the oldest frame keeps the order.
LEMMA PcmTailed ==
  ASSUME NEW S, NEW q \in Seq(S), q # <<>>, NEW of
  PROVE  /\ Loaded(Tail(q), of) \subseteq Loaded(q, of)
         /\ of[q[1]].left # 0 => of[q[1]].packet \in Loaded(q, of)
         /\ WholeIn(q, of) => WholeIn(Tail(q), of) /\ of[q[1]].left \in {0, FrameLen}
         /\ ByContent(q, of) => /\ ByContent(Tail(q), of)
                                /\ of[q[1]].left # 0 => \A x \in Loaded(Tail(q), of) : of[q[1]].packet < x
<1>1. /\ Len(q) \in Nat \ {0} /\ Len(Tail(q)) = Len(q) - 1
      /\ \A i \in 1..Len(Tail(q)) : Tail(q)[i] = q[i + 1]
  BY HeadAndTail
<1>2. /\ \A i \in 1..Len(Tail(q)) : i + 1 \in 1..Len(q) /\ 1 < i + 1
      /\ 1 \in 1..Len(q)
  BY <1>1
<1>3. /\ Loaded(Tail(q), of) \subseteq Loaded(q, of)
      /\ of[q[1]].left # 0 => of[q[1]].packet \in Loaded(q, of)
  BY <1>1, <1>2 DEF Loaded
<1>4. WholeIn(q, of) => WholeIn(Tail(q), of) /\ of[q[1]].left \in {0, FrameLen}
  BY <1>1, <1>2 DEF WholeIn
<1>5. ASSUME ByContent(q, of)
      PROVE  /\ ByContent(Tail(q), of)
             /\ of[q[1]].left # 0 => \A x \in Loaded(Tail(q), of) : of[q[1]].packet < x
  <2>1. ASSUME NEW i \in 1..Len(Tail(q)), NEW j \in 1..Len(Tail(q)), i < j,
               of[Tail(q)[i]].left # 0, of[Tail(q)[j]].left # 0
        PROVE  of[Tail(q)[i]].packet < of[Tail(q)[j]].packet
    <3>1. i + 1 < j + 1
      BY <1>1, <2>1
    <3> QED
      BY <1>1, <1>2, <1>5, <2>1, <3>1 DEF ByContent
  <2>2. ASSUME NEW i \in 1..Len(Tail(q)), of[q[1]].left # 0, of[Tail(q)[i]].left # 0
        PROVE  of[q[1]].packet < of[Tail(q)[i]].packet
    BY <1>1, <1>2, <1>5, <2>2 DEF ByContent
  <2> QED
    BY <2>1, <2>2 DEF ByContent, Loaded
<1> QED
  BY <1>3, <1>4, <1>5

\* The content of a frame that is not in the queue does not matter to it.
LEMMA Elsewhere ==
  ASSUME IInv, NEW f, NEW c, ~In(pcm.queue, f), NEW o, o = [pcm.of EXCEPT ![f] = c]
  PROVE  /\ Loaded(pcm.queue, o) = Loaded(pcm.queue, pcm.of)
         /\ WholeIn(pcm.queue, o) /\ ByContent(pcm.queue, o)
<1> DEFINE q == pcm.queue
           of == pcm.of
           T == [packet : Packets \cup {0}, left : 0..FrameLen]
<1>0. q \in Seq(PcmIds) /\ of \in [PcmIds -> T] /\ WholeIn(q, of) /\ ByContent(q, of)
  BY DEF IInv, Pooled, Whole, Sorted
<1> HIDE DEF q, of, T
<1>1. \A i \in 1..Len(q) : o[q[i]] = of[q[i]]
  <2>1. \A i \in 1..Len(q) : q[i] \in PcmIds /\ q[i] # f
    BY <1>0, Elements DEF In, q
  <2>2. o = [of EXCEPT ![f] = c]
    BY DEF of
  <2> QED
    BY <1>0, <2>1, <2>2
<1>2. Loaded(q, o) = Loaded(q, of)
  BY <1>1 DEF Loaded
<1>3. WholeIn(q, o)
  BY <1>0, <1>1 DEF WholeIn
<1>4. ByContent(q, o)
  BY <1>0, <1>1 DEF ByContent
<1> QED
  BY <1>2, <1>3, <1>4 DEF q, of

\* What is on its way to the surface or the renderer.
LEMMA NearIs ==
  Shape => /\ kind = "video" => writer.frame = None
           /\ kind # "video" => render.buf = None
           /\ kind = "video" => Near = IF render.buf = None THEN {} ELSE {render.packet}
           /\ kind # "video" => Near = IF writer.frame # None /\ Left(writer.frame) # 0 THEN {Pk(writer.frame)} ELSE {}
<1> SUFFICES ASSUME Shape
             PROVE  /\ kind = "video" => writer.frame = None
                    /\ kind # "video" => render.buf = None
                    /\ kind = "video" => Near = IF render.buf = None THEN {} ELSE {render.packet}
                    /\ kind # "video" => Near = IF writer.frame # None /\ Left(writer.frame) # 0 THEN {Pk(writer.frame)} ELSE {}
  OBVIOUS
<1>1. kind = "video" => writer.frame = None
  <2>1. writer.frame \in PcmIds \cup {None}
    BY DEF Shape, Writing
  <2>2. kind = "video" => pcm.alloc = {}
    BY DEF Shape, Pooled
  <2>3. writer.frame \in PcmIds => writer.frame \in pcm.alloc
    BY DEF Shape, Frames
  <2> QED
    BY <2>1, <2>2, <2>3
<1>2. /\ kind # "video" => render.buf = None
      /\ render.buf # None => render.packet \in Packets
  BY DEF Shape, Rendering
<1>3. ASSUME writer.frame # None, Left(writer.frame) # 0
      PROVE  Pk(writer.frame) \in Packets
  <2>1. writer.frame \in PcmIds
    BY <1>3 DEF Shape, Writing
  <2>2. pcm.of[writer.frame] \in [packet : Packets \cup {0}, left : 0..FrameLen]
    BY <2>1 DEF Shape, Pooled
  <2>3. pcm.of[writer.frame].packet # 0
    BY <1>3, <2>1 DEF Shape, Pooled, Left
  <2> QED
    BY <2>2, <2>3 DEF Pk
<1>4. kind = "video" => Near = IF render.buf = None THEN {} ELSE {render.packet}
  BY <1>1, <1>2 DEF Near
<1>5. kind # "video" => Near = IF writer.frame # None /\ Left(writer.frame) # 0 THEN {Pk(writer.frame)} ELSE {}
  BY <1>2, <1>3 DEF Near
<1> QED
  BY <1>1, <1>2, <1>4, <1>5

\* What is near after a step.
LEMMA NearNext ==
  ASSUME Shape'
  PROVE  /\ kind' = "video" => Near' = IF render'.buf = None THEN {} ELSE {render'.packet}
         /\ kind' # "video" => Near' = IF writer'.frame # None /\ (Left(writer.frame))' # 0
                                       THEN {(Pk(writer.frame))'} ELSE {}
<1>1. (/\ kind = "video" => Near = IF render.buf = None THEN {} ELSE {render.packet}
       /\ kind # "video" => Near = IF writer.frame # None /\ Left(writer.frame) # 0 THEN {Pk(writer.frame)} ELSE {})'
  BY NearIs, PTL
<1> QED
  BY <1>1

\* The places of the line by name, before a step and after it.
LEMMA StagesAre ==
  /\ Stages[0] = Stage0 /\ Stages[1] = Near /\ Stages[2] = Stage2
  /\ Stages[3] = Stage3 /\ Stages[4] = Stage4 /\ Stages[5] = Stage5
  /\ Stages'[0] = Stage0' /\ Stages'[1] = Near' /\ Stages'[2] = Stage2'
  /\ Stages'[3] = Stage3' /\ Stages'[4] = Stage4' /\ Stages'[5] = Stage5'
  BY DEF Stages

\* The order of the places, pair by pair.
LEMMA Pairs ==
  ASSUME IInv, ctl # "released"
  PROVE  /\ Line(Stages) /\ Played
         /\ \A x \in Stage0 : /\ \A y \in Near : x < y
                              /\ \A y \in Stage2 : x < y
         /\ \A x \in Near, y \in Stage2 : x < y
         /\ \A x \in Stage2 : /\ \A y \in Stage3 : x < y
                              /\ \A y \in Stage5 : x < y
         /\ \A x \in Stage4, y \in Stage5 : x < y
<1>1. Line(Stages) /\ Played
  BY DEF IInv, Ordering
<1>2. \A m, n \in 0..5 : m < n => \A x \in Stages[m], y \in Stages[n] : x < y
  BY <1>1 DEF Line, Before
<1>3. /\ 0 \in 0..5 /\ 1 \in 0..5 /\ 2 \in 0..5 /\ 3 \in 0..5 /\ 4 \in 0..5 /\ 5 \in 0..5
      /\ 0 < 1 /\ 0 < 2 /\ 1 < 2 /\ 2 < 3 /\ 2 < 5 /\ 4 < 5
  OBVIOUS
<1>4. /\ \A x \in Stages[0], y \in Stages[1] : x < y
      /\ \A x \in Stages[0], y \in Stages[2] : x < y
      /\ \A x \in Stages[1], y \in Stages[2] : x < y
      /\ \A x \in Stages[2], y \in Stages[3] : x < y
      /\ \A x \in Stages[2], y \in Stages[5] : x < y
      /\ \A x \in Stages[4], y \in Stages[5] : x < y
  BY <1>2, <1>3
<1> QED
  BY <1>1, <1>4, StagesAre

\* While something is on its way the decoder is not released.
LEMMA NotReleased ==
  ASSUME IInv
  PROVE  /\ callback.at # "idle" => ctl # "released"
         /\ held # None => ctl # "released"
         /\ render.buf # None \/ render.at = "wait" => ctl # "released"
         /\ writer.want # 0 => ctl # "released"
         /\ sys.codec = "running" => ctl # "released"
<1>1. ctl = "released" => sys.codec = "none" /\ sys.renderer = "none"
  BY NothingIs DEF IInv, Control
<1> QED
  BY <1>1 DEF IInv, Calling, Feeding, Rendering, Writing

\* The packet that is fed next, as a place in the line.
LEMMA Stage5Is ==
  ASSUME IInv
  PROVE  /\ input.fed + 1 \in Stage5 /\ input.fed + 1 \in Nat
         /\ \A k \in Stage5 : k = input.fed + 1 \/ (k > input.fed + 1 /\ k \in Nat)
<1>1. input.fed \in Nat
  BY QueueLength
<1> QED
  BY <1>1 DEF Stage5

\* A frame that comes into the queue: after all that is there.
LEMMA WholeKept ==
  ASSUME IInv, [Next]_vars
  PROVE  Whole'
<1> DEFINE Frame == [packet : Packets \cup {0}, left : 0..FrameLen]
<1>0. /\ WholeIn(pcm.queue, pcm.of) /\ pcm.queue \in Seq(PcmIds) /\ pcm.of \in [PcmIds -> Frame]
      /\ callback.frame # None => pcm.of[callback.frame] = [packet |-> callback.packet, left |-> FrameLen]
      /\ \A f \in PcmIds : callback.frame = f => ~In(pcm.queue, f) /\ writer.frame # f /\ held # f
      /\ \A f \in PcmIds : In(pcm.queue, f) => held # f /\ writer.frame # f
      /\ callback.frame \in PcmIds \cup {None} /\ None \notin PcmIds
      /\ callback.frame # None => kind = "audio"
  <2>1. WholeIn(pcm.queue, pcm.of)
        /\ (callback.frame # None => pcm.of[callback.frame] = [packet |-> callback.packet, left |-> FrameLen])
    BY DEF IInv, Whole
  <2>2. pcm.queue \in Seq(PcmIds) /\ pcm.of \in [PcmIds -> Frame]
    BY DEF IInv, Pooled
  <2>3. /\ \A f \in PcmIds : callback.frame = f => ~In(pcm.queue, f) /\ writer.frame # f /\ held # f
        /\ \A f \in PcmIds : In(pcm.queue, f) => held # f /\ writer.frame # f
    BY DEF IInv, Frames
  <2>4. callback.frame \in PcmIds \cup {None} /\ (callback.frame # None => kind = "audio")
    BY DEF IInv, Calling
  <2>5. None \notin PcmIds
    BY Ids DEF IInv
  <2> QED
    BY <2>1, <2>2, <2>3, <2>4, <2>5
<1> HIDE DEF Frame
<1>1. CASE GetInputBuffer
  <2>1. pcm'.queue = pcm.queue /\ pcm'.of = pcm.of /\ callback' = callback
    <3>1. CASE kind = "raw"
      BY <1>1, <3>1, GetDoes
    <3>2. CASE kind # "raw"
      BY <1>1, <3>2 DEF GetInputBuffer
    <3> QED
      BY <3>1, <3>2
  <2> QED
    BY <1>0, <2>1 DEF Whole
<1>2. CASE SubmitInputBuffer
  <2>1. CASE kind = "raw"
    <3>1. PICK c \in Content :
            /\ held \in PcmIds /\ callback' = callback
            /\ pcm' = [alloc |-> pcm.alloc, free |-> pcm.free, queue |-> Append(pcm.queue, held),
                       of |-> [pcm.of EXCEPT ![held] = c]]
      BY <1>2, <2>1, SubmitDoes
    <3> DEFINE o == [pcm.of EXCEPT ![held] = c]
    <3>2. WholeIn(pcm.queue, o)
      BY <1>0, <3>1, Elsewhere
    <3>3. o[held].left \in {0, FrameLen}
      BY <1>0, <3>1 DEF Content
    <3>4. pcm'.queue = Append(pcm.queue, held) /\ pcm'.of = o
      BY <3>1
    <3> HIDE DEF o
    <3>5. WholeIn(Append(pcm.queue, held), o)
      BY <1>0, <3>1, <3>2, <3>3, PcmAppended
    <3> QED
      BY <1>0, <2>1, <3>1, <3>4, <3>5 DEF Whole
  <2>2. CASE kind # "raw"
    BY <1>0, <1>2, <2>2 DEF SubmitInputBuffer, Whole
  <2> QED
    BY <2>1, <2>2
<1>3. CASE CodecOutput \/ OutputDropped \/ OutputQueued
  <2>1. callback'.frame = None /\ pcm' = pcm
    BY <1>3, OutputDoes, DroppedDoes, BufferedDoes DEF NoCallback
  <2> QED
    BY <1>0, <2>1 DEF Whole
<1>4. CASE OutputSeen \/ PcmSeen
  <2>1. callback'.frame = callback.frame /\ callback'.packet = callback.packet /\ pcm' = pcm
    BY <1>4 DEF OutputSeen, PcmSeen, IInv, Calling, audio
  <2> QED
    BY <1>0, <2>1 DEF Whole
<1>5. CASE PcmTaken
  <2> DEFINE f == FrameFor(pcm)
             c == [packet |-> callback.packet, left |-> FrameLen]
             o == [pcm.of EXCEPT ![f] = c]
  <2>1. /\ f \in PcmIds /\ callback.at = "take" /\ kind = "audio"
        /\ callback'.frame = f /\ callback'.packet = callback.packet /\ pcm'.queue = pcm.queue /\ pcm'.of = o
    BY <1>5, TakenDoes
  <2>2. ~In(pcm.queue, f)
    BY <2>1, FrameIs
  <2>3. o[f] = c
    BY <1>0, <2>1
  <2> HIDE DEF f, c
  <2>4. WholeIn(pcm.queue, o)
    BY <1>0, <2>2, Elsewhere
  <2> HIDE DEF o
  <2> QED
    BY <2>1, <2>3, <2>4 DEF Whole, c
<1>6. CASE PcmQueued
  <2>1. /\ callback.frame \in PcmIds /\ callback.frame # None /\ callback'.frame = None
        /\ pcm'.queue = Append(pcm.queue, callback.frame) /\ pcm'.of = pcm.of
    BY <1>6, QueuedDoes DEF NoCallback
  <2>2. pcm.of[callback.frame].left \in {0, FrameLen}
    BY <1>0, <2>1
  <2>3. WholeIn(Append(pcm.queue, callback.frame), pcm.of)
    BY <1>0, <2>1, <2>2, PcmAppended
  <2> QED
    BY <2>1, <2>3 DEF Whole
<1>7. CASE WriteRecycles
  <2>1. pcm'.queue = pcm.queue /\ pcm'.of = pcm.of /\ callback' = callback
    BY <1>7, RecyclesDoes
  <2> QED
    BY <1>0, <2>1 DEF Whole
<1>8. CASE WriteTakes
  <2>1. CASE pcm.queue = <<>>
    BY <1>0, <1>8, <2>1, SilenceDoes DEF Whole
  <2>2. CASE pcm.queue # <<>>
    <3>1. pcm'.queue = Tail(pcm.queue) /\ pcm'.of = pcm.of /\ callback' = callback
      BY <1>8, <2>2, TakesDoes
    <3>2. WholeIn(Tail(pcm.queue), pcm.of)
      BY <1>0, <2>2, PcmTailed
    <3> QED
      BY <1>0, <3>1, <3>2 DEF Whole
  <2> QED
    BY <2>1, <2>2
<1>9. CASE WriteCopies
  <2> DEFINE f == writer.frame
  <2>1. PICK c : /\ f \in PcmIds /\ callback' = callback
                 /\ pcm'.queue = pcm.queue /\ pcm'.of = [pcm.of EXCEPT ![f] = c]
    <3>1. PICK n \in Nat \ {0} :
            /\ writer.frame \in PcmIds /\ callback' = callback
            /\ pcm' = [alloc |-> pcm.alloc, free |-> pcm.free, queue |-> pcm.queue,
                       of |-> [pcm.of EXCEPT ![writer.frame] =
                              [packet |-> Pk(writer.frame), left |-> Left(writer.frame) - n]]]
      BY <1>9, CopiesDoes
    <3> QED
      BY <3>1
  <2>2. WholeIn(pcm.queue, [pcm.of EXCEPT ![f] = c])
    BY <1>0, <2>1, Elsewhere
  <2>3. callback.frame # None => [pcm.of EXCEPT ![f] = c][callback.frame] = pcm.of[callback.frame]
    BY <1>0, <2>1
  <2> QED
    BY <1>0, <2>1, <2>2, <2>3 DEF Whole
<1>10. CASE ReleaseRest
  <2>1. ctl = "release" /\ callback' = callback /\ pcm'.queue = <<>>
    BY <1>10, RestDoes
  <2>2. callback.frame = None
    BY <2>1 DEF IInv, Control, Calling
  <2>3. WholeIn(<<>>, pcm'.of)
    BY DEF WholeIn
  <2> QED
    BY <2>1, <2>2, <2>3 DEF Whole
<1>11. CASE UNCHANGED <<pcm, callback>>
  BY <1>0, <1>11 DEF Whole
<1>12. CASE Starting \/ OnNeedInputBuffer \/ Render \/ Tick \/ WriteBegins \/ ReleaseBegins
            \/ ReleaseJoins \/ StopRenderer \/ DestroyCodec
  <2>1. UNCHANGED <<pcm, callback>>
    BY <1>12 DEF Starting, InitSucceeds, InitFails, StartFails, StartVideo, SpawnRender, StartRenderer,
         StartAudioCodec, StartReturns, OnNeedInputBuffer, Render, RenderTakes, RenderEnds, RenderHas, RenderShows,
         RenderFrees, Tick, WriteBegins, ReleaseBegins, ReleaseJoins, StopRenderer, DestroyCodec, audio
  <2> QED
    BY <1>11, <2>1
<1> QED
  BY <1>1, <1>2, <1>3, <1>4, <1>5, <1>6, <1>7, <1>8, <1>9, <1>10, <1>11, <1>12
  DEF Next, Codec, Writer, Release, Done, vars

\* The output queue stays sorted: only OutputQueued adds to it.
LEMMA BySequenceKept ==
  ASSUME IInv, [Next]_vars
  PROVE  BySequence(output.queue)'
<1>0. BySequence(output.queue) /\ output.queue \in Seq(Entry)
  BY DEF IInv, Sorted, Outputs
<1>1. CASE OutputQueued
  <2> DEFINE e == [buf |-> callback.buf, packet |-> callback.packet]
  <2>1. /\ callback.at = "enqueue" /\ callback.packet \in Packets /\ e \in Entry
        /\ output'.queue = Append(output.queue, e)
    BY <1>1, BufferedDoes
  <2>2. callback.packet \in Stage3 /\ ctl # "released"
    BY <2>1, NotReleased DEF Stage3
  <2>3. \A x \in OutPackets(output.queue) : x < callback.packet
    BY <2>2, Pairs DEF Stage2
  <2>4. e.packet = callback.packet
    OBVIOUS
  <2> HIDE DEF e
  <2>5. BySequence(Append(output.queue, e))
    BY <1>0, <2>1, <2>3, <2>4, OutAppended
  <2> QED
    BY <2>1, <2>5
<1>2. CASE RenderTakes
  <2>1. output'.queue = Tail(output.queue) /\ output.queue # <<>>
    BY <1>2, RenderTakesDoes
  <2>2. BySequence(Tail(output.queue))
    BY <1>0, <2>1, OutTailed
  <2> QED
    BY <2>1, <2>2
<1>3. CASE ReleaseRest
  <2>1. output'.queue = <<>>
    BY <1>3, RestDoes
  <2> QED
    BY <2>1 DEF BySequence
<1>4. CASE output'.queue = output.queue
  BY <1>0, <1>4
<1>5. CASE CodecOutput \/ OutputDropped \/ PcmQueued \/ RenderHas \/ RenderShows \/ RenderFrees
  <2>1. CASE CodecOutput
    BY <1>4, <2>1, OutputDoes
  <2>2. CASE OutputDropped
    BY <1>4, <2>2, DroppedDoes
  <2>3. CASE PcmQueued
    BY <1>4, <2>3, QueuedDoes
  <2>4. CASE RenderHas /\ running
    BY <1>4, <2>4, PacesDoes
  <2>5. CASE RenderShows
    BY <1>4, <2>5, ShowsDoes
  <2>6. CASE Frees
    BY <1>4, <2>6, FreesDoes
  <2> QED
    BY <1>5, <2>1, <2>2, <2>3, <2>4, <2>5, <2>6 DEF Frees
<1>6. CASE UNCHANGED output
  BY <1>4, <1>6
<1>7. CASE Starting \/ OnNeedInputBuffer \/ GetInputBuffer \/ SubmitInputBuffer \/ OutputSeen \/ PcmSeen \/ PcmTaken
           \/ RenderEnds \/ Tick \/ Writer \/ ReleaseBegins \/ ReleaseJoins \/ StopRenderer \/ DestroyCodec
  <2>1. UNCHANGED output
    BY <1>7 DEF Starting, InitSucceeds, InitFails, StartFails, StartVideo, SpawnRender, StartRenderer,
         StartAudioCodec, StartReturns, OnNeedInputBuffer, GetInputBuffer, SubmitInputBuffer, OutputSeen, PcmSeen,
         PcmTaken, RenderEnds, Tick, Writer, WriteBegins, WriteRecycles, WriteTakes, WriteCopies, ReleaseBegins,
         ReleaseJoins, StopRenderer, DestroyCodec
  <2> QED
    BY <1>6, <2>1
<1> QED
  BY <1>1, <1>2, <1>3, <1>5, <1>6, <1>7 DEF Next, Codec, Render, Release, Done, vars

\* What is in the codec stays sorted.
LEMMA RisesKept ==
  ASSUME IInv, [Next]_vars
  PROVE  Rises(input.coded)'
<1>0. Rises(input.coded) /\ input.coded \in Seq(Packets)
  BY DEF IInv, Sorted, Feeding
<1>1. CASE SubmitInputBuffer
  <2>1. held # None /\ (input'.coded = input.coded \/ input'.coded = Append(input.coded, input.fed + 1))
    BY <1>1 DEF SubmitInputBuffer, IInv, Feeding
  <2>2. CASE input'.coded = input.coded
    BY <1>0, <2>2
  <2>3. CASE input'.coded = Append(input.coded, input.fed + 1)
    <3>1. input.fed + 1 \in Stage5 /\ ctl # "released"
      BY <2>1, Stage5Is, NotReleased
    <3>2. \A x \in Elems(input.coded) : x < input.fed + 1
      BY <3>1, Pairs DEF Stage4
    <3>3. input.fed + 1 \in Packets
      <4>1. input.fed < Len(pts) /\ input.fed \in Nat /\ Len(pts) \in Nat /\ Packets = 1..Len(pts)
        BY <2>1, QueueLength, Numbers DEF IInv, Feeding
      <4> QED
        BY <4>1
    <3>4. Rises(Append(input.coded, input.fed + 1))
      BY <1>0, <3>2, <3>3, CodedAppended
    <3> QED
      BY <2>3, <3>4
  <2> QED
    BY <2>1, <2>2, <2>3
<1>2. CASE CodecOutput
  <2>1. input.coded # <<>> /\ input'.coded = Tail(input.coded)
    BY <1>2, OutputDoes DEF IInv, Feeding
  <2>2. Rises(Tail(input.coded))
    BY <1>0, <2>1, CodedTailed
  <2> QED
    BY <2>1, <2>2
<1>3. CASE input'.coded = input.coded
  BY <1>0, <1>3
<1>4. CASE OnNeedInputBuffer \/ GetInputBuffer
  <2>1. input'.coded = input.coded
    BY <1>4 DEF OnNeedInputBuffer, GetInputBuffer, IInv, Feeding
  <2> QED
    BY <1>3, <2>1
<1>5. CASE UNCHANGED input
  BY <1>3, <1>5
<1>6. CASE Starting \/ OutputDropped \/ OutputSeen \/ OutputQueued \/ PcmSeen \/ PcmTaken \/ PcmQueued
           \/ Render \/ Tick \/ Writer \/ ReleaseBegins \/ Release
  <2>1. UNCHANGED input
    BY <1>6 DEF Starting, InitSucceeds, InitFails, StartFails, StartVideo, SpawnRender, StartRenderer,
         StartAudioCodec, StartReturns, OutputDropped, OutputSeen, OutputQueued, PcmSeen, PcmTaken, PcmQueued,
         Render, RenderTakes, RenderEnds, RenderHas, RenderShows, RenderFrees, Tick, Writer, WriteBegins,
         WriteRecycles, WriteTakes, WriteCopies, ReleaseBegins, Release, ReleaseJoins, StopRenderer, DestroyCodec,
         ReleaseRest
  <2> QED
    BY <1>5, <2>1
<1> QED
  BY <1>1, <1>2, <1>4, <1>5, <1>6 DEF Next, Codec, Done, vars

\* The PCM queue stays sorted: PcmQueued and SubmitInputBuffer add to it.
LEMMA ByContentKept ==
  ASSUME IInv, [Next]_vars
  PROVE  ByContent(pcm.queue, pcm.of)'
<1> DEFINE Frame == [packet : Packets \cup {0}, left : 0..FrameLen]
<1>0. /\ ByContent(pcm.queue, pcm.of) /\ pcm.queue \in Seq(PcmIds) /\ pcm.of \in [PcmIds -> Frame]
      /\ \A f \in PcmIds : In(pcm.queue, f) => held # f /\ writer.frame # f
      /\ Loaded(pcm.queue, pcm.of) \subseteq Stage2
  BY DEF IInv, Sorted, Pooled, Frames, Stage2
<1> HIDE DEF Frame
<1>1. CASE SubmitInputBuffer /\ kind = "raw"
  <2>1. PICK c \in Content :
          /\ held \in PcmIds
          /\ pcm' = [alloc |-> pcm.alloc, free |-> pcm.free, queue |-> Append(pcm.queue, held),
                     of |-> [pcm.of EXCEPT ![held] = c]]
    BY <1>1, SubmitDoes
  <2> DEFINE o == [pcm.of EXCEPT ![held] = c]
  <2>2. pcm'.queue = Append(pcm.queue, held) /\ pcm'.of = o /\ o[held] = c /\ ~In(pcm.queue, held)
    BY <1>0, <2>1
  <2>3. ByContent(pcm.queue, o) /\ Loaded(pcm.queue, o) = Loaded(pcm.queue, pcm.of)
    <3>1. o = [pcm.of EXCEPT ![held] = c]
      OBVIOUS
    <3> HIDE DEF o
    <3>2. ~In(pcm.queue, held)
      BY <2>2
    <3>3. ByContent(pcm.queue, o)
      BY <3>1, <3>2, Elsewhere
    <3>4. Loaded(pcm.queue, o) = Loaded(pcm.queue, pcm.of)
      BY <3>1, <3>2, Elsewhere
    <3> QED
      BY <3>3, <3>4
  <2>4. c.left # 0 => c.packet = input.fed + 1
    BY DEF Content
  <2>5. ctl # "released" /\ input.fed + 1 \in Stage5
    <3>1. held # None
      BY <1>1 DEF SubmitInputBuffer
    <3> QED
      BY <3>1, NotReleased, Stage5Is
  <2>6. \A x \in Loaded(pcm.queue, pcm.of) : x < input.fed + 1
    BY <1>0, <2>5, Pairs
  <2> HIDE DEF o
  <2>7. ByContent(Append(pcm.queue, held), o)
    BY <1>0, <2>1, <2>2, <2>3, <2>4, <2>6, PcmAppended
  <2> QED
    BY <2>2, <2>7
<1>2. CASE PcmTaken
  <2> DEFINE f == FrameFor(pcm)
             c == [packet |-> callback.packet, left |-> FrameLen]
  <2>1. /\ callback.at = "take" /\ kind = "audio" /\ f \in PcmIds
        /\ pcm'.queue = pcm.queue /\ pcm'.of = [pcm.of EXCEPT ![f] = c]
    BY <1>2, TakenDoes
  <2>2. ~In(pcm.queue, f)
    BY <2>1, FrameIs
  <2> HIDE DEF f, c
  <2>3. ByContent(pcm.queue, [pcm.of EXCEPT ![f] = c])
    <3>1. ASSUME NEW g, NEW d, ~In(pcm.queue, g)
          PROVE  ByContent(pcm.queue, [pcm.of EXCEPT ![g] = d])
      BY <1>0, <3>1, Elsewhere
    <3> QED
      BY <2>2, <3>1
  <2> QED
    BY <2>1, <2>3
<1>3. CASE PcmQueued
  <2> DEFINE f == callback.frame
  <2>1. /\ callback.at = "enqueue" /\ f \in PcmIds /\ f # None /\ callback.packet \in Packets
        /\ pcm'.queue = Append(pcm.queue, f) /\ pcm'.of = pcm.of
    BY <1>3, QueuedDoes
  <2>2. pcm.of[f].packet = callback.packet
    BY <2>1 DEF IInv, Whole
  <2>3. callback.packet \in Stage3 /\ ctl # "released"
    BY <2>1, NotReleased DEF Stage3
  <2>4. \A x \in Loaded(pcm.queue, pcm.of) : x < pcm.of[f].packet
    BY <1>0, <2>2, <2>3, Pairs
  <2>5. ByContent(Append(pcm.queue, f), pcm.of)
    BY <1>0, <2>1, <2>4, PcmAppended
  <2> QED
    BY <2>1, <2>5
<1>4. CASE WriteTakes
  <2>1. CASE pcm.queue = <<>>
    BY <1>0, <1>4, <2>1, SilenceDoes
  <2>2. CASE pcm.queue # <<>>
    <3>1. pcm'.queue = Tail(pcm.queue) /\ pcm'.of = pcm.of
      BY <1>4, <2>2, TakesDoes
    <3>2. ByContent(Tail(pcm.queue), pcm.of)
      BY <1>0, <2>2, PcmTailed
    <3> QED
      BY <3>1, <3>2
  <2> QED
    BY <2>1, <2>2
<1>5. CASE WriteCopies
  <2> DEFINE f == writer.frame
  <2>1. PICK c : f \in PcmIds /\ pcm'.queue = pcm.queue /\ pcm'.of = [pcm.of EXCEPT ![f] = c]
    <3>1. PICK n \in Nat \ {0} :
            /\ writer.frame \in PcmIds
            /\ pcm' = [alloc |-> pcm.alloc, free |-> pcm.free, queue |-> pcm.queue,
                       of |-> [pcm.of EXCEPT ![writer.frame] =
                              [packet |-> Pk(writer.frame), left |-> Left(writer.frame) - n]]]
      BY <1>5, CopiesDoes
    <3> QED
      BY <3>1
  <2>2. ByContent(pcm.queue, [pcm.of EXCEPT ![f] = c])
    BY <1>0, <2>1, Elsewhere
  <2> QED
    BY <2>1, <2>2
<1>6. CASE ReleaseRest
  <2>1. pcm'.queue = <<>>
    BY <1>6, RestDoes
  <2>2. ByContent(<<>>, pcm'.of)
    BY DEF ByContent
  <2> QED
    BY <2>1, <2>2
<1>7. CASE pcm'.queue = pcm.queue /\ pcm'.of = pcm.of
  BY <1>0, <1>7
<1>8. CASE GetInputBuffer \/ WriteRecycles
  <2>1. CASE GetInputBuffer /\ kind = "raw"
    BY <1>7, <2>1, GetDoes
  <2>2. CASE GetInputBuffer /\ kind # "raw"
    BY <1>7, <2>2 DEF GetInputBuffer
  <2>3. CASE WriteRecycles
    BY <1>7, <2>3, RecyclesDoes
  <2> QED
    BY <1>8, <2>1, <2>2, <2>3
<1>9. CASE UNCHANGED pcm
  BY <1>7, <1>9
<1>10. CASE Starting \/ OnNeedInputBuffer \/ (SubmitInputBuffer /\ kind # "raw") \/ CodecOutput \/ OutputDropped
            \/ OutputSeen \/ OutputQueued \/ PcmSeen \/ Render \/ Tick \/ WriteBegins \/ ReleaseBegins
            \/ ReleaseJoins \/ StopRenderer \/ DestroyCodec
  <2>1. UNCHANGED pcm
    BY <1>10 DEF Starting, InitSucceeds, InitFails, StartFails, StartVideo, SpawnRender, StartRenderer,
         StartAudioCodec, StartReturns, OnNeedInputBuffer, SubmitInputBuffer, CodecOutput, OutputDropped, OutputSeen,
         OutputQueued, PcmSeen, Render, RenderTakes, RenderEnds, RenderHas, RenderShows, RenderFrees, Tick,
         WriteBegins, ReleaseBegins, ReleaseJoins, StopRenderer, DestroyCodec, audio
  <2> QED
    BY <1>9, <2>1
<1> QED
  BY <1>1, <1>2, <1>3, <1>4, <1>5, <1>6, <1>8, <1>9, <1>10 DEF Next, Codec, Writer, Release, Done, vars

\* Before the line starts to move: what is shown and what is on its way stay as they are.
LEMMA PlayedStays ==
  ASSUME IInv, ctl # "released", UNCHANGED <<kind, shown>>, Near' = Near,
         Near = {} \/ (Left(writer.frame))' = Left(writer.frame)
  PROVE  Played' /\ Stage0' = Stage0
<1>1. Played
  BY Pairs
<1>2. Stage0' = Stage0
  BY DEF Stage0
<1>3. \A k : (Times(k))' = Times(k)
  BY DEF Times
<1> QED
  BY <1>1, <1>2, <1>3 DEF Played, Total

\* Nothing moves, or a packet leaves the line.
LEMMA Calm ==
  ASSUME IInv, ctl # "released", UNCHANGED <<kind, shown>>, Near' = Near,
         Near = {} \/ (Left(writer.frame))' = Left(writer.frame),
         Stage2' \subseteq Stage2, Stage3' \subseteq Stage3, Stage4' \subseteq Stage4, Stage5' \subseteq Stage5
  PROVE  Ordering'
<1>1. Played' /\ Stage0' = Stage0
  BY PlayedStays
<1>2. \A i \in 0..5 : Stages'[i] \subseteq Stages[i]
  <2>1. \A i \in 0..5 : i \in {0, 1, 2, 3, 4, 5}
    OBVIOUS
  <2> QED
    BY <1>1, <2>1, StagesAre
<1>3. Line(Stages')
  <2>1. Line(Stages)
    BY Pairs
  <2> QED
    BY <1>2, <2>1, Thins
<1> QED
  BY <1>1, <1>3 DEF Ordering

\* What has been shown does not change.
LEMMA ShownStays ==
  ASSUME IInv, UNCHANGED <<kind, pts, shown>>, kind = "video" => render'.firsts = render.firsts
  PROVE  ShownInOrder'
<1>1. ShownInOrder
  BY DEF IInv
<1>2. \A k : (Times(k))' = Times(k)
  BY DEF Times
<1> QED
  BY <1>1, <1>2 DEF ShownInOrder, Packets

\* The places that depend on what a step leaves alone.
LEMMA PlacesStay ==
  /\ UNCHANGED <<pts, writer, pcm>> /\ render'.buf = render.buf /\ render'.packet = render.packet
       => Near' = Near /\ (Left(writer.frame))' = Left(writer.frame)
  /\ output'.queue = output.queue /\ pcm'.queue = pcm.queue /\ pcm'.of = pcm.of => Stage2' = Stage2
  /\ UNCHANGED <<pts, callback>> => Stage3' = Stage3
  /\ input'.coded = input.coded => Stage4' = Stage4
  /\ input'.fed = input.fed => Stage5' = Stage5
<1>1. UNCHANGED <<pts, writer, pcm>> /\ render'.buf = render.buf /\ render'.packet = render.packet
        => Near' = Near /\ (Left(writer.frame))' = Left(writer.frame)
  BY DEF Near, Left, Pk, Packets
<1>2. output'.queue = output.queue /\ pcm'.queue = pcm.queue /\ pcm'.of = pcm.of => Stage2' = Stage2
  BY DEF Stage2
<1>3. UNCHANGED <<pts, callback>> => Stage3' = Stage3
  BY DEF Stage3, Packets
<1>4. input'.coded = input.coded => Stage4' = Stage4
  BY DEF Stage4
<1>5. input'.fed = input.fed => Stage5' = Stage5
  BY DEF Stage5
<1> QED
  BY <1>1, <1>2, <1>3, <1>4, <1>5

\* The packet of the callback in progress.
LEMMA Stage3Is ==
  ASSUME IInv
  PROVE  /\ callback.at # "idle" => Stage3 = {callback.packet} /\ callback.packet \in Packets
         /\ callback.at = "idle" => Stage3 = {}
  BY DEF IInv, Calling, Stage3

\* A packet moves to an earlier place of the line.
LEMMA LineMoves ==
  ASSUME IInv, ctl # "released", NEW m \in 0..5, NEW n \in 0..5, m < n, NEW h \in Stages[n],
         \A i \in 0..5 : i # m => Stages'[i] \subseteq Stages[i],
         Stages'[m] \subseteq Stages[m] \cup {h},
         \A i \in 0..5 : m < i /\ i < n => Stages'[i] = {},
         \A x \in Stages'[n] : h < x
  PROVE  Line(Stages)'
<1>1. Line(Stages)
  BY Pairs
<1> DEFINE S == Stages
           T == Stages'
<1>2. /\ m < n /\ h \in S[n] /\ Line(S)
      /\ \A i \in 0..5 : i # m => T[i] \subseteq S[i]
      /\ T[m] \subseteq S[m] \cup {h}
      /\ \A i \in 0..5 : m < i /\ i < n => T[i] = {}
      /\ \A x \in T[n] : h < x
  BY <1>1
<1> HIDE DEF S, T
<1>3. Line(T)
  BY <1>2, Moves
<1> QED
  BY <1>3 DEF T

\* The six places, one after the other.
LEMMA Six == \A i \in 0..5 : i = 0 \/ i = 1 \/ i = 2 \/ i = 3 \/ i = 4 \/ i = 5
  OBVIOUS

\* CodecOutput hands the oldest packet of the codec to the callback.
LEMMA OutputInOrder ==
  ASSUME IInv, CodecOutput
  PROVE  Ordering' /\ ShownInOrder'
<1> DEFINE h == Head(input.coded)
<1>1. /\ callback.at = "idle" /\ input.coded # <<>> /\ h \in Packets /\ sys.codec = "running"
      /\ callback'.packet = h /\ callback'.at = "check" /\ output'.queue = output.queue
      /\ input'.coded = Tail(input.coded) /\ input'.fed = input.fed
      /\ UNCHANGED <<kind, pts, ctl, render, pcm, writer, shown>>
  <2>1. /\ callback.at = "idle" /\ input.coded # <<>> /\ h \in Packets /\ sys.codec = "running"
        /\ input' = [input EXCEPT !.coded = Tail(input.coded)]
        /\ UNCHANGED <<kind, pts, ctl, render, pcm, writer, shown>>
    BY OutputDoes
  <2>2. callback'.packet = h /\ callback'.at = "check" /\ output'.queue = output.queue
    BY OutputDoes
  <2>3. input'.coded = Tail(input.coded) /\ input'.fed = input.fed
    BY <2>1 DEF IInv, Feeding
  <2> QED
    BY <2>1, <2>2, <2>3
<1>2. ctl # "released"
  BY <1>1, NotReleased
<1>3. /\ Near' = Near /\ (Left(writer.frame))' = Left(writer.frame) /\ Stage2' = Stage2 /\ Stage5' = Stage5
  BY <1>1, PlacesStay
<1>4. Played' /\ Stage0' = Stage0
  BY <1>1, <1>2, <1>3, PlayedStays
<1>5. Stage3' = {h}
  BY <1>1 DEF Stage3, Packets
<1>6. /\ Stage4 = Stage4' \cup {h}
      /\ \A x \in Stage4' : h < x
  <2>1. input.coded \in Seq(Packets) /\ Rises(input.coded)
    BY DEF IInv, Feeding, Sorted
  <2>2. h = input.coded[1]
    BY <1>1, <2>1, HeadAndTail
  <2>3. /\ Elems(input.coded) = Elems(Tail(input.coded)) \cup {input.coded[1]}
        /\ \A x \in Elems(Tail(input.coded)) : input.coded[1] < x
    BY <1>1, <2>1, CodedTailed
  <2> QED
    BY <1>1, <2>2, <2>3 DEF Stage4
<1> HIDE DEF h
<1>7. Line(Stages)'
  <2>1. h \in Stages[4] /\ 3 \in 0..5 /\ 4 \in 0..5 /\ 3 < 4
    BY <1>6, StagesAre
  <2>2. \A i \in 0..5 : i # 3 => Stages'[i] \subseteq Stages[i]
    BY <1>3, <1>4, <1>6, Six, StagesAre
  <2>3. Stages'[3] \subseteq Stages[3] \cup {h}
    BY <1>5, StagesAre
  <2>4. \A x \in Stages'[4] : h < x
    BY <1>6, StagesAre
  <2>5. \A i \in 0..5 : 3 < i /\ i < 4 => Stages'[i] = {}
    OBVIOUS
  <2> QED
    BY <1>2, <2>1, <2>2, <2>3, <2>4, <2>5, LineMoves
<1> QED
  BY <1>1, <1>4, <1>7, ShownStays DEF Ordering

\* A dropped packet leaves the line.
LEMMA DroppedInOrder ==
  ASSUME IInv, OutputDropped
  PROVE  Ordering' /\ ShownInOrder'
<1>1. /\ callback.at = "check" /\ callback'.at = "idle" /\ output'.queue = output.queue
      /\ UNCHANGED <<kind, pts, ctl, input, render, pcm, writer, shown>>
  BY DroppedDoes DEF NoCallback
<1>2. ctl # "released"
  BY <1>1, NotReleased
<1>3. /\ Near' = Near /\ (Left(writer.frame))' = Left(writer.frame)
      /\ Stage2' = Stage2 /\ Stage4' = Stage4 /\ Stage5' = Stage5
  BY <1>1, PlacesStay
<1>4. Stage3' = {}
  BY <1>1 DEF Stage3
<1> QED
  BY <1>1, <1>2, <1>3, <1>4, Calm, ShownStays

\* What comes out of the callback into a queue: the last of its place.
LEMMA LeavesCallback ==
  ASSUME IInv, callback.at # "idle", callback'.at = "idle", UNCHANGED <<kind, pts, ctl, input, render, writer, shown>>,
         Near' = Near, Near = {} \/ (Left(writer.frame))' = Left(writer.frame),
         Stage2' = Stage2 \cup {callback.packet}
  PROVE  Ordering' /\ ShownInOrder'
<1> DEFINE h == callback.packet
<1>1. ctl # "released" /\ Stage3 = {h} /\ Stage3' = {}
  BY NotReleased, Stage3Is DEF Stage3
<1>2. Stage4' = Stage4 /\ Stage5' = Stage5
  BY PlacesStay
<1>3. Played' /\ Stage0' = Stage0
  BY <1>1, PlayedStays
<1> HIDE DEF h
<1>4. Line(Stages)'
  <2>1. h \in Stages[3] /\ 2 \in 0..5 /\ 3 \in 0..5 /\ 2 < 3
    BY <1>1, StagesAre
  <2>2. \A i \in 0..5 : i # 2 => Stages'[i] \subseteq Stages[i]
    BY <1>1, <1>2, <1>3, Six, StagesAre
  <2>3. Stages'[2] \subseteq Stages[2] \cup {h}
    BY StagesAre DEF h
  <2>4. \A x \in Stages'[3] : h < x
    BY <1>1, StagesAre
  <2>5. \A i \in 0..5 : 2 < i /\ i < 3 => Stages'[i] = {}
    OBVIOUS
  <2> QED
    BY <1>1, <2>1, <2>2, <2>3, <2>4, <2>5, LineMoves
<1> QED
  BY <1>3, <1>4, ShownStays DEF Ordering

\* A queued buffer moves from the callback to the queue.
LEMMA BufferedInOrder ==
  ASSUME IInv, OutputQueued
  PROVE  Ordering' /\ ShownInOrder'
<1> DEFINE e == [buf |-> callback.buf, packet |-> callback.packet]
<1>1. /\ callback.at = "enqueue" /\ callback'.at = "idle" /\ e \in Entry /\ output'.queue = Append(output.queue, e)
      /\ UNCHANGED <<kind, pts, ctl, input, render, pcm, writer, shown>>
  BY BufferedDoes DEF NoCallback
<1>2. Near' = Near /\ (Left(writer.frame))' = Left(writer.frame)
  BY <1>1, PlacesStay
<1>3. Stage2' = Stage2 \cup {callback.packet}
  <2>1. output.queue \in Seq(Entry) /\ e.packet = callback.packet
    BY DEF IInv, Outputs
  <2> HIDE DEF e
  <2>2. OutPackets(Append(output.queue, e)) = OutPackets(output.queue) \cup {callback.packet}
    BY <1>1, <2>1, OutAppended
  <2> QED
    BY <1>1, <2>2 DEF Stage2
<1> HIDE DEF e
<1> QED
  BY <1>1, <1>2, <1>3, LeavesCallback

\* A queued frame moves from the callback to the queue.
LEMMA PcmQueuedInOrder ==
  ASSUME IInv, PcmQueued
  PROVE  Ordering' /\ ShownInOrder'
<1> DEFINE f == callback.frame
<1>1. /\ callback.at = "enqueue" /\ callback'.at = "idle" /\ f \in PcmIds /\ f # None
      /\ output'.queue = output.queue /\ pcm'.queue = Append(pcm.queue, f) /\ pcm'.of = pcm.of
      /\ UNCHANGED <<kind, pts, ctl, input, render, writer, shown>>
  BY QueuedDoes DEF NoCallback
<1>2. Near' = Near /\ (Left(writer.frame))' = Left(writer.frame)
  BY <1>1 DEF Near, Left, Pk, Packets
<1>3. Stage2' = Stage2 \cup {callback.packet}
  <2>1. pcm.queue \in Seq(PcmIds) /\ pcm.of[f].packet = callback.packet /\ pcm.of[f].left # 0
    BY <1>1, SizesAssumption DEF IInv, Pooled, Whole
  <2> HIDE DEF f
  <2>2. Loaded(Append(pcm.queue, f), pcm.of) = Loaded(pcm.queue, pcm.of) \cup {callback.packet}
    BY <1>1, <2>1, PcmAppended
  <2> QED
    BY <1>1, <2>2 DEF Stage2
<1> HIDE DEF f
<1> QED
  BY <1>1, <1>2, <1>3, LeavesCallback

\* A packet is fed into the codec, or straight into its frame.
LEMMA SubmitInOrder ==
  ASSUME IInv, SubmitInputBuffer
  PROVE  Ordering' /\ ShownInOrder'
<1> DEFINE h == input.fed + 1
<1>0. /\ held # None /\ ctl # "released" /\ h \in Stage5 /\ h \in Nat
      /\ \A k \in Stage5 : k = h \/ (k > h /\ k \in Nat)
      /\ UNCHANGED <<kind, pts, ctl, output, callback, render, writer, shown>>
  <2>1. held # None /\ UNCHANGED <<kind, pts, ctl, output, callback, render, writer, shown>>
    BY DEF SubmitInputBuffer, lifecycle
  <2> QED
    BY <2>1, NotReleased, Stage5Is
<1>1. input'.fed = h
  BY DEF SubmitInputBuffer, IInv, Feeding
<1>2. Stage5' = Stage5 \ {h} /\ \A x \in Stage5' : h < x
  <2>1. Stage5' = {k \in Nat : k > h}
    BY <1>1 DEF Stage5
  <2>2. input.fed \in Nat
    BY QueueLength
  <2> QED
    BY <2>1, <2>2 DEF Stage5
<1>3. Stage3' = Stage3
  BY <1>0, PlacesStay
<1>4. CASE kind # "raw"
  <2>1. /\ UNCHANGED pcm
        /\ input'.coded = input.coded \/ input'.coded = Append(input.coded, h)
    BY <1>4 DEF SubmitInputBuffer, IInv, Feeding
  <2>2. Near' = Near /\ (Left(writer.frame))' = Left(writer.frame) /\ Stage2' = Stage2
    BY <1>0, <2>1, PlacesStay
  <2>3. CASE input'.coded = input.coded
    <3>1. Stage4' = Stage4
      BY <2>3, PlacesStay
    <3> QED
      BY <1>0, <1>2, <1>3, <2>2, <3>1, Calm, ShownStays
  <2>4. CASE input'.coded = Append(input.coded, h)
    <3>1. Stage4' = Stage4 \cup {h}
      <4>1. input.coded \in Seq(Nat)
        <5>1. input.coded \in Seq(Packets) /\ Packets \subseteq Nat
          BY Numbers DEF IInv, Feeding
        <5> QED
          BY <5>1, SeqMonotonic
      <4> HIDE DEF h
      <4>2. Elems(Append(input.coded, h)) = Elems(input.coded) \cup {h}
        BY <1>0, <4>1, CodedAppended
      <4> QED
        BY <2>4, <4>2 DEF Stage4
    <3>2. Played' /\ Stage0' = Stage0
      BY <1>0, <2>2, PlayedStays
    <3> HIDE DEF h
    <3>3. Line(Stages)'
      <4>1. h \in Stages[5] /\ 4 \in 0..5 /\ 5 \in 0..5 /\ 4 < 5
        BY <1>0, StagesAre
      <4>2. \A i \in 0..5 : i # 4 => Stages'[i] \subseteq Stages[i]
        BY <1>2, <1>3, <2>2, <3>2, Six, StagesAre
      <4>3. Stages'[4] \subseteq Stages[4] \cup {h}
        BY <3>1, StagesAre
      <4>4. \A x \in Stages'[5] : h < x
        BY <1>2, StagesAre
      <4>5. \A i \in 0..5 : 4 < i /\ i < 5 => Stages'[i] = {}
        OBVIOUS
      <4> QED
        BY <1>0, <4>1, <4>2, <4>3, <4>4, <4>5, LineMoves
    <3> QED
      BY <1>0, <3>2, <3>3, ShownStays DEF Ordering
  <2> QED
    BY <2>1, <2>3, <2>4
<1>5. CASE kind = "raw"
  <2>1. PICK c \in Content :
          /\ held \in PcmIds
          /\ pcm' = [alloc |-> pcm.alloc, free |-> pcm.free, queue |-> Append(pcm.queue, held),
                     of |-> [pcm.of EXCEPT ![held] = c]]
          /\ input' = [input EXCEPT !.fed = input.fed + 1]
    BY <1>5, SubmitDoes
  <2> DEFINE o == [pcm.of EXCEPT ![held] = c]
  <2>2. pcm'.queue = Append(pcm.queue, held) /\ pcm'.of = o /\ input'.coded = input.coded
    BY <2>1 DEF IInv, Feeding
  <2>3. ~In(pcm.queue, held) /\ writer.frame # held
    BY <2>1 DEF IInv, Frames
  <2>4. o = [pcm.of EXCEPT ![held] = c] /\ o[held] = c /\ (writer.frame # None => o[writer.frame] = pcm.of[writer.frame])
    BY <2>1, <2>3 DEF IInv, Pooled, Writing
  <2> HIDE DEF o
  <2>5. Near' = Near /\ (Near = {} \/ (Left(writer.frame))' = Left(writer.frame))
    <3>1. Near' = Near
      BY <1>0, <2>2, <2>4 DEF Near, Left, Pk, Packets
    <3>2. writer.frame # None => (Left(writer.frame))' = Left(writer.frame)
      BY <1>0, <2>2, <2>4 DEF Left
    <3>3. writer.frame = None => Near = {}
      <4>1. render.buf = None
        BY <1>5 DEF IInv, Rendering
      <4> QED
        BY <4>1 DEF Near
    <3> QED
      BY <3>1, <3>2, <3>3
  <2>6. Loaded(pcm.queue, o) = Loaded(pcm.queue, pcm.of)
    BY <2>3, <2>4, Elsewhere
  <2>7. pcm.queue \in Seq(PcmIds)
    BY DEF IInv, Pooled
  <2>8. Stage4' = Stage4 /\ Stage4 = {} /\ Stage3 = {}
    <3>1. input.coded = <<>> /\ callback.at = "idle"
      BY <1>5 DEF IInv, Feeding, Control, Calling
    <3>2. Stage3 = {}
      BY <3>1, Stage3Is
    <3>3. Stage4' = Stage4 /\ Stage4 = {}
      BY <2>2, <3>1 DEF Stage4, Elems
    <3> QED
      BY <3>2, <3>3
  <2>9. CASE c.left = 0
    <3>1. Loaded(Append(pcm.queue, held), o) = Loaded(pcm.queue, o)
      <4>1. o[held].left = 0 /\ held \in PcmIds
        BY <2>1, <2>4, <2>9
      <4> QED
        BY <2>7, <4>1, PcmAppended
    <3>2. Stage2' = Stage2
      BY <1>0, <2>2, <2>6, <3>1 DEF Stage2
    <3> QED
      BY <1>0, <1>2, <1>3, <2>5, <2>8, <3>2, Calm, ShownStays
  <2>10. CASE c.left # 0
    <3>1. c.packet = h
      BY <2>10 DEF Content
    <3>2. Loaded(Append(pcm.queue, held), o) = Loaded(pcm.queue, o) \cup {h}
      <4>1. o[held].left # 0 /\ o[held].packet = h /\ held \in PcmIds
        BY <2>1, <2>4, <2>10, <3>1
      <4> HIDE DEF h
      <4> QED
        BY <2>7, <4>1, PcmAppended
    <3>3. Stage2' = Stage2 \cup {h}
      BY <1>0, <2>2, <2>6, <3>2 DEF Stage2
    <3>4. Played' /\ Stage0' = Stage0
      BY <1>0, <2>5, PlayedStays
    <3> HIDE DEF h
    <3>5. Line(Stages)'
      <4>1. h \in Stages[5] /\ 2 \in 0..5 /\ 5 \in 0..5 /\ 2 < 5
        BY <1>0, StagesAre
      <4>2. \A i \in 0..5 : i # 2 => Stages'[i] \subseteq Stages[i]
        BY <1>2, <1>3, <2>5, <2>8, <3>4, Six, StagesAre
      <4>3. Stages'[2] \subseteq Stages[2] \cup {h}
        BY <3>3, StagesAre
      <4>4. \A x \in Stages'[5] : h < x
        BY <1>2, StagesAre
      <4>5. \A i \in 0..5 : 2 < i /\ i < 5 => Stages'[i] = {}
        BY <1>3, <2>8, Six, StagesAre
      <4> QED
        BY <1>0, <4>1, <4>2, <4>3, <4>4, <4>5, LineMoves
    <3> QED
      BY <1>0, <3>4, <3>5, ShownStays DEF Ordering
  <2> QED
    BY <2>9, <2>10
<1> QED
  BY <1>4, <1>5

\* A callback that goes on, and a frame that is filled for it.
LEMMA CallbackInOrder ==
  ASSUME IInv, OutputSeen \/ PcmSeen \/ PcmTaken
  PROVE  Ordering' /\ ShownInOrder'
<1>1. /\ callback.at # "idle" /\ callback'.at # "idle" /\ callback'.packet = callback.packet
      /\ UNCHANGED <<kind, pts, ctl, input, render, output, writer, shown>>
  <2>1. CASE OutputSeen \/ PcmSeen
    BY <2>1 DEF OutputSeen, PcmSeen, IInv, Calling, lifecycle, audio
  <2>2. CASE PcmTaken
    <3>1. /\ callback.at = "take" /\ callback'.at = "enqueue" /\ callback'.packet = callback.packet
          /\ UNCHANGED <<kind, pts, ctl, input, render, output, writer, shown>>
      BY <2>2, TakenDoes
    <3> QED
      BY <3>1
  <2> QED
    BY <2>1, <2>2
<1>2. ctl # "released"
  BY <1>1, NotReleased
<1>3. Stage3' = Stage3 /\ Stage4' = Stage4 /\ Stage5' = Stage5
  BY <1>1 DEF Stage3, Stage4, Stage5, Packets
<1>4. /\ Near' = Near /\ Stage2' = Stage2
      /\ Near = {} \/ (Left(writer.frame))' = Left(writer.frame)
  <2>1. CASE OutputSeen \/ PcmSeen
    <3>1. UNCHANGED pcm
      BY <2>1 DEF OutputSeen, PcmSeen, audio
    <3> QED
      BY <1>1, <3>1, PlacesStay
  <2>2. CASE PcmTaken
    <3> DEFINE f == FrameFor(pcm)
               c == [packet |-> callback.packet, left |-> FrameLen]
               o == [pcm.of EXCEPT ![f] = c]
    <3>1. callback.at = "take" /\ kind = "audio" /\ f \in PcmIds /\ pcm'.queue = pcm.queue /\ pcm'.of = o
      BY <2>2, TakenDoes
    <3>2. ~In(pcm.queue, f) /\ writer.frame # f
      BY <3>1, FrameIs
    <3>3. o = [pcm.of EXCEPT ![f] = c] /\ (writer.frame # None => o[writer.frame] = pcm.of[writer.frame])
      <4> HIDE DEF f, c
      <4> QED
        BY <3>2 DEF IInv, Pooled, Writing
    <3> HIDE DEF f, c, o
    <3>4. Loaded(pcm.queue, o) = Loaded(pcm.queue, pcm.of)
      BY <3>2, <3>3, Elsewhere
    <3>5. Stage2' = Stage2
      BY <1>1, <3>1, <3>4 DEF Stage2
    <3>6. Near' = Near
      BY <1>1, <3>1, <3>3 DEF Near, Left, Pk, Packets
    <3>7. writer.frame # None => (Left(writer.frame))' = Left(writer.frame)
      BY <1>1, <3>1, <3>3 DEF Left
    <3>8. writer.frame = None => Near = {}
      <4>1. render.buf = None
        BY <3>1 DEF IInv, Rendering
      <4> QED
        BY <4>1 DEF Near
    <3> QED
      BY <3>5, <3>6, <3>7, <3>8
  <2> QED
    BY <2>1, <2>2
<1> QED
  BY <1>1, <1>2, <1>3, <1>4, Calm, ShownStays

\* How often something was shown, in terms of the sequence.
LEMMA TimesIs ==
  ASSUME IInv
  PROVE  /\ shown \in Seq(Packets) /\ Packets \subseteq Nat
         /\ \A k : Times(k) = Count(shown, k) /\ Times(k) \in Nat /\ (k \notin Elems(shown) <=> Times(k) = 0)
         /\ \A k : (Times(k))' = Count(shown', k)
         /\ Total \in Nat /\ FrameLen \in Nat \ {0}
<1>1. shown \in Seq(Packets) /\ Packets \subseteq Nat
  BY Numbers DEF IInv, Shows
<1>2. \A k : Times(k) = Count(shown, k) /\ (Times(k))' = Count(shown', k)
  BY DEF Times, Count
<1>3. \A k : Count(shown, k) \in Nat /\ (k \notin Elems(shown) <=> Count(shown, k) = 0)
  BY <1>1, Counted
<1>4. Total \in Nat /\ FrameLen \in Nat \ {0}
  BY SizesAssumption DEF Total
<1> QED
  BY <1>1, <1>2, <1>3, <1>4

\* The head of a queue is taken, to be shown next.
LEMMA ComesNear ==
  ASSUME IInv, ctl # "released", NEW h \in Stage2, Near = {}, Near' = {h}, Stage2' \subseteq Stage2,
         \A x \in Stage2' : h < x, UNCHANGED <<kind, pts, input, callback, shown>>,
         kind # "video" => (Left(writer.frame))' = FrameLen
  PROVE  Ordering'
<1>1. Stage0 = Elems(shown)
  BY DEF Stage0
<1>2. h \notin Elems(shown) /\ Times(h) = 0 /\ (Times(h))' = 0
  <2>1. \A x \in Stage0 : x < h
    BY Pairs
  <2>2. \A x \in Elems(shown) : x \in Nat
    BY TimesIs, Elements DEF Elems
  <2>3. h \notin Elems(shown)
    BY <1>1, <2>1, <2>2
  <2> QED
    BY <2>3, TimesIs
<1>3. Stage0' = Stage0
  BY <1>1, <1>2 DEF Stage0
<1>4. Stage3' = Stage3 /\ Stage4' = Stage4 /\ Stage5' = Stage5
  BY PlacesStay
<1>5. Played'
  <2>1. \A k \in Stage0 : (Times(k))' = Total
    BY Pairs, TimesIs DEF Played
  <2>2. FrameLen - FrameLen = 0
    BY SizesAssumption
  <2> QED
    BY <1>2, <1>3, <2>1, <2>2 DEF Played, Total
<1>6. Line(Stages)'
  <2>1. h \in Stages[2] /\ 1 \in 0..5 /\ 2 \in 0..5 /\ 1 < 2
    BY StagesAre
  <2>2. \A i \in 0..5 : i # 1 => Stages'[i] \subseteq Stages[i]
    BY <1>3, <1>4, Six, StagesAre
  <2>3. Stages'[1] \subseteq Stages[1] \cup {h}
    BY StagesAre
  <2>4. \A x \in Stages'[2] : h < x
    BY StagesAre
  <2>5. \A i \in 0..5 : 1 < i /\ i < 2 => Stages'[i] = {}
    OBVIOUS
  <2> QED
    BY <2>1, <2>2, <2>3, <2>4, <2>5, LineMoves
<1> QED
  BY <1>5, <1>6 DEF Ordering

\* Of what is nearest n copies are shown: all there are, or it stays nearest.
LEMMA IsShown ==
  ASSUME IInv, ctl # "released", NEW k \in Packets, Near = {k}, NEW n \in Nat \ {0},
         shown' \in Seq(Packets), Extended(shown, shown', k, n),
         UNCHANGED <<kind, pts, input, callback>>, Stage2' = Stage2,
         \/ Near' = {} /\ Times(k) + n = Total
         \/ kind # "video" /\ Near' = {k} /\ Times(k) + n = FrameLen - (Left(writer.frame))' /\ Times(k) + n <= FrameLen,
         kind = "video" => /\ n = 1 /\ Times(k) = 0
                           /\ render'.firsts = IF shown = <<>> THEN render.firsts + 1 ELSE render.firsts
  PROVE  Ordering' /\ ShownInOrder'
<1>1. /\ Stage0 = Elems(shown) \ {k} /\ Played
      /\ \A x \in Stage0 : x < k
  BY Pairs DEF Stage0
<1>2. /\ shown \in Seq(Packets) /\ Packets \subseteq Nat /\ Total \in Nat /\ FrameLen \in Nat \ {0} /\ Times(k) \in Nat
      /\ \A j : j # k => (Times(j))' = Times(j)
      /\ (Times(k))' = Times(k) + n
      /\ Elems(shown') = Elems(shown) \cup {k}
  <2>1. shown \in Seq(Packets) /\ n \in Nat /\ n # 0
    BY TimesIs
  <2>2. /\ \A j : j # k => Count(shown', j) = Count(shown, j)
        /\ Count(shown', k) = Count(shown, k) + n
        /\ Elems(shown') = Elems(shown) \cup {k}
    BY <2>1, CountsOf
  <2> QED
    BY <2>1, <2>2, TimesIs
<1>3. \A x \in Stage0 : Times(x) = Total /\ x # k
  BY <1>1 DEF Played
<1>4. Stage3' = Stage3 /\ Stage4' = Stage4 /\ Stage5' = Stage5
  BY PlacesStay
<1>5. Line(Stages)' /\ Played'
  <2>1. CASE Near' = {} /\ Times(k) + n = Total
    <3>1. Stage0' = Stage0 \cup {k}
      BY <1>1, <1>2, <2>1 DEF Stage0
    <3>2. Played'
      BY <1>2, <1>3, <2>1, <3>1 DEF Played, Total
    <3>3. k \in Stages[1] /\ 0 \in 0..5 /\ 1 \in 0..5 /\ 0 < 1
      BY StagesAre
    <3>4. \A i \in 0..5 : i # 0 => Stages'[i] \subseteq Stages[i]
      BY <1>4, <2>1, Six, StagesAre
    <3>5. Stages'[0] \subseteq Stages[0] \cup {k}
      BY <3>1, StagesAre
    <3>6. \A x \in Stages'[1] : k < x
      BY <2>1, StagesAre
    <3>7. \A i \in 0..5 : 0 < i /\ i < 1 => Stages'[i] = {}
      OBVIOUS
    <3>8. Line(Stages)'
      BY <3>3, <3>4, <3>5, <3>6, <3>7, LineMoves
    <3> QED
      BY <3>2, <3>8
  <2>2. CASE kind # "video" /\ Near' = {k} /\ Times(k) + n = FrameLen - (Left(writer.frame))'
    <3>1. Stage0' = Stage0
      BY <1>1, <1>2, <2>2 DEF Stage0
    <3>2. Played'
      BY <1>2, <1>3, <2>2, <3>1 DEF Played, Total
    <3>3. \A i \in 0..5 : Stages'[i] \subseteq Stages[i]
      BY <1>4, <2>2, <3>1, Six, StagesAre
    <3>4. Line(Stages')
      BY <3>3, Pairs, Thins
    <3> QED
      BY <3>2, <3>4
  <2> QED
    BY <2>1, <2>2
<1>6. ShownInOrder'
  <2>1. ShownInOrder
    BY DEF IInv
  <2>2. Rising(shown, Total, kind = "video")
    <3>1. \A j : Times(j) = Count(shown, j)
      BY TimesIs
    <3>2. Total = IF kind = "video" THEN 1 ELSE FrameLen
      BY DEF Total
    <3> QED
      BY <2>1, <3>1, <3>2 DEF ShownInOrder, Rising
  <2>3. Rising(shown', Total, kind = "video")
    <3>1. \A y \in Elems(shown) : y # k => y < k /\ Count(shown, y) = Total
      BY <1>1, <1>3, TimesIs
    <3>2. kind = "video" => n = 1 /\ k \notin Elems(shown)
      BY TimesIs
    <3> DEFINE once == kind = "video"
               t == Total
    <3>3. once \in BOOLEAN /\ Rising(shown, t, once) /\ (once => n = 1 /\ k \notin Elems(shown))
          /\ \A y \in Elems(shown) : y # k => y < k /\ Count(shown, y) = t
      BY <2>2, <3>1, <3>2
    <3> HIDE DEF once, t
    <3>4. Rising(shown', t, once)
      BY <1>2, <3>3, RisingOn
    <3> QED
      BY <3>4 DEF once, t
  <2>4. \A i \in 2..Len(shown') :
           \/ shown'[i - 1] < shown'[i] /\ (Times(shown[i - 1]))' = (IF kind' = "video" THEN 1 ELSE FrameLen)
           \/ shown'[i - 1] = shown'[i] /\ kind' # "video"
    <3>1. Total = IF kind = "video" THEN 1 ELSE FrameLen
      BY DEF Total
    <3>2. \A j : (Times(j))' = Count(shown', j)
      BY TimesIs
    <3>3. \A i : (Times(shown[i - 1]))' = Count(shown', shown'[i - 1])
      BY DEF Times, Count
    <3> QED
      BY <2>3, <3>1, <3>3 DEF Rising
  <2>5. \A j \in Packets' : (Times(j))' <= FrameLen
    <3>1. Packets' = Packets
      BY DEF Packets
    <3>2. \A j \in Packets : Times(j) <= FrameLen
      BY <2>1 DEF ShownInOrder
    <3>3. Total <= FrameLen
      BY <1>2 DEF Total
    <3>4. Times(k) + n <= FrameLen
      BY <1>2, <3>3
    <3> QED
      BY <1>2, <3>1, <3>2, <3>4
  <2>6. kind' = "video" => render'.firsts = (IF shown' = <<>> THEN 0 ELSE 1)
    <3>1. kind = "video" => render.firsts = (IF shown = <<>> THEN 0 ELSE 1)
      BY <2>1 DEF ShownInOrder
    <3>2. shown' # <<>>
      <4>1. k \in Elems(shown')
        BY <1>2
      <4> QED
        BY <4>1 DEF Elems
    <3> QED
      BY <3>1, <3>2
  <2> QED
    BY <2>4, <2>5, <2>6 DEF ShownInOrder
<1> QED
  BY <1>5, <1>6 DEF Ordering

\* With video nothing is in a PCM queue, otherwise nothing in the queue of output buffers.
LEMMA OneQueue ==
  ASSUME IInv
  PROVE  /\ kind = "video" => Loaded(pcm.queue, pcm.of) = {} /\ Stage2 = OutPackets(output.queue)
         /\ kind # "video" => Stage2 = Loaded(pcm.queue, pcm.of)
<1>1. kind = "video" => Loaded(pcm.queue, pcm.of) = {}
  <2>1. kind = "video" => pcm.alloc = {}
    BY DEF IInv, Pooled
  <2>2. \A i \in 1..Len(pcm.queue) : pcm.queue[i] \in PcmIds /\ In(pcm.queue, pcm.queue[i])
    BY Elements DEF IInv, Pooled, In
  <2>3. \A i \in 1..Len(pcm.queue) : pcm.queue[i] \in pcm.alloc
    BY <2>2 DEF IInv, Frames
  <2> QED
    BY <2>1, <2>3 DEF Loaded
<1>2. kind # "video" => OutPackets(output.queue) = {}
  BY DEF IInv, Outputs, OutPackets
<1> QED
  BY <1>1, <1>2 DEF Stage2

\* The oldest buffer comes near.
LEMMA RenderTakesInOrder ==
  ASSUME IInv, RenderTakes
  PROVE  Ordering' /\ ShownInOrder'
<1> DEFINE h == output.queue[1].packet
<1>1. /\ output.queue # <<>> /\ render.at = "wait" /\ render.buf = None /\ h \in Packets
      /\ render'.buf # None /\ render'.packet = h /\ render'.firsts = render.firsts
      /\ output'.queue = Tail(output.queue)
      /\ UNCHANGED <<kind, pts, ctl, input, callback, pcm, writer, shown>>
  BY RenderTakesDoes
<1>2. kind = "video" /\ ctl # "released"
  BY <1>1, NotReleased DEF IInv, Rendering
<1>3. writer.frame = None /\ Near = {}
  <2>1. Shape
    BY DEF IInv, Shape
  <2> QED
    BY <1>1, <1>2, <2>1, NearIs
<1>4. Near' = {h}
  BY <1>1, <1>3 DEF Near, Packets
<1>5. /\ h \in Stage2 /\ Stage2' \subseteq Stage2 /\ \A x \in Stage2' : h < x
  <2>1. output.queue \in Seq(Entry) /\ BySequence(output.queue)
    BY DEF IInv, Outputs, Sorted
  <2>2. /\ OutPackets(output.queue) = OutPackets(Tail(output.queue)) \cup {h}
        /\ \A x \in OutPackets(Tail(output.queue)) : h < x
    BY <1>1, <2>1, OutTailed
  <2>3. Stage2' = OutPackets(Tail(output.queue))
    BY <1>1, <1>2, OneQueue DEF Stage2
  <2>4. Stage2 = OutPackets(output.queue)
    BY <1>2, OneQueue
  <2> QED
    BY <2>2, <2>3, <2>4
<1> HIDE DEF h
<1>6. Ordering'
  BY <1>1, <1>2, <1>3, <1>4, <1>5, ComesNear
<1> QED
  BY <1>1, <1>6, ShownStays

\* A buffer that is not shown leaves the line.
LEMMA FreesInOrder ==
  ASSUME IInv, Frees
  PROVE  Ordering' /\ ShownInOrder'
<1>1. /\ render.buf # None /\ render'.buf = None /\ render'.firsts = render.firsts
      /\ output'.queue = output.queue /\ render.at \in {"have", "pace"}
      /\ UNCHANGED <<kind, pts, ctl, input, callback, pcm, writer, shown>>
  BY FreesDoes
<1>2. kind = "video" /\ ctl # "released"
  BY <1>1, NotReleased DEF IInv, Rendering
<1>3. writer.frame = None /\ Near = {render.packet}
  <2>1. Shape
    BY DEF IInv, Shape
  <2> QED
    BY <1>1, <1>2, <2>1, NearIs
<1>4. Near' = {}
  BY <1>1, <1>3 DEF Near
<1>5. Stage2' = Stage2 /\ Stage3' = Stage3 /\ Stage4' = Stage4 /\ Stage5' = Stage5
  BY <1>1, PlacesStay
<1>6. Played
  BY <1>2, Pairs
<1>7. Stage0' = Stage0
  <2>1. Times(render.packet) = 0
    BY <1>2, <1>3, <1>6 DEF Played
  <2>2. render.packet \notin Elems(shown)
    BY <2>1, TimesIs
  <2> QED
    BY <1>1, <1>3, <1>4, <2>2 DEF Stage0
<1>8. Played'
  <2>1. \A k : (Times(k))' = Times(k)
    BY <1>1 DEF Times
  <2> QED
    BY <1>1, <1>4, <1>6, <1>7, <2>1 DEF Played, Total
<1>9. Line(Stages')
  <2>1. \A i \in 0..5 : Stages'[i] \subseteq Stages[i]
    BY <1>4, <1>5, <1>7, Six, StagesAre
  <2>2. Line(Stages)
    BY <1>2, Pairs
  <2> QED
    BY <2>1, <2>2, Thins
<1> QED
  BY <1>1, <1>8, <1>9, ShownStays DEF Ordering

\* A buffer that is shown moves to the end of what was seen.
LEMMA ShowsInOrder ==
  ASSUME IInv, RenderShows
  PROVE  Ordering' /\ ShownInOrder'
<1> DEFINE k == render.packet
<1>1. /\ render.at = "pace" /\ render.buf # None /\ k \in Packets /\ kind = "video" /\ render'.buf = None
      /\ shown' = Append(shown, k) /\ output'.queue = output.queue
      /\ render'.firsts = IF shown = <<>> THEN render.firsts + 1 ELSE render.firsts
      /\ UNCHANGED <<kind, pts, ctl, input, callback, pcm, writer>>
  BY ShowsDoes
<1>2. ctl # "released"
  BY <1>1, NotReleased
<1>3. writer.frame = None /\ Near = {k}
  <2>1. Shape
    BY DEF IInv, Shape
  <2> QED
    BY <1>1, <2>1, NearIs
<1>4. Near' = {} /\ Stage2' = Stage2
  BY <1>1, <1>3, PlacesStay DEF Near
<1>5. shown' \in Seq(Packets) /\ Extended(shown, shown', k, 1)
  BY <1>1, TimesIs, Appending
<1>6. Times(k) = 0 /\ Times(k) + 1 = Total
  BY <1>1, <1>2, <1>3, Pairs DEF Played, Total
<1> HIDE DEF k
<1>7. 1 \in Nat \ {0}
  OBVIOUS
<1> QED
  BY <1>1, <1>2, <1>3, <1>4, <1>5, <1>6, <1>7, IsShown

\* A frame that is used up holds a packet that is over.
LEMMA RecyclesInOrder ==
  ASSUME IInv, WriteRecycles
  PROVE  Ordering' /\ ShownInOrder'
<1>1. /\ writer.frame \in PcmIds /\ writer.frame # None /\ Left(writer.frame) = 0 /\ writer'.frame = None
      /\ pcm'.queue = pcm.queue /\ pcm'.of = pcm.of
      /\ UNCHANGED <<kind, pts, ctl, input, output, callback, render, shown>>
  BY RecyclesDoes
<1>2. ctl # "released"
  BY NotReleased DEF WriteRecycles, IInv, Writing
<1>3. kind # "video" /\ Near = {}
  <2>1. Shape
    BY DEF IInv, Shape
  <2> QED
    BY <1>1, <2>1, NearIs
<1>4. Near' = {}
  <2>1. render.buf = None
    BY <1>3 DEF IInv, Rendering
  <2> QED
    BY <1>1, <2>1 DEF Near
<1>5. Stage2' = Stage2 /\ Stage3' = Stage3 /\ Stage4' = Stage4 /\ Stage5' = Stage5
  BY <1>1, PlacesStay
<1> QED
  BY <1>1, <1>2, <1>3, <1>4, <1>5, Calm, ShownStays

\* The oldest frame comes near.
LEMMA TakesInOrder ==
  ASSUME IInv, WriteTakes
  PROVE  Ordering' /\ ShownInOrder'
<1>0. ctl # "released"
  BY NotReleased DEF WriteTakes, IInv, Writing
<1>1. CASE pcm.queue = <<>>
  <2>1. /\ writer'.frame = writer.frame /\ UNCHANGED <<kind, pts, ctl, input, output, callback, render, pcm, shown>>
    BY <1>1, SilenceDoes
  <2>2. /\ Near' = Near /\ (Left(writer.frame))' = Left(writer.frame)
        /\ Stage2' = Stage2 /\ Stage3' = Stage3 /\ Stage4' = Stage4 /\ Stage5' = Stage5
    BY <2>1 DEF Near, Left, Pk, Packets, Stage2, Stage3, Stage4, Stage5
  <2> QED
    BY <1>0, <2>1, <2>2, Calm, ShownStays
<1>2. CASE pcm.queue # <<>>
  <2> DEFINE f == pcm.queue[1]
             h == pcm.of[f].packet
  <2>1. /\ writer.frame = None /\ f \in PcmIds /\ writer'.frame = f
        /\ pcm'.queue = Tail(pcm.queue) /\ pcm'.of = pcm.of
        /\ UNCHANGED <<kind, pts, ctl, input, output, callback, render, shown>>
    BY <1>2, TakesDoes
  <2>2. pcm.queue \in Seq(PcmIds) /\ WholeIn(pcm.queue, pcm.of) /\ ByContent(pcm.queue, pcm.of)
    BY DEF IInv, Pooled, Whole, Sorted
  <2>3. /\ Loaded(Tail(pcm.queue), pcm.of) \subseteq Loaded(pcm.queue, pcm.of)
        /\ pcm.of[f].left # 0 => h \in Loaded(pcm.queue, pcm.of)
        /\ pcm.of[f].left \in {0, FrameLen}
        /\ pcm.of[f].left # 0 => \A x \in Loaded(Tail(pcm.queue), pcm.of) : h < x
    BY <1>2, <2>2, PcmTailed
  <2>4. f # None
    BY <2>1, Ids DEF IInv
  <2>5. kind # "video" /\ render.buf = None /\ Near = {}
    <3>1. Shape
      BY DEF IInv, Shape
    <3>2. kind # "video"
      <4>1. In(pcm.queue, f)
        BY <1>2, <2>2, TailIn
      <4>2. f \in pcm.alloc
        BY <2>1, <4>1 DEF IInv, Frames
      <4> QED
        BY <4>2 DEF IInv, Pooled
    <3> QED
      BY <2>1, <3>1, <3>2, NearIs
  <2>6. /\ Stage2 = Loaded(pcm.queue, pcm.of) /\ Stage2' = Loaded(Tail(pcm.queue), pcm.of)
        /\ Stage3' = Stage3 /\ Stage4' = Stage4 /\ Stage5' = Stage5
    <3>1. OutPackets(output.queue) = {}
      BY <2>5 DEF IInv, Outputs, OutPackets
    <3> QED
      BY <2>1, <3>1, PlacesStay DEF Stage2
  <2>7. /\ Near' = IF pcm.of[f].left # 0 THEN {h} ELSE {}
        /\ (Left(writer.frame))' = pcm.of[f].left
    <3>1. pcm.of[f].left # 0 => h \in Packets
      <4>1. pcm.of[f] \in [packet : Packets \cup {0}, left : 0..FrameLen] /\ (pcm.of[f].left # 0 => pcm.of[f].packet # 0)
        BY <2>1 DEF IInv, Pooled
      <4> QED
        BY <4>1
    <3> HIDE DEF f
    <3> QED
      BY <2>1, <2>4, <2>5, <3>1 DEF Near, Left, Pk, Packets
  <2> HIDE DEF f, h
  <2>8. CASE pcm.of[f].left = 0
    BY <1>0, <2>1, <2>3, <2>5, <2>6, <2>7, <2>8, Calm, ShownStays
  <2>9. CASE pcm.of[f].left # 0
    <3>1. (Left(writer.frame))' = FrameLen /\ Near' = {h} /\ h \in Stage2 /\ Stage2' \subseteq Stage2
          /\ \A x \in Stage2' : h < x
      BY <2>3, <2>6, <2>7, <2>9
    <3>2. Ordering'
      BY <1>0, <2>1, <2>5, <3>1, ComesNear
    <3> QED
      BY <2>1, <3>2, ShownStays
  <2> QED
    BY <2>8, <2>9
<1> QED
  BY <1>1, <1>2

\* Copying announces the packet that is near, until it is over.
LEMMA CopiesInOrder ==
  ASSUME IInv, WriteCopies
  PROVE  Ordering' /\ ShownInOrder'
<1> DEFINE f == writer.frame
           k == Pk(f)
<1>1. PICK n \in Nat \ {0} :
        /\ f \in PcmIds /\ f # None
        /\ Left(f) - n \in 0..FrameLen /\ Left(f) # 0 /\ Left(f) \in Nat /\ k \in Packets
        /\ pcm' = [alloc |-> pcm.alloc, free |-> pcm.free, queue |-> pcm.queue,
                   of |-> [pcm.of EXCEPT ![f] = [packet |-> k, left |-> Left(f) - n]]]
        /\ writer' = [frame |-> f, want |-> writer.want - n]
        /\ shown' = shown \o [i \in 1..n |-> k]
        /\ UNCHANGED <<kind, pts, ctl, sys, input, held, output, callback, render, clock>>
  BY CopiesDoes
<1>2. ctl # "released"
  BY NotReleased DEF WriteCopies, IInv, Writing
<1>3. kind # "video" /\ Near = {k}
  <2>1. Shape
    BY DEF IInv, Shape
  <2> QED
    BY <1>1, <2>1, NearIs
<1>4. shown' \in Seq(Packets) /\ Extended(shown, shown', k, n)
  <2>1. shown \in Seq(Packets) /\ k \in Packets /\ n \in Nat
    BY <1>1, TimesIs
  <2> HIDE DEF k
  <2> QED
    BY <1>1, <2>1, Copying
<1>5. (Left(writer.frame))' = Left(f) - n /\ (Pk(writer.frame))' = k /\ writer'.frame = f
  <2>1. pcm'.of[f] = [packet |-> k, left |-> Left(f) - n] /\ writer'.frame = f
    BY <1>1 DEF IInv, Pooled
  <2> QED
    BY <2>1 DEF Left, Pk
<1>6. Stage2' = Stage2
  <2> DEFINE o == [pcm.of EXCEPT ![f] = [packet |-> k, left |-> Left(f) - n]]
             c == [packet |-> k, left |-> Left(f) - n]
  <2>1. o = [pcm.of EXCEPT ![f] = c] /\ pcm'.queue = pcm.queue /\ pcm'.of = o /\ output' = output
    BY <1>1
  <2>2. ~In(pcm.queue, f)
    BY <1>1 DEF IInv, Frames
  <2> HIDE DEF o, c, k, f
  <2>3. Loaded(pcm.queue, o) = Loaded(pcm.queue, pcm.of)
    BY <2>1, <2>2, Elsewhere
  <2> QED
    BY <2>1, <2>3 DEF Stage2
<1>7. Times(k) = FrameLen - Left(f) /\ FrameLen \in Nat /\ Times(k) \in Nat
  BY <1>2, <1>3, Pairs, TimesIs DEF Played
<1>8. Times(k) + n = FrameLen - (Left(writer.frame))' /\ Times(k) + n <= FrameLen
  BY <1>1, <1>5, <1>7
<1>9. Near' = IF (Left(writer.frame))' # 0 THEN {k} ELSE {}
  <2>1. render'.buf = None
    BY <1>1, <1>3 DEF IInv, Rendering
  <2>2. Packets' = Packets
    BY <1>1 DEF Packets
  <2> HIDE DEF k, f
  <2> QED
    BY <1>1, <1>5, <2>1, <2>2 DEF Near
<1>10. CASE (Left(writer.frame))' # 0
  <2>1. Near' = {k}
    BY <1>9, <1>10
  <2> HIDE DEF k, f
  <2> QED
    BY <1>1, <1>2, <1>3, <1>4, <1>6, <1>8, <2>1, IsShown
<1>11. CASE (Left(writer.frame))' = 0
  <2>1. Near' = {} /\ Times(k) + n = Total
    BY <1>3, <1>7, <1>8, <1>9, <1>11 DEF Total
  <2> HIDE DEF k, f
  <2> QED
    BY <1>1, <1>2, <1>3, <1>4, <1>6, <2>1, IsShown
<1> QED
  BY <1>10, <1>11

\* A step that touches neither packets nor what is shown.
Aside ==
  /\ UNCHANGED <<kind, pts, callback, shown>>
  /\ input'.coded = input.coded /\ input'.fed = input.fed
  /\ output'.queue = output.queue /\ pcm'.queue = pcm.queue /\ pcm'.of = pcm.of
  /\ writer'.frame = writer.frame
  /\ render'.buf = render.buf /\ render'.packet = render.packet /\ render'.firsts = render.firsts
  /\ ctl = "released" => ctl' = "released"
\* A step aside moves no packet;
LEMMA AsideInOrder ==
  ASSUME IInv, Aside
  PROVE  Ordering' /\ ShownInOrder'
<1>1. ShownInOrder'
  BY ShownStays DEF Aside
<1>2. CASE ctl = "released"
  BY <1>1, <1>2 DEF Aside, Ordering
<1>3. CASE ctl # "released"
  <2>1. /\ Near' = Near /\ (Left(writer.frame))' = Left(writer.frame)
        /\ Stage2' = Stage2 /\ Stage3' = Stage3 /\ Stage4' = Stage4 /\ Stage5' = Stage5
    BY DEF Aside, Near, Left, Pk, Packets, Stage2, Stage3, Stage4, Stage5
  <2>2. UNCHANGED <<kind, shown>>
    BY DEF Aside
  <2> QED
    BY <1>1, <1>3, <2>1, <2>2, Calm
<1> QED
  BY <1>2, <1>3

\* starting is one,
LEMMA StartingAside == ASSUME IInv, Starting PROVE Aside
<1>1. /\ UNCHANGED <<kind, pts, callback, shown, input, output, pcm, writer>> /\ ctl # "released"
      /\ render'.buf = render.buf /\ render'.packet = render.packet /\ render'.firsts = render.firsts
  <2>1. CASE InitSucceeds \/ InitFails \/ StartFails \/ StartVideo \/ StartRenderer \/ StartAudioCodec \/ StartReturns
    BY <2>1 DEF InitSucceeds, InitFails, StartFails, StartVideo, StartRenderer, StartAudioCodec, StartReturns, audio
  <2>2. CASE SpawnRender
    BY <2>2 DEF SpawnRender, audio, IInv, Rendering
  <2> QED
    BY <2>1, <2>2 DEF Starting
<1> QED
  BY <1>1 DEF Aside

\* so is asking for input,
LEMMA FeedingAside == ASSUME IInv, OnNeedInputBuffer \/ GetInputBuffer PROVE Aside
<1>1. CASE OnNeedInputBuffer
  <2>1. /\ input'.coded = input.coded /\ input'.fed = input.fed
        /\ UNCHANGED <<kind, pts, ctl, callback, shown, output, pcm, writer, render>>
    BY <1>1 DEF OnNeedInputBuffer, IInv, Feeding, lifecycle, audio
  <2> QED
    BY <2>1 DEF Aside
<1>2. CASE GetInputBuffer
  <2>1. UNCHANGED <<kind, pts, ctl, callback, shown, output, writer, render>>
    BY <1>2 DEF GetInputBuffer, lifecycle
  <2>2. input'.coded = input.coded /\ input'.fed = input.fed
    BY <1>2 DEF GetInputBuffer, IInv, Feeding
  <2>3. pcm'.queue = pcm.queue /\ pcm'.of = pcm.of
    <3>1. CASE kind = "raw"
      BY <1>2, <3>1, GetDoes
    <3>2. CASE kind # "raw"
      BY <1>2, <3>2 DEF GetInputBuffer
    <3> QED
      BY <3>1, <3>2
  <2> QED
    BY <2>1, <2>2, <2>3 DEF Aside
<1> QED
  BY <1>1, <1>2

\* so are the clock and the end of the render thread,
LEMMA PacingAside == ASSUME IInv, RenderEnds \/ (RenderHas /\ running) \/ Tick PROVE Aside
<1>1. CASE RenderEnds
  <2>1. UNCHANGED <<kind, pts, ctl, callback, shown, input, output, pcm, writer>>
    BY <1>1 DEF RenderEnds, lifecycle, audio
  <2>2. render'.buf = render.buf /\ render'.packet = render.packet /\ render'.firsts = render.firsts
    BY <1>1 DEF RenderEnds, IInv, Rendering
  <2> QED
    BY <2>1, <2>2 DEF Aside
<1>2. CASE RenderHas /\ running
  <2>1. UNCHANGED <<kind, pts, ctl, callback, shown, input, output, pcm, writer>>
    BY <1>2, PacesDoes
  <2>2. render'.buf = render.buf /\ render'.packet = render.packet /\ render'.firsts = render.firsts
    BY <1>2, PacesDoes
  <2> QED
    BY <2>1, <2>2 DEF Aside
<1>3. CASE Tick
  BY <1>3 DEF Tick, lifecycle, audio, Aside
<1> QED
  BY <1>1, <1>2, <1>3

\* so is the renderer that asks for data,
LEMMA WriteBeginsAside == ASSUME IInv, WriteBegins PROVE Aside
<1>1. UNCHANGED <<kind, pts, ctl, callback, shown, input, output, pcm, render>>
  BY DEF WriteBegins, lifecycle
<1>2. writer'.frame = writer.frame
  BY DEF WriteBegins, IInv, Writing
<1> QED
  BY <1>1, <1>2 DEF Aside

\* and so are the steps of Release before its last.
LEMMA EndingAside == ASSUME IInv, ReleaseBegins \/ ReleaseJoins \/ StopRenderer \/ DestroyCodec \/ UNCHANGED vars PROVE Aside
<1>1. CASE ReleaseBegins \/ ReleaseJoins \/ StopRenderer \/ DestroyCodec
  <2>1. UNCHANGED <<kind, pts, callback, shown, input, output, pcm, writer, render>> /\ ctl # "released"
    BY <1>1 DEF ReleaseBegins, ReleaseJoins, StopRenderer, DestroyCodec, audio
  <2> QED
    BY <2>1 DEF Aside
<1>2. CASE UNCHANGED vars
  BY <1>2 DEF vars, Aside
<1> QED
  BY <1>1, <1>2

\* Each step keeps the line and shows nothing out of order.
LEMMA OrderingKept ==
  ASSUME IInv, [Next]_vars
  PROVE  Ordering' /\ ShownInOrder'
<1>1. CASE Starting
  BY <1>1, StartingAside, AsideInOrder
<1>2. CASE OnNeedInputBuffer \/ GetInputBuffer
  BY <1>2, FeedingAside, AsideInOrder
<1>3. CASE SubmitInputBuffer
  BY <1>3, SubmitInOrder
<1>4. CASE Codec
  BY <1>4, OutputInOrder, DroppedInOrder, BufferedInOrder, PcmQueuedInOrder, CallbackInOrder DEF Codec
<1>5. CASE Render
  <2>1. CASE RenderEnds \/ (RenderHas /\ running)
    BY <2>1, PacingAside, AsideInOrder
  <2>2. CASE Frees
    BY <2>2, FreesInOrder
  <2>3. CASE RenderTakes \/ RenderShows
    BY <2>3, RenderTakesInOrder, ShowsInOrder
  <2> QED
    BY <1>5, <2>1, <2>2, <2>3 DEF Render, Frees
<1>6. CASE Tick
  BY <1>6, PacingAside, AsideInOrder
<1>7. CASE Writer
  BY <1>7, WriteBeginsAside, AsideInOrder, RecyclesInOrder, TakesInOrder, CopiesInOrder DEF Writer
<1>8. CASE ReleaseBegins \/ ReleaseJoins \/ StopRenderer \/ DestroyCodec \/ UNCHANGED vars
  BY <1>8, EndingAside, AsideInOrder
<1>9. CASE ReleaseRest
  <2>1. ctl' = "released" /\ UNCHANGED <<kind, pts, render, shown>>
    BY <1>9, RestDoes
  <2> QED
    BY <2>1, ShownStays DEF Ordering
<1> QED
  BY <1>1, <1>2, <1>3, <1>4, <1>5, <1>6, <1>7, <1>8, <1>9 DEF Next, Release, Done, vars

\* Every step keeps Control.
LEMMA ControlKept ==
  ASSUME IInv, [Next]_vars
  PROVE  Control'
<1> USE KindsAssumption, SizesAssumption, BuffersAssumption DEF IInv, Control
<1>1. CASE InitSucceeds
  BY <1>1 DEF Nothing, lifecycle, audio, InitSucceeds
<1>2. CASE InitFails
  BY <1>2 DEF Nothing, lifecycle, audio, InitFails
<1>3. CASE StartFails
  BY <1>3 DEF Nothing, lifecycle, audio, StartFails
<1>4. CASE StartVideo
  BY <1>4 DEF Nothing, lifecycle, audio, StartVideo
<1>5. CASE SpawnRender
  BY <1>5 DEF Nothing, lifecycle, audio, SpawnRender
<1>6. CASE StartRenderer
  BY <1>6 DEF Nothing, lifecycle, audio, StartRenderer
<1>7. CASE StartAudioCodec
  BY <1>7 DEF Nothing, lifecycle, audio, StartAudioCodec
<1>8. CASE StartReturns
  BY <1>8 DEF Nothing, lifecycle, audio, StartReturns
<1>9. CASE ReleaseBegins
  <2>1. /\ UNCHANGED <<kind, pts, sys>> /\ ctl \in {"on", "failed"}
        /\ running' = FALSE /\ started' \in BOOLEAN
    BY <1>9 DEF ReleaseBegins
  <2>2. /\ Nothing => ctl' = "released"
        /\ ~Nothing /\ kind = "video" => ctl' = "join"
        /\ ~Nothing /\ kind # "video" => ctl' \in {"stop renderer", "stop codec"}
    BY <1>9 DEF ReleaseBegins
  <2>3. sys.codec = "running" => ~Nothing
    BY NothingIs
  <2>4. Nothing' <=> Nothing
    BY <2>1 DEF Nothing
  <2>5. ctl' \in {"released", "join", "stop renderer", "stop codec"}
    BY <2>2
  <2> HIDE DEF Nothing
  <2> QED
    BY <2>1, <2>2, <2>3, <2>4, <2>5
<1>10. CASE ReleaseJoins
  BY <1>10 DEF Nothing, lifecycle, audio, ReleaseJoins, RenderJoined
<1>11. CASE StopRenderer
  BY <1>11 DEF Nothing, lifecycle, audio, StopRenderer
<1>12. CASE DestroyCodec
  BY <1>12 DEF Nothing, lifecycle, audio, DestroyCodec
<1>13. CASE ReleaseRest
  BY <1>13 DEF Nothing, lifecycle, audio, ReleaseRest
<1>14. CASE UNCHANGED <<ctl, kind, pts, running, started, sys>>
  BY <1>14, ControlSame
<1>15. CASE OnNeedInputBuffer \/ GetInputBuffer \/ SubmitInputBuffer \/ CodecOutput \/ OutputDropped \/ OutputSeen \/ OutputQueued \/ PcmSeen \/ PcmTaken \/ PcmQueued \/ RenderTakes \/ RenderEnds \/ RenderHas \/ RenderShows \/ RenderFrees \/ Tick \/ WriteBegins \/ WriteRecycles \/ WriteTakes \/ WriteCopies
  BY <1>14, <1>15 DEF OnNeedInputBuffer, GetInputBuffer, SubmitInputBuffer, CodecOutput, OutputDropped, OutputSeen, OutputQueued, PcmSeen, PcmTaken, PcmQueued, RenderTakes, RenderEnds, RenderHas, RenderShows, RenderFrees, Tick, WriteBegins, WriteRecycles, WriteTakes, WriteCopies, TakeFrame, Fill, Enqueue, Freed, NoCallback, QueueHasRoom, FreesBuffer, RenderWaits, Recycle, Exhausted, Least, lifecycle, audio
<1> QED
  BY <1>1, <1>2, <1>3, <1>4, <1>5, <1>6, <1>7, <1>8, <1>9, <1>10, <1>11, <1>12, <1>13, <1>14, <1>15 DEF Next, Starting, Codec, Render, Writer, Release, Done, vars

\* Every step keeps Calling.
LEMMA CallingKept ==
  ASSUME IInv, [Next]_vars
  PROVE  Calling'
<1> USE KindsAssumption, SizesAssumption, BuffersAssumption DEF IInv, Calling
<1>1. CASE InitSucceeds
  BY <1>1 DEF Control, Packets, PcmIds, lifecycle, audio, InitSucceeds
<1>2. CASE InitFails
  BY <1>2 DEF Control, Packets, PcmIds, lifecycle, audio, InitFails
<1>3. CASE StartVideo
  BY <1>3 DEF Control, Packets, PcmIds, lifecycle, audio, StartVideo
<1>4. CASE StartRenderer
  BY <1>4 DEF Control, Packets, PcmIds, lifecycle, audio, StartRenderer
<1>5. CASE StartAudioCodec
  BY <1>5 DEF Control, Packets, PcmIds, lifecycle, audio, StartAudioCodec
<1>6. CASE CodecOutput
  <2>0. PICK b \in output.free : callback' = [at |-> "check", buf |-> b, packet |-> Head(input.coded), frame |-> None]
    BY <1>6 DEF CodecOutput
  <2>1. /\ input.coded # <<>> /\ input.coded \in Seq(Packets) /\ b \in OutBuffers /\ b # None
        /\ sys.codec = "running" /\ UNCHANGED <<kind, pts, sys>>
    BY <1>6 DEF CodecOutput, Feeding, Outputs, lifecycle
  <2>2. Head(input.coded) \in Packets /\ Packets' = Packets /\ PcmIds' = PcmIds
    BY <2>1, HeadAndTail DEF Packets, PcmIds
  <2>3. 0 \notin Packets
    BY Numbers
  <2> QED
    BY <2>0, <2>1, <2>2, <2>3
<1>7. CASE OutputDropped
  BY <1>7 DEF Control, Packets, PcmIds, lifecycle, audio, OutputDropped, Freed, NoCallback
<1>8. CASE OutputSeen
  BY <1>8 DEF Control, Packets, PcmIds, lifecycle, audio, OutputSeen
<1>9. CASE OutputQueued
  BY <1>9 DEF Control, Packets, PcmIds, lifecycle, audio, OutputQueued, NoCallback
<1>10. CASE PcmSeen
  BY <1>10 DEF Control, Packets, PcmIds, lifecycle, audio, PcmSeen, QueueHasRoom
<1>11. CASE PcmTaken
  <2>1. /\ callback.at = "take" /\ UNCHANGED <<kind, pts, sys>>
        /\ callback' = [callback EXCEPT !.at = "enqueue", !.frame = FrameFor(pcm)]
    BY <1>11 DEF PcmTaken, lifecycle
  <2>2. FrameFor(pcm) \in PcmIds
    BY <2>1, FrameIs
  <2>3. None \notin PcmIds
    BY Ids
  <2>4. Packets' = Packets /\ PcmIds' = PcmIds
    BY <2>1 DEF Packets, PcmIds
  <2> QED
    BY <2>1, <2>2, <2>3, <2>4
<1>12. CASE PcmQueued
  BY <1>12 DEF Control, Packets, PcmIds, lifecycle, audio, PcmQueued, Enqueue, Freed, NoCallback
<1>13. CASE StopRenderer
  BY <1>13 DEF Control, Packets, PcmIds, lifecycle, audio, StopRenderer
<1>14. CASE DestroyCodec
  BY <1>14 DEF Control, Packets, PcmIds, lifecycle, audio, DestroyCodec
<1>15. CASE ReleaseRest
  BY <1>15 DEF Control, Packets, PcmIds, lifecycle, audio, ReleaseRest
<1>16. CASE UNCHANGED <<callback, kind, pts, sys>>
  BY <1>16 DEF Packets, PcmIds
<1>17. CASE StartFails \/ SpawnRender \/ StartReturns \/ OnNeedInputBuffer \/ GetInputBuffer \/ SubmitInputBuffer \/ RenderTakes \/ RenderEnds \/ RenderHas \/ RenderShows \/ RenderFrees \/ Tick \/ WriteBegins \/ WriteRecycles \/ WriteTakes \/ WriteCopies \/ ReleaseBegins \/ ReleaseJoins
  BY <1>16, <1>17 DEF StartFails, SpawnRender, StartReturns, OnNeedInputBuffer, GetInputBuffer, SubmitInputBuffer, RenderTakes, RenderEnds, RenderHas, RenderShows, RenderFrees, Tick, WriteBegins, WriteRecycles, WriteTakes, WriteCopies, ReleaseBegins, ReleaseJoins, TakeFrame, Fill, Enqueue, FreesBuffer, RenderWaits, Freed, Recycle, Exhausted, Least, Nothing, RenderJoined, lifecycle, audio
<1> QED
  BY <1>1, <1>2, <1>3, <1>4, <1>5, <1>6, <1>7, <1>8, <1>9, <1>10, <1>11, <1>12, <1>13, <1>14, <1>15, <1>16, <1>17 DEF Next, Starting, Codec, Render, Writer, Release, Done, vars

\* Every step keeps Rendering.
LEMMA RenderingKept ==
  ASSUME IInv, [Next]_vars
  PROVE  Rendering'
<1> USE KindsAssumption, SizesAssumption, BuffersAssumption DEF IInv, Rendering
<1>1. CASE InitSucceeds
  BY <1>1 DEF Control, Packets, lifecycle, audio, InitSucceeds
<1>2. CASE InitFails
  BY <1>2 DEF Control, Packets, lifecycle, audio, InitFails
<1>3. CASE StartFails
  BY <1>3 DEF Control, Packets, lifecycle, audio, StartFails
<1>4. CASE StartVideo
  BY <1>4 DEF Control, Packets, lifecycle, audio, StartVideo
<1>5. CASE SpawnRender
  BY <1>5 DEF Control, Packets, lifecycle, audio, SpawnRender
<1>6. CASE StartRenderer
  BY <1>6 DEF Control, Packets, lifecycle, audio, StartRenderer
<1>7. CASE StartAudioCodec
  BY <1>7 DEF Control, Packets, lifecycle, audio, StartAudioCodec
<1>8. CASE StartReturns
  BY <1>8 DEF Control, Packets, lifecycle, audio, StartReturns
<1>9. CASE RenderTakes
  <2>1. /\ output.queue # <<>> /\ output.queue \in Seq(Entry) /\ render.at = "wait"
        /\ render' = [render EXCEPT !.at = "have", !.buf = Head(output.queue).buf,
                                    !.packet = Head(output.queue).packet]
        /\ UNCHANGED <<kind, pts, ctl, sys>>
    BY <1>9 DEF RenderTakes, Outputs, Entry, lifecycle
  <2>2. Head(output.queue) \in Entry /\ Packets' = Packets
    BY <2>1, HeadAndTail DEF Packets
  <2>3. Head(output.queue).buf \in OutBuffers /\ Head(output.queue).packet \in Packets
    BY <2>2 DEF Entry
  <2>4. 0 \notin Packets
    BY Numbers
  <2> QED
    BY <2>1, <2>2, <2>3, <2>4
<1>10. CASE RenderEnds
  BY <1>10 DEF Control, Packets, lifecycle, audio, RenderEnds
<1>11. CASE RenderHas
  <2>1. /\ render.at \in {"have", "pace"} /\ UNCHANGED <<kind, pts, ctl, sys>>
        /\ \/ render' = [render EXCEPT !.at = "pace"]
           \/ \E n \in {render.firsts, render.firsts + 1} :
                render' = [at |-> "wait", buf |-> None, packet |-> 0, firsts |-> n]
    BY <1>11 DEF RenderHas, FreesBuffer, RenderWaits, lifecycle
  <2>2. Packets' = Packets
    BY <2>1 DEF Packets
  <2> QED
    BY <2>1, <2>2
<1>12. CASE RenderShows
  <2>1. /\ render.at \in {"have", "pace"} /\ UNCHANGED <<kind, pts, ctl, sys>>
        /\ \/ render' = [render EXCEPT !.at = "pace"]
           \/ \E n \in {render.firsts, render.firsts + 1} :
                render' = [at |-> "wait", buf |-> None, packet |-> 0, firsts |-> n]
    BY <1>12 DEF RenderShows, FreesBuffer, RenderWaits, lifecycle
  <2>2. Packets' = Packets
    BY <2>1 DEF Packets
  <2> QED
    BY <2>1, <2>2
<1>13. CASE RenderFrees
  <2>1. /\ render.at \in {"have", "pace"} /\ UNCHANGED <<kind, pts, ctl, sys>>
        /\ \/ render' = [render EXCEPT !.at = "pace"]
           \/ \E n \in {render.firsts, render.firsts + 1} :
                render' = [at |-> "wait", buf |-> None, packet |-> 0, firsts |-> n]
    BY <1>13 DEF RenderFrees, FreesBuffer, RenderWaits, lifecycle
  <2>2. Packets' = Packets
    BY <2>1 DEF Packets
  <2> QED
    BY <2>1, <2>2
<1>14. CASE ReleaseBegins
  <2>1. /\ UNCHANGED <<kind, pts, sys, render>> /\ ctl \in {"on", "failed"}
        /\ ~Nothing /\ kind = "video" => ctl' = "join"
    BY <1>14 DEF ReleaseBegins
  <2>2. Packets' = Packets /\ (sys.codec = "running" => ~Nothing)
    BY <2>1 DEF Packets, Nothing
  <2> QED
    BY <2>1, <2>2
<1>15. CASE ReleaseJoins
  BY <1>15 DEF Control, Packets, lifecycle, audio, ReleaseJoins, RenderJoined
<1>16. CASE StopRenderer
  BY <1>16 DEF Control, Packets, lifecycle, audio, StopRenderer
<1>17. CASE DestroyCodec
  BY <1>17 DEF Control, Packets, lifecycle, audio, DestroyCodec
<1>18. CASE ReleaseRest
  BY <1>18 DEF Control, Packets, lifecycle, audio, ReleaseRest
<1>19. CASE UNCHANGED <<ctl, kind, pts, render, sys>>
  BY <1>19 DEF Packets
<1>20. CASE OnNeedInputBuffer \/ GetInputBuffer \/ SubmitInputBuffer \/ CodecOutput \/ OutputDropped \/ OutputSeen \/ OutputQueued \/ PcmSeen \/ PcmTaken \/ PcmQueued \/ Tick \/ WriteBegins \/ WriteRecycles \/ WriteTakes \/ WriteCopies
  BY <1>19, <1>20 DEF OnNeedInputBuffer, GetInputBuffer, SubmitInputBuffer, CodecOutput, OutputDropped, OutputSeen, OutputQueued, PcmSeen, PcmTaken, PcmQueued, Tick, WriteBegins, WriteRecycles, WriteTakes, WriteCopies, TakeFrame, Fill, Enqueue, Freed, NoCallback, QueueHasRoom, Recycle, Exhausted, Least, lifecycle, audio
<1> QED
  BY <1>1, <1>2, <1>3, <1>4, <1>5, <1>6, <1>7, <1>8, <1>9, <1>10, <1>11, <1>12, <1>13, <1>14, <1>15, <1>16, <1>17, <1>18, <1>19, <1>20 DEF Next, Starting, Codec, Render, Writer, Release, Done, vars

\* Every step keeps Feeding.
LEMMA FeedingKept ==
  ASSUME IInv, [Next]_vars
  PROVE  Feeding'
<1> USE KindsAssumption, SizesAssumption, BuffersAssumption DEF IInv, Feeding
<1>1. CASE InitSucceeds
  BY <1>1 DEF Control, Packets, PcmIds, lifecycle, audio, InitSucceeds
<1>2. CASE InitFails
  BY <1>2 DEF Control, Packets, PcmIds, lifecycle, audio, InitFails
<1>3. CASE StartFails
  BY <1>3 DEF Control, Packets, PcmIds, lifecycle, audio, StartFails
<1>4. CASE StartVideo
  BY <1>4 DEF Control, Packets, PcmIds, lifecycle, audio, StartVideo
<1>5. CASE SpawnRender
  BY <1>5 DEF Control, Packets, PcmIds, lifecycle, audio, SpawnRender
<1>6. CASE StartRenderer
  BY <1>6 DEF Control, Packets, PcmIds, lifecycle, audio, StartRenderer
<1>7. CASE StartAudioCodec
  BY <1>7 DEF Control, Packets, PcmIds, lifecycle, audio, StartAudioCodec
<1>8. CASE StartReturns
  BY <1>8 DEF Control, Packets, PcmIds, lifecycle, audio, StartReturns
<1>9. CASE OnNeedInputBuffer
  <2>0. Packets' = Packets /\ PcmIds' = PcmIds /\ UNCHANGED <<kind, pts, ctl>>
    BY <1>9 DEF OnNeedInputBuffer, lifecycle, Packets, PcmIds
  <2>1. PICK b \in input.free : input' = [input EXCEPT !.free = @ \ {b}, !.queue = Append(@, b)]
    BY <1>9 DEF OnNeedInputBuffer
  <2>2. Append(input.queue, b) \in Seq(InBuffers)
    BY Appended
  <2>3. /\ input'.free = input.free \ {b} /\ input'.queue = Append(input.queue, b)
        /\ input'.fed = input.fed /\ input'.coded = input.coded /\ held' = held
    BY <1>9, <2>1 DEF OnNeedInputBuffer
  <2>4. input' = [free |-> input.free \ {b}, queue |-> Append(input.queue, b), fed |-> input.fed, coded |-> input.coded]
    BY <2>1
  <2> QED
    BY <2>0, <2>2, <2>3, <2>4
<1>10. CASE GetInputBuffer
  <2>0. Packets' = Packets /\ PcmIds' = PcmIds /\ UNCHANGED <<kind, pts, ctl>>
    BY <1>10 DEF GetInputBuffer, lifecycle, Packets, PcmIds
  <2>1. /\ held = None /\ ctl = "on" /\ input.fed < Len(pts)
        /\ input'.free = input.free /\ input'.fed = input.fed /\ input'.coded = input.coded
    BY <1>10 DEF GetInputBuffer
  <2>2. CASE kind = "raw"
    <3>1. FrameFor(pcm) \in PcmIds
      BY <2>1, <2>2, FrameIs
    <3> QED
      BY <1>10, <2>0, <2>1, <2>2, <3>1 DEF GetInputBuffer
  <2>3. CASE kind # "raw"
    <3>1. /\ input.queue # <<>> /\ held' = Head(input.queue) /\ input'.queue = Tail(input.queue)
      BY <1>10, <2>3 DEF GetInputBuffer
    <3>2. Head(input.queue) \in InBuffers /\ Tail(input.queue) \in Seq(InBuffers)
      BY <3>1, HeadAndTail
    <3>3. Head(input.queue) \notin PcmIds
      BY <3>2, Ids
    <3>4. input' = [free |-> input.free, queue |-> Tail(input.queue), fed |-> input.fed, coded |-> input.coded]
      BY <1>10, <2>3 DEF GetInputBuffer
    <3> QED
      BY <2>0, <2>1, <2>3, <3>1, <3>2, <3>3, <3>4
  <2> QED
    BY <2>2, <2>3
<1>11. CASE SubmitInputBuffer
  <2>0. Packets' = Packets /\ PcmIds' = PcmIds /\ UNCHANGED <<kind, pts, ctl>>
    BY <1>11 DEF SubmitInputBuffer, lifecycle, Packets, PcmIds
  <2>1. /\ held # None /\ held' = None /\ input'.fed = input.fed + 1 /\ input'.queue = input.queue
        /\ \/ input'.free = input.free /\ input'.coded = input.coded
           \/ /\ kind # "raw" /\ input'.free = input.free \cup {held}
              /\ input'.coded \in {input.coded, Append(input.coded, input.fed + 1)}
    BY <1>11 DEF SubmitInputBuffer
  <2>2. /\ Len(pts) \in Nat /\ input.fed \in Nat /\ input.fed + 1 \in 0..Len(pts)
        /\ input.fed + 1 \in Packets
    <3>1. Len(pts) \in Nat /\ Packets = 1..Len(pts)
      BY Numbers
    <3> QED
      BY <2>1, <3>1
  <2>3. Append(input.coded, input.fed + 1) \in Seq(Packets)
    BY <2>2, Appended
  <2>4. kind # "raw" => held \in InBuffers
    BY <2>1
  <2>5. input' = [free |-> input'.free, queue |-> input.queue, fed |-> input.fed + 1, coded |-> input'.coded]
    BY <1>11 DEF SubmitInputBuffer
  <2>6. input'.free \subseteq InBuffers /\ input'.coded \in Seq(Packets)
    BY <2>1, <2>3, <2>4
  <2> QED
    BY <2>0, <2>1, <2>2, <2>5, <2>6
<1>12. CASE CodecOutput
  <2>0. Packets' = Packets /\ PcmIds' = PcmIds /\ UNCHANGED <<kind, pts, ctl>>
    BY <1>12 DEF CodecOutput, lifecycle, Packets, PcmIds
  <2>1. /\ input.coded # <<>> /\ input'.coded = Tail(input.coded) /\ input'.free = input.free
        /\ input'.fed = input.fed /\ input'.queue = input.queue /\ held' = held
    BY <1>12 DEF CodecOutput
  <2>2. Tail(input.coded) \in Seq(Packets)
    BY <2>1, HeadAndTail
  <2>3. input' = [free |-> input.free, queue |-> input.queue, fed |-> input.fed, coded |-> Tail(input.coded)]
    BY <1>12 DEF CodecOutput
  <2> QED
    BY <2>0, <2>1, <2>2, <2>3
<1>13. CASE ReleaseBegins
  BY <1>13 DEF Control, Packets, PcmIds, lifecycle, audio, ReleaseBegins, Nothing
<1>14. CASE ReleaseJoins
  BY <1>14 DEF Control, Packets, PcmIds, lifecycle, audio, ReleaseJoins, RenderJoined
<1>15. CASE StopRenderer
  BY <1>15 DEF Control, Packets, PcmIds, lifecycle, audio, StopRenderer
<1>16. CASE DestroyCodec
  BY <1>16 DEF Control, Packets, PcmIds, lifecycle, audio, DestroyCodec
<1>17. CASE ReleaseRest
  BY <1>17 DEF Control, Packets, PcmIds, lifecycle, audio, ReleaseRest
<1>18. CASE UNCHANGED <<ctl, held, input, kind, pts>>
  BY <1>18 DEF Packets, PcmIds
<1>19. CASE OutputDropped \/ OutputSeen \/ OutputQueued \/ PcmSeen \/ PcmTaken \/ PcmQueued \/ RenderTakes \/ RenderEnds \/ RenderHas \/ RenderShows \/ RenderFrees \/ Tick \/ WriteBegins \/ WriteRecycles \/ WriteTakes \/ WriteCopies
  BY <1>18, <1>19 DEF OutputDropped, OutputSeen, OutputQueued, PcmSeen, PcmTaken, PcmQueued, RenderTakes, RenderEnds, RenderHas, RenderShows, RenderFrees, Tick, WriteBegins, WriteRecycles, WriteTakes, WriteCopies, Freed, NoCallback, QueueHasRoom, Fill, TakeFrame, Enqueue, FreesBuffer, RenderWaits, Recycle, Exhausted, Least, lifecycle, audio
<1> QED
  BY <1>1, <1>2, <1>3, <1>4, <1>5, <1>6, <1>7, <1>8, <1>9, <1>10, <1>11, <1>12, <1>13, <1>14, <1>15, <1>16, <1>17, <1>18, <1>19 DEF Next, Starting, Codec, Render, Writer, Release, Done, vars

\* Every step keeps Outputs.
LEMMA OutputsKept ==
  ASSUME IInv, [Next]_vars
  PROVE  Outputs'
<1> USE KindsAssumption, SizesAssumption, BuffersAssumption DEF IInv, Outputs
<1>1. CASE CodecOutput
  <2>0. Entry' = Entry /\ kind' = kind
    BY <1>1 DEF CodecOutput, lifecycle, Entry, Packets
  <2>1. PICK b \in output.free : output' = [free |-> output.free \ {b}, queue |-> output.queue]
    BY <1>1, OutputDoes
  <2> QED
    BY <2>0, <2>1
<1>2. CASE OutputDropped
  <2>0. Entry' = Entry /\ kind' = kind
    BY <1>2 DEF OutputDropped, lifecycle, Entry, Packets
  <2> QED
    BY <1>2, <2>0, DroppedDoes
<1>3. CASE OutputQueued
  <2>0. Entry' = Entry /\ kind' = kind
    BY <1>3 DEF OutputQueued, lifecycle, Entry, Packets
  <2>1. PICK e \in Entry : output' = [free |-> output.free, queue |-> Append(output.queue, e)] /\ kind = "video"
    BY <1>3, BufferedDoes
  <2>2. Append(output.queue, e) \in Seq(Entry)
    BY Appended
  <2> QED
    BY <2>0, <2>1, <2>2
<1>4. CASE PcmQueued
  <2>0. Entry' = Entry /\ kind' = kind
    BY <1>4 DEF PcmQueued, lifecycle, Entry, Packets
  <2> QED
    BY <1>4, <2>0, QueuedDoes
<1>5. CASE RenderTakes
  <2>0. Entry' = Entry /\ kind' = kind
    BY <1>5 DEF RenderTakes, lifecycle, Entry, Packets
  <2>2. kind = "video"
    BY <1>5 DEF RenderTakes, Rendering
  <2>1. output' = [free |-> output.free, queue |-> Tail(output.queue)] /\ Tail(output.queue) \in Seq(Entry)
    <3> HIDE DEF IInv, Outputs
    <3> QED
      BY <1>5, RenderTakesDoes
  <2> QED
    BY <2>0, <2>1, <2>2
<1>6. CASE RenderHas
  <2>0. Entry' = Entry /\ kind' = kind
    BY <1>6 DEF RenderHas, lifecycle, Entry, Packets
  <2>1. CASE running
    BY <1>6, <2>0, <2>1, PacesDoes
  <2>2. CASE ~running
    BY <1>6, <2>0, <2>2, FreesDoes DEF Frees
  <2> QED
    BY <2>1, <2>2
<1>7. CASE RenderShows
  <2>0. Entry' = Entry /\ kind' = kind
    BY <1>7 DEF RenderShows, lifecycle, Entry, Packets
  <2> QED
    BY <1>7, <2>0, ShowsDoes
<1>8. CASE RenderFrees
  <2>0. Entry' = Entry /\ kind' = kind
    BY <1>8 DEF RenderFrees, lifecycle, Entry, Packets
  <2> QED
    BY <1>8, <2>0, FreesDoes DEF Frees
<1>9. CASE ReleaseRest
  <2>0. Entry' = Entry /\ kind' = kind /\ <<>> \in Seq(Entry)
    BY <1>9, EmptySeq DEF ReleaseRest, Entry, Packets
  <2>1. output' = [free |-> output.free, queue |-> <<>>]
    <3> HIDE DEF IInv, Outputs
    <3> QED
      BY <1>9, RestDoes
  <2> QED
    BY <2>0, <2>1
<1>10. CASE UNCHANGED <<kind, output, pts>>
  BY <1>10 DEF Packets, Entry
<1>11. CASE InitSucceeds \/ InitFails \/ StartFails \/ StartVideo \/ SpawnRender \/ StartRenderer \/ StartAudioCodec \/ StartReturns \/ OnNeedInputBuffer \/ GetInputBuffer \/ SubmitInputBuffer \/ OutputSeen \/ PcmSeen \/ PcmTaken \/ RenderEnds \/ Tick \/ WriteBegins \/ WriteRecycles \/ WriteTakes \/ WriteCopies \/ ReleaseBegins \/ ReleaseJoins \/ StopRenderer \/ DestroyCodec
  BY <1>10, <1>11 DEF InitSucceeds, InitFails, StartFails, StartVideo, SpawnRender, StartRenderer, StartAudioCodec, StartReturns, OnNeedInputBuffer, GetInputBuffer, SubmitInputBuffer, OutputSeen, PcmSeen, PcmTaken, RenderEnds, Tick, WriteBegins, WriteRecycles, WriteTakes, WriteCopies, ReleaseBegins, ReleaseJoins, StopRenderer, DestroyCodec, TakeFrame, Fill, Enqueue, QueueHasRoom, Recycle, Exhausted, Least, Nothing, RenderJoined, lifecycle, audio
<1> QED
  BY <1>1, <1>2, <1>3, <1>4, <1>5, <1>6, <1>7, <1>8, <1>9, <1>10, <1>11 DEF Next, Starting, Codec, Render, Writer, Release, Done, vars

\* Every step keeps Pacing.
LEMMA PacingKept ==
  ASSUME IInv, [Next]_vars
  PROVE  Pacing'
<1> USE KindsAssumption, SizesAssumption, BuffersAssumption DEF IInv, Pacing
<1>1. CASE RenderHas
  <2>1. CASE running
    <3>1. pts[render.packet] \in Int /\ clock' = Target(clock, pts[render.packet])
      BY <1>1, <2>1, PacesDoes
    <3>2. clock \in [set : BOOLEAN, pts : Int, slack : Int]
      OBVIOUS
    <3> HIDE DEF IInv, Pacing
    <3>3. /\ clock' \in [set : BOOLEAN, pts : Int, slack : Int] /\ clock'.slack <= LeadCap
      BY <3>1, <3>2, TargetIs
    <3> QED
      BY <3>3 DEF Pacing
  <2>2. CASE ~running
    BY <1>1, <2>2, FreesDoes DEF Frees
  <2> QED
    BY <2>1, <2>2
<1>2. CASE Tick
  BY <1>2 DEF lifecycle, audio, Tick
<1>3. CASE UNCHANGED <<clock>>
  BY <1>3
<1>4. CASE InitSucceeds \/ InitFails \/ StartFails \/ StartVideo \/ SpawnRender \/ StartRenderer \/ StartAudioCodec \/ StartReturns \/ OnNeedInputBuffer \/ GetInputBuffer \/ SubmitInputBuffer \/ CodecOutput \/ OutputDropped \/ OutputSeen \/ OutputQueued \/ PcmSeen \/ PcmTaken \/ PcmQueued \/ RenderTakes \/ RenderEnds \/ RenderShows \/ RenderFrees \/ WriteBegins \/ WriteRecycles \/ WriteTakes \/ WriteCopies \/ ReleaseBegins \/ ReleaseJoins \/ StopRenderer \/ DestroyCodec \/ ReleaseRest
  BY <1>3, <1>4 DEF InitSucceeds, InitFails, StartFails, StartVideo, SpawnRender, StartRenderer, StartAudioCodec, StartReturns, OnNeedInputBuffer, GetInputBuffer, SubmitInputBuffer, CodecOutput, OutputDropped, OutputSeen, OutputQueued, PcmSeen, PcmTaken, PcmQueued, RenderTakes, RenderEnds, RenderShows, RenderFrees, WriteBegins, WriteRecycles, WriteTakes, WriteCopies, ReleaseBegins, ReleaseJoins, StopRenderer, DestroyCodec, ReleaseRest, TakeFrame, Fill, Enqueue, Freed, NoCallback, QueueHasRoom, RenderWaits, FreesBuffer, Recycle, Exhausted, Least, Nothing, RenderJoined, lifecycle, audio
<1> QED
  BY <1>1, <1>2, <1>3, <1>4 DEF Next, Starting, Codec, Render, Writer, Release, Done, vars

\* Every step keeps Pooled.
LEMMA PooledKept ==
  ASSUME IInv, [Next]_vars
  PROVE  Pooled'
<1> USE KindsAssumption, SizesAssumption, BuffersAssumption DEF IInv, Pooled
<1>1. CASE GetInputBuffer
  <2>0. Packets' = Packets /\ PcmIds' = PcmIds /\ kind' = kind
    BY <1>1 DEF GetInputBuffer, lifecycle, PcmIds, Packets
  <2>1. CASE kind = "raw"
    <3>1. /\ held' \in PcmIds
          /\ pcm' = [alloc |-> pcm.alloc \cup {held'}, free |-> pcm.free \ {held'}, queue |-> pcm.queue, of |-> pcm.of]
      BY <1>1, <2>1, GetDoes
    <3> HIDE DEF GetInputBuffer
    <3> QED
      BY <2>0, <2>1, <3>1
  <2>2. CASE kind # "raw"
    BY <1>1, <2>0, <2>2 DEF GetInputBuffer
  <2> QED
    BY <2>1, <2>2
<1>2. CASE SubmitInputBuffer
  <2>0. Packets' = Packets /\ PcmIds' = PcmIds /\ kind' = kind
    BY <1>2 DEF SubmitInputBuffer, lifecycle, PcmIds, Packets
  <2>1. CASE kind = "raw"
    <3>1. PICK c \in Content :
            /\ held \in PcmIds /\ input.fed + 1 \in Packets
            /\ pcm' = [alloc |-> pcm.alloc, free |-> pcm.free, queue |-> Append(pcm.queue, held),
                       of |-> [pcm.of EXCEPT ![held] = c]]
      BY <1>2, <2>1, SubmitDoes
    <3>2. c \in [packet : Packets \cup {0}, left : 0..FrameLen] /\ (c.left # 0 => c.packet # 0)
      <4>1. 0 \notin Packets /\ FrameLen \in Nat
        BY Numbers, SizesAssumption
      <4> QED
        BY <3>1, <4>1 DEF Content
    <3>3. Append(pcm.queue, held) \in Seq(PcmIds)
      BY <3>1, Appended
    <3> QED
      BY <2>0, <2>1, <3>1, <3>2, <3>3
  <2>2. CASE kind # "raw"
    BY <1>2, <2>0, <2>2 DEF SubmitInputBuffer
  <2> QED
    BY <2>1, <2>2
<1>3. CASE PcmTaken
  <2>0. Packets' = Packets /\ PcmIds' = PcmIds /\ kind' = kind
    BY <1>3 DEF PcmTaken, lifecycle, PcmIds, Packets
  <2>1. PICK f \in PcmIds :
          /\ pcm' = [alloc |-> pcm.alloc \cup {f}, free |-> pcm.free \ {f}, queue |-> pcm.queue,
                     of |-> [pcm.of EXCEPT ![f] = [packet |-> callback.packet, left |-> FrameLen]]]
          /\ kind = "audio" /\ callback.packet \in Packets
    BY <1>3, TakenDoes
  <2>2. 0 \notin Packets /\ FrameLen \in 0..FrameLen
    BY Numbers, SizesAssumption
  <2> QED
    BY <2>0, <2>1, <2>2
<1>4. CASE PcmQueued
  <2>0. Packets' = Packets /\ PcmIds' = PcmIds /\ kind' = kind
    BY <1>4 DEF PcmQueued, lifecycle, PcmIds, Packets
  <2>1. /\ callback.frame \in PcmIds /\ kind = "audio"
        /\ pcm' = [alloc |-> pcm.alloc, free |-> pcm.free, queue |-> Append(pcm.queue, callback.frame), of |-> pcm.of]
    <3> HIDE DEF IInv, Pooled
    <3> QED
      BY <1>4, QueuedDoes
  <2>2. Append(pcm.queue, callback.frame) \in Seq(PcmIds)
    BY <2>1, Appended
  <2> QED
    BY <2>0, <2>1, <2>2
<1>5. CASE WriteRecycles
  <2>0. Packets' = Packets /\ PcmIds' = PcmIds /\ kind' = kind
    BY <1>5 DEF WriteRecycles, lifecycle, PcmIds, Packets
  <2>1. writer.frame \in pcm.alloc
    BY <1>5, RecyclesDoes DEF Frames
  <2> QED
    BY <1>5, <2>0, <2>1, RecyclesDoes
<1>6. CASE WriteTakes
  <2>0. Packets' = Packets /\ PcmIds' = PcmIds /\ kind' = kind
    BY <1>6 DEF WriteTakes, lifecycle, PcmIds, Packets
  <2>1. CASE pcm.queue = <<>>
    BY <1>6, <2>0, <2>1, SilenceDoes
  <2>2. CASE pcm.queue # <<>>
    <3>1. /\ pcm' = [alloc |-> pcm.alloc, free |-> pcm.free, queue |-> Tail(pcm.queue), of |-> pcm.of]
          /\ Tail(pcm.queue) \in Seq(PcmIds)
      <4> HIDE DEF IInv, Pooled
      <4> QED
        BY <1>6, <2>2, TakesDoes
    <3> QED
      BY <2>0, <3>1
  <2> QED
    BY <2>1, <2>2
<1>7. CASE WriteCopies
  <2>0. Packets' = Packets /\ PcmIds' = PcmIds /\ kind' = kind
    BY <1>7 DEF WriteCopies, lifecycle, PcmIds, Packets
  <2> DEFINE f == writer.frame
  <2>1. PICK n \in Nat \ {0} :
         /\ f \in PcmIds /\ Left(f) - n \in 0..FrameLen /\ Pk(f) \in Packets
         /\ pcm' = [alloc |-> pcm.alloc, free |-> pcm.free, queue |-> pcm.queue,
                    of |-> [pcm.of EXCEPT ![f] = [packet |-> Pk(f), left |-> Left(f) - n]]]
    <3> HIDE DEF IInv, Pooled
    <3> QED
      BY <1>7, CopiesDoes
  <2>2. 0 \notin Packets
    BY Numbers
  <2> QED
    BY <2>0, <2>1, <2>2
<1>8. CASE ReleaseRest
  <2>0. Packets' = Packets /\ PcmIds' = PcmIds /\ kind' = kind
    BY <1>8 DEF ReleaseRest, lifecycle, PcmIds, Packets
  <2>1. <<>> \in Seq(PcmIds)
    BY EmptySeq
  <2>2. pcm' = [alloc |-> {}, free |-> {}, queue |-> <<>>, of |-> pcm.of]
    <3> HIDE DEF IInv, Pooled
    <3> QED
      BY <1>8, RestDoes
  <2> QED
    BY <2>0, <2>1, <2>2
<1>9. CASE UNCHANGED <<kind, pcm, pts>>
  BY <1>9 DEF Packets, PcmIds
<1>10. CASE InitSucceeds \/ InitFails \/ StartFails \/ StartVideo \/ SpawnRender \/ StartRenderer \/ StartAudioCodec \/ StartReturns \/ OnNeedInputBuffer \/ CodecOutput \/ OutputDropped \/ OutputSeen \/ OutputQueued \/ PcmSeen \/ RenderTakes \/ RenderEnds \/ RenderHas \/ RenderShows \/ RenderFrees \/ Tick \/ WriteBegins \/ ReleaseBegins \/ ReleaseJoins \/ StopRenderer \/ DestroyCodec
  BY <1>9, <1>10 DEF InitSucceeds, InitFails, StartFails, StartVideo, SpawnRender, StartRenderer, StartAudioCodec, StartReturns, OnNeedInputBuffer, CodecOutput, OutputDropped, OutputSeen, OutputQueued, PcmSeen, RenderTakes, RenderEnds, RenderHas, RenderShows, RenderFrees, Tick, WriteBegins, ReleaseBegins, ReleaseJoins, StopRenderer, DestroyCodec, Freed, NoCallback, QueueHasRoom, FreesBuffer, RenderWaits, Nothing, RenderJoined, lifecycle, audio
<1> QED
  BY <1>1, <1>2, <1>3, <1>4, <1>5, <1>6, <1>7, <1>8, <1>9, <1>10 DEF Next, Starting, Codec, Render, Writer, Release, Done, vars

\* Every step keeps Writing.
LEMMA WritingKept ==
  ASSUME IInv, [Next]_vars
  PROVE  Writing'
<1> USE KindsAssumption, SizesAssumption, BuffersAssumption DEF IInv, Writing
<1>1. CASE InitSucceeds
  <2>0. Packets' = Packets /\ PcmIds' = PcmIds /\ kind' = kind
    BY <1>1 DEF InitSucceeds, lifecycle, PcmIds, Packets
  <2>1. writer.want = 0 /\ UNCHANGED writer
    BY <1>1 DEF InitSucceeds, Control, Nothing, audio
  <2> QED
    BY <2>0, <2>1
<1>2. CASE InitFails
  BY <1>2 DEF PcmIds, Control, lifecycle, audio, InitFails
<1>3. CASE StartVideo
  BY <1>3 DEF PcmIds, Control, lifecycle, audio, StartVideo
<1>4. CASE StartRenderer
  BY <1>4 DEF PcmIds, Control, lifecycle, audio, StartRenderer
<1>5. CASE StartAudioCodec
  BY <1>5 DEF PcmIds, Control, lifecycle, audio, StartAudioCodec
<1>6. CASE WriteBegins
  <2>0. Packets' = Packets /\ PcmIds' = PcmIds /\ kind' = kind
    BY <1>6 DEF WriteBegins, lifecycle, PcmIds, Packets
  <2>1. /\ writer' = [writer EXCEPT !.want = Period] /\ UNCHANGED sys /\ sys.renderer = "running"
    BY <1>6 DEF WriteBegins, lifecycle
  <2>2. Period \in 0..Period
    BY SizesAssumption
  <2>3. writer' = [frame |-> writer.frame, want |-> Period]
    BY <2>1
  <2> QED
    BY <2>0, <2>1, <2>2, <2>3
<1>7. CASE WriteRecycles
  <2>0. Packets' = Packets /\ PcmIds' = PcmIds /\ kind' = kind
    BY <1>7 DEF WriteRecycles, lifecycle, PcmIds, Packets
  <2> QED
    BY <1>7, <2>0, RecyclesDoes
<1>8. CASE WriteTakes
  <2>0. Packets' = Packets /\ PcmIds' = PcmIds /\ kind' = kind
    BY <1>8 DEF WriteTakes, lifecycle, PcmIds, Packets
  <2>1. CASE pcm.queue = <<>>
    BY <1>8, <2>0, <2>1, SilenceDoes, SizesAssumption
  <2>2. CASE pcm.queue # <<>>
    BY <1>8, <2>0, <2>2, TakesDoes
  <2> QED
    BY <2>1, <2>2
<1>9. CASE WriteCopies
  <2>0. Packets' = Packets /\ PcmIds' = PcmIds /\ kind' = kind
    BY <1>9 DEF WriteCopies, lifecycle, PcmIds, Packets
  <2>1. PICK n \in Nat :
          /\ writer.want - n \in 0..Period /\ writer' = [frame |-> writer.frame, want |-> writer.want - n]
          /\ sys' = sys /\ sys.renderer = "running"
    <3> HIDE DEF IInv, Writing
    <3> QED
      BY <1>9, CopiesDoes
  <2> QED
    BY <2>0, <2>1
<1>10. CASE StopRenderer
  BY <1>10 DEF PcmIds, Control, lifecycle, audio, StopRenderer
<1>11. CASE DestroyCodec
  BY <1>11 DEF PcmIds, Control, lifecycle, audio, DestroyCodec
<1>12. CASE ReleaseRest
  <2>0. Packets' = Packets /\ PcmIds' = PcmIds /\ kind' = kind
    BY <1>12 DEF ReleaseRest, lifecycle, PcmIds, Packets
  <2> QED
    BY <1>12, <2>0, RestDoes, SizesAssumption
<1>13. CASE UNCHANGED <<pts, sys, writer>>
  BY <1>13 DEF PcmIds
<1>14. CASE StartFails \/ SpawnRender \/ StartReturns \/ OnNeedInputBuffer \/ GetInputBuffer \/ SubmitInputBuffer \/ CodecOutput \/ OutputDropped \/ OutputSeen \/ OutputQueued \/ PcmSeen \/ PcmTaken \/ PcmQueued \/ RenderTakes \/ RenderEnds \/ RenderHas \/ RenderShows \/ RenderFrees \/ Tick \/ ReleaseBegins \/ ReleaseJoins
  BY <1>13, <1>14 DEF StartFails, SpawnRender, StartReturns, OnNeedInputBuffer, GetInputBuffer, SubmitInputBuffer, CodecOutput, OutputDropped, OutputSeen, OutputQueued, PcmSeen, PcmTaken, PcmQueued, RenderTakes, RenderEnds, RenderHas, RenderShows, RenderFrees, Tick, ReleaseBegins, ReleaseJoins, TakeFrame, Fill, Enqueue, Freed, NoCallback, QueueHasRoom, FreesBuffer, RenderWaits, Nothing, RenderJoined, lifecycle, audio
<1> QED
  BY <1>1, <1>2, <1>3, <1>4, <1>5, <1>6, <1>7, <1>8, <1>9, <1>10, <1>11, <1>12, <1>13, <1>14 DEF Next, Starting, Codec, Render, Writer, Release, Done, vars

\* Every step keeps Shows.
LEMMA ShowsKept ==
  ASSUME IInv, [Next]_vars
  PROVE  Shows'
<1> USE KindsAssumption, SizesAssumption, BuffersAssumption DEF IInv, Shows
<1>1. CASE RenderShows
  <2>1. Packets' = Packets /\ Append(shown, render.packet) \in Seq(Packets)
    BY <1>1, ShowsDoes, Appended DEF Packets
  <2> QED
    BY <1>1, <2>1, ShowsDoes
<1>2. CASE WriteCopies
  <2>1. PICK n \in Nat \ {0} :
          /\ Pk(writer.frame) \in Packets /\ shown' = shown \o [i \in 1..n |-> Pk(writer.frame)] /\ pts' = pts
    BY <1>2, CopiesDoes
  <2>2. [i \in 1..n |-> Pk(writer.frame)] \in Seq(Packets)
    BY <2>1, Repeated
  <2>3. Packets' = Packets
    BY <2>1 DEF Packets
  <2> QED
    BY <2>1, <2>2, <2>3, ConcatProperties
<1>3. CASE UNCHANGED <<pts, shown>>
  BY <1>3 DEF Packets
<1>4. CASE InitSucceeds \/ InitFails \/ StartFails \/ StartVideo \/ SpawnRender \/ StartRenderer \/ StartAudioCodec \/ StartReturns \/ OnNeedInputBuffer \/ GetInputBuffer \/ SubmitInputBuffer \/ CodecOutput \/ OutputDropped \/ OutputSeen \/ OutputQueued \/ PcmSeen \/ PcmTaken \/ PcmQueued \/ RenderTakes \/ RenderEnds \/ RenderHas \/ RenderFrees \/ Tick \/ WriteBegins \/ WriteRecycles \/ WriteTakes \/ ReleaseBegins \/ ReleaseJoins \/ StopRenderer \/ DestroyCodec \/ ReleaseRest
  BY <1>3, <1>4 DEF InitSucceeds, InitFails, StartFails, StartVideo, SpawnRender, StartRenderer, StartAudioCodec, StartReturns, OnNeedInputBuffer, GetInputBuffer, SubmitInputBuffer, CodecOutput, OutputDropped, OutputSeen, OutputQueued, PcmSeen, PcmTaken, PcmQueued, RenderTakes, RenderEnds, RenderHas, RenderFrees, Tick, WriteBegins, WriteRecycles, WriteTakes, ReleaseBegins, ReleaseJoins, StopRenderer, DestroyCodec, ReleaseRest, TakeFrame, Fill, Enqueue, Freed, NoCallback, QueueHasRoom, FreesBuffer, RenderWaits, Recycle, Exhausted, Nothing, RenderJoined, lifecycle, audio
<1> QED
  BY <1>1, <1>2, <1>3, <1>4 DEF Next, Starting, Codec, Render, Writer, Release, Done, vars

\* Every step keeps Buffers.
LEMMA BuffersKept ==
  ASSUME IInv, [Next]_vars
  PROVE  Buffers'
<1> USE KindsAssumption, SizesAssumption, BuffersAssumption DEF IInv, Buffers
<1>1. CASE InitSucceeds
  <2>1. UNCHANGED <<output, callback, render>> /\ ctl # "released"
    BY <1>1 DEF InitSucceeds
  <2> QED
    BY <2>1 DEF Somewhere
<1>2. CASE InitFails
  <2>1. UNCHANGED <<output, callback, render>> /\ ctl # "released"
    BY <1>2 DEF InitFails
  <2> QED
    BY <2>1 DEF Somewhere
<1>3. CASE StartFails
  <2>1. UNCHANGED <<output, callback, render>> /\ ctl # "released"
    BY <1>3 DEF StartFails
  <2> QED
    BY <2>1 DEF Somewhere
<1>4. CASE StartVideo
  <2>1. UNCHANGED <<output, callback, render>> /\ ctl # "released"
    BY <1>4 DEF StartVideo
  <2> QED
    BY <2>1 DEF Somewhere
<1>5. CASE SpawnRender
  <2>1. UNCHANGED <<output, callback>> /\ ctl # "released" /\ render'.buf = render.buf
    BY <1>5 DEF SpawnRender, Rendering
  <2> QED
    BY <2>1 DEF Somewhere
<1>6. CASE StartRenderer
  <2>1. UNCHANGED <<output, callback, render>> /\ ctl # "released"
    BY <1>6 DEF StartRenderer
  <2> QED
    BY <2>1 DEF Somewhere
<1>7. CASE StartAudioCodec
  <2>1. UNCHANGED <<output, callback, render>> /\ ctl # "released"
    BY <1>7 DEF StartAudioCodec
  <2> QED
    BY <2>1 DEF Somewhere
<1>8. CASE StartReturns
  <2>1. UNCHANGED <<output, callback, render>> /\ ctl # "released"
    BY <1>8 DEF StartReturns
  <2> QED
    BY <2>1 DEF Somewhere
<1>9. CASE CodecOutput
  <2>1. PICK b \in output.free :
          /\ b \in OutBuffers /\ b # None /\ callback'.buf = b /\ callback.buf = None
          /\ output'.free = output.free \ {b} /\ output'.queue = output.queue
          /\ UNCHANGED <<ctl, render>>
    BY <1>9, OutputDoes
  <2> QED
    BY <2>1 DEF Somewhere
<1>10. CASE OutputDropped
  <2>1. /\ callback.buf \in OutBuffers /\ callback.buf # None /\ callback'.buf = None
        /\ output'.free = output.free \cup {callback.buf} /\ output'.queue = output.queue
        /\ UNCHANGED <<ctl, render>>
    BY <1>10, DroppedDoes DEF NoCallback
  <2> QED
    BY <2>1, BuffersAssumption DEF Somewhere
<1>11. CASE OutputSeen
  <2>1. callback'.buf = callback.buf /\ UNCHANGED <<ctl, output, render>>
    BY <1>11 DEF OutputSeen, Calling, lifecycle
  <2> QED
    BY <2>1 DEF Somewhere
<1>12. CASE OutputQueued
  <2> DEFINE e == [buf |-> callback.buf, packet |-> callback.packet]
  <2>1. /\ callback.buf \in OutBuffers /\ callback.buf # None /\ callback'.buf = None /\ e \in Entry
        /\ output'.free = output.free /\ output'.queue = Append(output.queue, e)
        /\ UNCHANGED <<ctl, render>>
    BY <1>12, BufferedDoes DEF NoCallback
  <2>2. ~HasBuf(output.queue, callback.buf)
    BY <2>1
  <2>3. output.queue \in Seq(Entry) /\ e.buf = callback.buf
    BY DEF Outputs
  <2> HIDE DEF e
  <2>4. /\ \A b \in OutBuffers : HasBuf(output'.queue, b) <=> b = callback.buf \/ HasBuf(output.queue, b)
        /\ Single(output'.queue)
    BY <2>1, <2>2, <2>3, OutAppend
  <2> QED
    BY <2>1, <2>4, BuffersAssumption DEF Somewhere
<1>13. CASE PcmSeen
  <2>1. callback'.buf = callback.buf /\ UNCHANGED <<ctl, output, render>>
    BY <1>13 DEF PcmSeen, Calling, lifecycle
  <2> QED
    BY <2>1 DEF Somewhere
<1>14. CASE PcmTaken
  <2>1. callback'.buf = callback.buf /\ UNCHANGED <<ctl, output, render>>
    BY <1>14, TakenDoes
  <2> QED
    BY <2>1 DEF Somewhere
<1>15. CASE PcmQueued
  <2>1. /\ callback.buf \in OutBuffers /\ callback.buf # None /\ callback'.buf = None
        /\ output'.free = output.free \cup {callback.buf} /\ output'.queue = output.queue
        /\ UNCHANGED <<ctl, render>>
    BY <1>15, QueuedDoes DEF NoCallback
  <2> QED
    BY <2>1, BuffersAssumption DEF Somewhere
<1>16. CASE RenderTakes
  <2>1. /\ output.queue # <<>> /\ output.queue[1].buf \in OutBuffers /\ output.queue[1].buf # None
        /\ render.buf = None /\ render'.buf = output.queue[1].buf
        /\ output'.free = output.free /\ output'.queue = Tail(output.queue)
        /\ UNCHANGED <<ctl, callback>>
    <3> HIDE DEF IInv, Buffers
    <3> QED
      BY <1>16, RenderTakesDoes
  <2>2. output.queue \in Seq(Entry)
    BY DEF Outputs
  <2>3. /\ HasBuf(output.queue, output.queue[1].buf)
        /\ \A b \in OutBuffers : HasBuf(output.queue, b) <=> b = output.queue[1].buf \/ HasBuf(output'.queue, b)
        /\ Single(output'.queue) /\ ~HasBuf(output'.queue, output.queue[1].buf)
    BY <2>1, <2>2, OutTail
  <2> QED
    BY <2>1, <2>3, BuffersAssumption DEF Somewhere
<1>17. CASE RenderEnds
  <2>1. UNCHANGED <<ctl, output, callback>> /\ render'.buf = render.buf
    BY <1>17 DEF RenderEnds, Rendering, lifecycle
  <2> QED
    BY <2>1 DEF Somewhere
<1>18. CASE RenderHas
  <2>1. CASE running
    <3>1. render'.buf = render.buf /\ UNCHANGED <<ctl, callback, output>>
      BY <1>18, <2>1, PacesDoes
    <3> QED
      BY <3>1 DEF Somewhere
  <2>2. CASE ~running
    <3>1. /\ render.buf \in OutBuffers /\ render.buf # None /\ render'.buf = None
          /\ output'.free = output.free \cup {render.buf} /\ output'.queue = output.queue
          /\ UNCHANGED <<ctl, callback>>
      BY <1>18, <2>2, FreesDoes DEF Frees
    <3> QED
      BY <3>1, BuffersAssumption DEF Somewhere
  <2> QED
    BY <2>1, <2>2
<1>19. CASE RenderShows
  <2>1. /\ render.buf \in OutBuffers /\ render.buf # None /\ render'.buf = None
        /\ output'.free = output.free \cup {render.buf} /\ output'.queue = output.queue
        /\ UNCHANGED <<ctl, callback>>
    BY <1>19, ShowsDoes
  <2> QED
    BY <2>1, BuffersAssumption DEF Somewhere
<1>20. CASE RenderFrees
  <2>1. /\ render.buf \in OutBuffers /\ render.buf # None /\ render'.buf = None
        /\ output'.free = output.free \cup {render.buf} /\ output'.queue = output.queue
        /\ UNCHANGED <<ctl, callback>>
    BY <1>20, FreesDoes DEF Frees
  <2> QED
    BY <2>1, BuffersAssumption DEF Somewhere
<1>21. CASE ReleaseBegins
  <2>1. UNCHANGED <<output, callback, render>> /\ ctl # "released"
    BY <1>21 DEF ReleaseBegins
  <2> QED
    BY <2>1 DEF Somewhere
<1>22. CASE ReleaseJoins
  <2>1. UNCHANGED <<output, callback, render>> /\ ctl # "released"
    BY <1>22 DEF ReleaseJoins
  <2> QED
    BY <2>1 DEF Somewhere
<1>23. CASE StopRenderer
  <2>1. UNCHANGED <<output, callback, render>> /\ ctl # "released"
    BY <1>23 DEF StopRenderer
  <2> QED
    BY <2>1 DEF Somewhere
<1>24. CASE DestroyCodec
  <2>1. UNCHANGED <<output, callback, render>> /\ ctl # "released"
    BY <1>24 DEF DestroyCodec
  <2> QED
    BY <2>1 DEF Somewhere
<1>25. CASE ReleaseRest
  <2>1. /\ ctl' = "released" /\ output'.free = output.free /\ output'.queue = <<>> /\ UNCHANGED <<callback, render>>
    BY <1>25, RestDoes
  <2>2. Single(<<>>) /\ \A b : ~HasBuf(<<>>, b)
    BY DEF Single, HasBuf
  <2> QED
    BY <2>1, <2>2
<1>26. CASE UNCHANGED <<callback, ctl, output, render>>
  BY <1>26 DEF Somewhere
<1>27. CASE OnNeedInputBuffer \/ GetInputBuffer \/ SubmitInputBuffer \/ Tick \/ WriteBegins \/ WriteRecycles \/ WriteTakes \/ WriteCopies
  BY <1>26, <1>27 DEF OnNeedInputBuffer, GetInputBuffer, SubmitInputBuffer, Tick, WriteBegins, WriteRecycles, WriteTakes, WriteCopies, TakeFrame, Fill, Enqueue, Recycle, Exhausted, Least, lifecycle, audio
<1> QED
  BY <1>1, <1>2, <1>3, <1>4, <1>5, <1>6, <1>7, <1>8, <1>9, <1>10, <1>11, <1>12, <1>13, <1>14, <1>15, <1>16, <1>17, <1>18, <1>19, <1>20, <1>21, <1>22, <1>23, <1>24, <1>25, <1>26, <1>27 DEF Next, Starting, Codec, Render, Writer, Release, Done, vars

\* Every step keeps Frames.
LEMMA FramesKept ==
  ASSUME IInv, [Next]_vars
  PROVE  Frames'
<1> USE KindsAssumption, SizesAssumption, BuffersAssumption DEF IInv, Frames
<1>1. CASE GetInputBuffer
  <2>0. PcmIds' = PcmIds
    BY <1>1 DEF GetInputBuffer, lifecycle, PcmIds
  <2>8. None \notin PcmIds /\ \A b \in InBuffers : b \notin PcmIds
    BY Ids
  <2>1. CASE kind = "raw"
    <3> DEFINE f == FrameFor(pcm)
    <3>1. /\ held = None /\ held' = f /\ f \in PcmIds
          /\ pcm'.alloc = pcm.alloc \cup {f} /\ pcm'.free = pcm.free \ {f} /\ pcm'.queue = pcm.queue
          /\ UNCHANGED <<callback, writer>>
      BY <1>1, <2>1, GetDoes
    <3>2. ~In(pcm.queue, f) /\ callback.frame # f /\ writer.frame # f
      <4>1. input.fed < Len(pts)
        BY <1>1 DEF GetInputBuffer
      <4> QED
        BY <2>1, <3>1, <4>1, FrameIs
    <3> HIDE DEF f
    <3> QED
      BY <2>0, <2>8, <3>1, <3>2
  <2>2. CASE kind # "raw"
    <3>1. input.queue # <<>> /\ held' = Head(input.queue) /\ held = None /\ UNCHANGED <<pcm, callback, writer>>
      BY <1>1, <2>2 DEF GetInputBuffer
    <3>2. Head(input.queue) \in InBuffers
      BY <3>1, HeadAndTail DEF Feeding
    <3> QED
      BY <2>0, <2>8, <3>1, <3>2
  <2> QED
    BY <2>1, <2>2
<1>2. CASE SubmitInputBuffer
  <2>0. PcmIds' = PcmIds
    BY <1>2 DEF SubmitInputBuffer, lifecycle, PcmIds
  <2>8. None \notin PcmIds /\ \A b \in InBuffers : b \notin PcmIds
    BY Ids
  <2>1. CASE kind = "raw"
    <3>1. /\ held \in PcmIds /\ held' = None
          /\ pcm'.alloc = pcm.alloc /\ pcm'.free = pcm.free /\ pcm'.queue = Append(pcm.queue, held)
          /\ UNCHANGED <<callback, writer>>
      BY <1>2, <2>1, SubmitDoes
    <3>2. pcm.queue \in Seq(PcmIds) /\ ~In(pcm.queue, held)
      BY <3>1 DEF Pooled
    <3>3. /\ \A p \in PcmIds : In(pcm'.queue, p) <=> p = held \/ In(pcm.queue, p)
          /\ Distinct(pcm'.queue)
      BY <3>1, <3>2, AppendIn
    <3> QED
      BY <2>0, <2>8, <3>1, <3>3
  <2>2. CASE kind # "raw"
    <3>1. held # None /\ held' = None /\ UNCHANGED <<pcm, callback, writer>>
      BY <1>2, <2>2 DEF SubmitInputBuffer
    <3>2. held \notin PcmIds
      BY <2>2, <3>1 DEF Feeding
    <3> QED
      BY <2>0, <2>8, <3>1, <3>2
  <2> QED
    BY <2>1, <2>2
<1>3. CASE CodecOutput
  <2>0. PcmIds' = PcmIds
    BY <1>3 DEF CodecOutput, lifecycle, PcmIds
  <2>1. callback'.frame = callback.frame /\ UNCHANGED <<held, pcm, writer>>
    BY <1>3, OutputDoes
  <2> QED
    BY <2>0, <2>1
<1>4. CASE OutputDropped
  <2>0. PcmIds' = PcmIds
    BY <1>4 DEF OutputDropped, lifecycle, PcmIds
  <2>1. callback'.frame = callback.frame /\ UNCHANGED <<held, pcm, writer>>
    BY <1>4, DroppedDoes DEF NoCallback
  <2> QED
    BY <2>0, <2>1
<1>5. CASE OutputSeen
  <2>0. PcmIds' = PcmIds
    BY <1>5 DEF OutputSeen, lifecycle, PcmIds
  <2>1. callback'.frame = callback.frame /\ UNCHANGED <<held, pcm, writer>>
    BY <1>5 DEF OutputSeen, Calling, lifecycle, audio
  <2> QED
    BY <2>0, <2>1
<1>6. CASE OutputQueued
  <2>0. PcmIds' = PcmIds
    BY <1>6 DEF OutputQueued, lifecycle, PcmIds
  <2>1. callback'.frame = callback.frame /\ UNCHANGED <<held, pcm, writer>>
    BY <1>6, BufferedDoes DEF NoCallback
  <2> QED
    BY <2>0, <2>1
<1>7. CASE PcmSeen
  <2>0. PcmIds' = PcmIds
    BY <1>7 DEF PcmSeen, lifecycle, PcmIds
  <2>1. callback'.frame = callback.frame /\ UNCHANGED <<held, pcm, writer>>
    BY <1>7 DEF PcmSeen, Calling, lifecycle, audio
  <2> QED
    BY <2>0, <2>1
<1>8. CASE PcmTaken
  <2>0. PcmIds' = PcmIds
    BY <1>8 DEF PcmTaken, lifecycle, PcmIds
  <2>8. None \notin PcmIds /\ \A b \in InBuffers : b \notin PcmIds
    BY Ids
  <2> DEFINE f == FrameFor(pcm)
  <2>1. /\ callback.at = "take" /\ kind = "audio" /\ callback'.frame = f /\ f \in PcmIds
        /\ pcm'.alloc = pcm.alloc \cup {f} /\ pcm'.free = pcm.free \ {f} /\ pcm'.queue = pcm.queue
        /\ UNCHANGED <<held, writer>>
    BY <1>8, TakenDoes
  <2>2. ~In(pcm.queue, f) /\ writer.frame # f /\ held # f
    BY <2>1, FrameIs
  <2>3. callback.frame = None
    BY <2>1 DEF Calling
  <2> HIDE DEF f
  <2> QED
    BY <2>0, <2>8, <2>1, <2>2, <2>3
<1>9. CASE PcmQueued
  <2>0. PcmIds' = PcmIds
    BY <1>9 DEF PcmQueued, lifecycle, PcmIds
  <2>8. None \notin PcmIds /\ \A b \in InBuffers : b \notin PcmIds
    BY Ids
  <2> DEFINE f == callback.frame
  <2>1. /\ f \in PcmIds /\ callback'.frame = None
        /\ pcm'.alloc = pcm.alloc /\ pcm'.free = pcm.free /\ pcm'.queue = Append(pcm.queue, f)
        /\ UNCHANGED <<held, writer>>
    BY <1>9, QueuedDoes DEF NoCallback
  <2>2. pcm.queue \in Seq(PcmIds) /\ ~In(pcm.queue, f)
    BY <2>1 DEF Pooled
  <2>3. /\ \A p \in PcmIds : In(pcm'.queue, p) <=> p = f \/ In(pcm.queue, p)
        /\ Distinct(pcm'.queue)
    BY <2>1, <2>2, AppendIn
  <2> QED
    BY <2>0, <2>8, <2>1, <2>3
<1>10. CASE WriteBegins
  <2>0. PcmIds' = PcmIds
    BY <1>10 DEF WriteBegins, lifecycle, PcmIds
  <2>1. writer'.frame = writer.frame /\ UNCHANGED <<held, pcm, callback>>
    BY <1>10 DEF WriteBegins, Writing
  <2> QED
    BY <2>0, <2>1
<1>11. CASE WriteRecycles
  <2>0. PcmIds' = PcmIds
    BY <1>11 DEF WriteRecycles, lifecycle, PcmIds
  <2>8. None \notin PcmIds /\ \A b \in InBuffers : b \notin PcmIds
    BY Ids
  <2>1. /\ writer.frame \in PcmIds /\ writer'.frame = None
        /\ pcm'.alloc = pcm.alloc /\ pcm'.free = pcm.free \cup {writer.frame} /\ pcm'.queue = pcm.queue
        /\ UNCHANGED <<held, callback>>
    BY <1>11, RecyclesDoes
  <2> QED
    BY <2>0, <2>8, <2>1
<1>12. CASE WriteTakes
  <2>0. PcmIds' = PcmIds
    BY <1>12 DEF WriteTakes, lifecycle, PcmIds
  <2>8. None \notin PcmIds /\ \A b \in InBuffers : b \notin PcmIds
    BY Ids
  <2>1. CASE pcm.queue = <<>>
    <3>1. writer'.frame = writer.frame /\ UNCHANGED <<held, pcm, callback>>
      BY <1>12, <2>1, SilenceDoes
    <3> QED
      BY <2>0, <3>1
  <2>2. CASE pcm.queue # <<>>
    <3> DEFINE f == pcm.queue[1]
    <3>1. /\ f \in PcmIds /\ writer.frame = None /\ writer'.frame = f
          /\ pcm'.alloc = pcm.alloc /\ pcm'.free = pcm.free /\ pcm'.queue = Tail(pcm.queue)
          /\ UNCHANGED <<held, callback>>
      <4> HIDE DEF IInv, Frames
      <4> QED
        BY <1>12, <2>2, TakesDoes
    <3>2. pcm.queue \in Seq(PcmIds)
      BY DEF Pooled
    <3>3. /\ In(pcm.queue, f)
          /\ \A p \in PcmIds : In(pcm.queue, p) <=> p = f \/ In(pcm'.queue, p)
          /\ Distinct(pcm'.queue) /\ ~In(pcm'.queue, f)
      BY <2>2, <3>1, <3>2, TailIn
    <3> HIDE DEF f
    <3> QED
      BY <2>0, <2>8, <3>1, <3>3
  <2> QED
    BY <2>1, <2>2
<1>13. CASE WriteCopies
  <2>0. PcmIds' = PcmIds
    BY <1>13 DEF WriteCopies, lifecycle, PcmIds
  <2>1. /\ writer'.frame = writer.frame /\ pcm'.alloc = pcm.alloc /\ pcm'.free = pcm.free /\ pcm'.queue = pcm.queue
        /\ UNCHANGED <<held, callback>>
    <3> HIDE DEF IInv, Frames
    <3> QED
      BY <1>13, CopiesMoveNothing
  <2> QED
    BY <2>0, <2>1
<1>14. CASE ReleaseRest
  <2>0. PcmIds' = PcmIds
    BY <1>14 DEF ReleaseRest, lifecycle, PcmIds
  <2>8. None \notin PcmIds /\ \A b \in InBuffers : b \notin PcmIds
    BY Ids
  <2>1. /\ ctl = "release" /\ writer'.frame = None /\ pcm'.alloc = {} /\ pcm'.free = {} /\ pcm'.queue = <<>>
        /\ UNCHANGED <<held, callback>>
    BY <1>14, RestDoes
  <2>2. callback.frame = None /\ held = None
    <3>1. sys.codec = "none"
      BY <2>1 DEF Control
    <3>2. callback.at = "idle"
      BY <3>1 DEF Calling
    <3> QED
      BY <2>1, <3>2 DEF Calling, Feeding
  <2>3. Distinct(<<>>) /\ \A p : ~In(<<>>, p)
    BY EmptyIn
  <2> QED
    BY <2>0, <2>8, <2>1, <2>2, <2>3
<1>15. CASE UNCHANGED <<callback, held, pcm, pts, writer>>
  BY <1>15 DEF PcmIds
<1>16. CASE InitSucceeds \/ InitFails \/ StartFails \/ StartVideo \/ SpawnRender \/ StartRenderer \/ StartAudioCodec \/ StartReturns \/ OnNeedInputBuffer \/ RenderTakes \/ RenderEnds \/ RenderHas \/ RenderShows \/ RenderFrees \/ Tick \/ ReleaseBegins \/ ReleaseJoins \/ StopRenderer \/ DestroyCodec
  BY <1>15, <1>16 DEF InitSucceeds, InitFails, StartFails, StartVideo, SpawnRender, StartRenderer, StartAudioCodec, StartReturns, OnNeedInputBuffer, RenderTakes, RenderEnds, RenderHas, RenderShows, RenderFrees, Tick, ReleaseBegins, ReleaseJoins, StopRenderer, DestroyCodec, FreesBuffer, RenderWaits, Freed, Nothing, RenderJoined, lifecycle, audio
<1> QED
  BY <1>1, <1>2, <1>3, <1>4, <1>5, <1>6, <1>7, <1>8, <1>9, <1>10, <1>11, <1>12, <1>13, <1>14, <1>15, <1>16 DEF Next, Starting, Codec, Render, Writer, Release, Done, vars

\* Every step keeps Counts.
LEMMA CountsKept ==
  ASSUME IInv, [Next]_vars
  PROVE  Counts'
<1> USE KindsAssumption, SizesAssumption, BuffersAssumption DEF IInv, Counts
<1>1. CASE OnNeedInputBuffer
  <2>0. kind' = kind /\ PoolSize \in Nat /\ Len(pcm.queue) \in Nat /\ input.fed \in Nat
    BY <1>1, QueueLength DEF OnNeedInputBuffer, lifecycle
  <2>1. input'.fed = input.fed /\ UNCHANGED <<pcm, callback, held>>
    BY <1>1 DEF OnNeedInputBuffer, lifecycle, audio
  <2> QED
    BY <2>0, <2>1
<1>2. CASE GetInputBuffer
  <2>0. kind' = kind /\ PoolSize \in Nat /\ Len(pcm.queue) \in Nat /\ input.fed \in Nat
    BY <1>2, QueueLength DEF GetInputBuffer, lifecycle
  <2>1. CASE kind = "raw"
    <3> DEFINE f == FrameFor(pcm)
    <3>1. held = None /\ held' = f /\ f # None /\ pcm'.alloc = pcm.alloc \cup {f} /\ input' = input
      <4> HIDE DEF IInv, Counts
      <4> QED
        BY <1>2, <2>1, GetDoes
    <3>2. Cardinality(pcm.alloc \cup {f}) <= PoolSize + input.fed + 1
      <4>1. input.fed < Len(pts)
        BY <1>2 DEF GetInputBuffer
      <4> HIDE DEF IInv, Counts
      <4> QED
        BY <2>1, <3>1, <4>1, FrameIs
    <3> HIDE DEF f
    <3> QED
      BY <2>0, <2>1, <3>1, <3>2
  <2>2. CASE kind # "raw"
    <3>1. UNCHANGED <<pcm, callback>>
      BY <1>2, <2>2 DEF GetInputBuffer
    <3> QED
      BY <2>0, <2>2, <3>1
  <2> QED
    BY <2>1, <2>2
<1>3. CASE SubmitInputBuffer
  <2>0. kind' = kind /\ PoolSize \in Nat /\ Len(pcm.queue) \in Nat /\ input.fed \in Nat
    BY <1>3, QueueLength DEF SubmitInputBuffer, lifecycle
  <2>1. CASE kind = "raw"
    <3>1. held # None /\ held' = None /\ pcm'.alloc = pcm.alloc /\ input'.fed = input.fed + 1
      <4>1. held \in PcmIds /\ held' = None /\ pcm'.alloc = pcm.alloc /\ input' = [input EXCEPT !.fed = input.fed + 1]
        <5> HIDE DEF IInv, Counts
        <5> QED
          BY <1>3, <2>1, SubmitDoes
      <4> QED
        BY <4>1, Ids DEF Feeding
    <3> QED
      BY <2>0, <2>1, <3>1
  <2>2. CASE kind # "raw"
    <3>1. UNCHANGED <<pcm, callback>>
      BY <1>3, <2>2 DEF SubmitInputBuffer
    <3> QED
      BY <2>0, <2>2, <3>1
  <2> QED
    BY <2>1, <2>2
<1>4. CASE CodecOutput
  <2>0. kind' = kind /\ PoolSize \in Nat /\ Len(pcm.queue) \in Nat /\ input.fed \in Nat
    BY <1>4, QueueLength DEF CodecOutput, lifecycle
  <2>1. callback'.at = "check" /\ input'.fed = input.fed /\ UNCHANGED <<pcm, held>>
    <3> HIDE DEF IInv, Counts
    <3>1. input' = [input EXCEPT !.coded = Tail(input.coded)] /\ callback'.at = "check" /\ UNCHANGED <<pcm, held>>
      BY <1>4, OutputDoes
    <3> QED
      BY <3>1 DEF IInv, Feeding
  <2> QED
    BY <2>0, <2>1
<1>5. CASE OutputDropped
  <2>0. kind' = kind /\ PoolSize \in Nat /\ Len(pcm.queue) \in Nat /\ input.fed \in Nat
    BY <1>5, QueueLength DEF OutputDropped, lifecycle
  <2>1. callback'.at = "idle" /\ UNCHANGED <<pcm, held, input>>
    BY <1>5, DroppedDoes DEF NoCallback
  <2> QED
    BY <2>0, <2>1
<1>6. CASE OutputSeen
  <2>0. kind' = kind /\ PoolSize \in Nat /\ Len(pcm.queue) \in Nat /\ input.fed \in Nat
    BY <1>6, QueueLength DEF OutputSeen, lifecycle
  <2>1. kind = "video" /\ UNCHANGED <<pcm, held, input>>
    BY <1>6 DEF OutputSeen, lifecycle, audio
  <2> QED
    BY <2>0, <2>1
<1>7. CASE OutputQueued
  <2>0. kind' = kind /\ PoolSize \in Nat /\ Len(pcm.queue) \in Nat /\ input.fed \in Nat
    BY <1>7, QueueLength DEF OutputQueued, lifecycle
  <2>1. callback'.at = "idle" /\ UNCHANGED <<pcm, held, input>>
    BY <1>7, BufferedDoes DEF NoCallback
  <2> QED
    BY <2>0, <2>1
<1>8. CASE PcmSeen
  <2>0. kind' = kind /\ PoolSize \in Nat /\ Len(pcm.queue) \in Nat /\ input.fed \in Nat
    BY <1>8, QueueLength DEF PcmSeen, lifecycle
  <2>1. kind = "audio" /\ Len(pcm.queue) < PoolSize /\ UNCHANGED <<pcm, held, input>>
    BY <1>8 DEF PcmSeen, QueueHasRoom, lifecycle, audio
  <2> QED
    BY <2>0, <2>1
<1>9. CASE PcmTaken
  <2>0. kind' = kind /\ PoolSize \in Nat /\ Len(pcm.queue) \in Nat /\ input.fed \in Nat
    BY <1>9, QueueLength DEF PcmTaken, lifecycle
  <2> DEFINE f == FrameFor(pcm)
  <2>1. callback.at = "take" /\ kind = "audio" /\ pcm'.alloc = pcm.alloc \cup {f} /\ pcm'.queue = pcm.queue
    <3> HIDE DEF IInv, Counts
    <3> QED
      BY <1>9, TakenDoes
  <2>2. Cardinality(pcm.alloc \cup {f}) <= PoolSize + 1
    <3> HIDE DEF IInv, Counts
    <3> QED
      BY <2>1, FrameIs
  <2> HIDE DEF f
  <2> QED
    BY <2>0, <2>1, <2>2
<1>10. CASE PcmQueued
  <2>0. kind' = kind /\ PoolSize \in Nat /\ Len(pcm.queue) \in Nat /\ input.fed \in Nat
    BY <1>10, QueueLength DEF PcmQueued, lifecycle
  <2>1. /\ callback.at = "enqueue" /\ kind = "audio" /\ callback.frame \in PcmIds /\ callback'.at = "idle"
        /\ pcm'.alloc = pcm.alloc /\ pcm'.queue = Append(pcm.queue, callback.frame)
    <3> HIDE DEF IInv, Counts
    <3> QED
      BY <1>10, QueuedDoes DEF NoCallback
  <2>2. Len(pcm'.queue) = Len(pcm.queue) + 1
    BY <2>1, Appended DEF Pooled
  <2> QED
    BY <2>0, <2>1, <2>2
<1>11. CASE WriteRecycles
  <2>0. kind' = kind /\ PoolSize \in Nat /\ Len(pcm.queue) \in Nat /\ input.fed \in Nat
    BY <1>11, QueueLength DEF WriteRecycles, lifecycle
  <2>1. pcm'.alloc = pcm.alloc /\ pcm'.queue = pcm.queue /\ UNCHANGED <<held, input, callback>>
    <3> HIDE DEF IInv, Counts
    <3> QED
      BY <1>11, RecyclesDoes
  <2> QED
    BY <2>0, <2>1
<1>12. CASE WriteTakes
  <2>0. kind' = kind /\ PoolSize \in Nat /\ Len(pcm.queue) \in Nat /\ input.fed \in Nat
    BY <1>12, QueueLength DEF WriteTakes, lifecycle
  <2>1. CASE pcm.queue = <<>>
    <3>1. UNCHANGED <<held, input, pcm, callback>>
      BY <1>12, <2>1, SilenceDoes
    <3> QED
      BY <2>0, <3>1
  <2>2. CASE pcm.queue # <<>>
    <3>1. pcm'.alloc = pcm.alloc /\ pcm'.queue = Tail(pcm.queue) /\ UNCHANGED <<held, input, callback>>
      <4> HIDE DEF IInv, Counts
      <4> QED
        BY <1>12, <2>2, TakesDoes
    <3>2. Len(pcm'.queue) <= Len(pcm.queue) /\ Len(pcm'.queue) \in Nat
      BY <2>2, <3>1, HeadAndTail DEF Pooled
    <3> QED
      BY <2>0, <3>1, <3>2
  <2> QED
    BY <2>1, <2>2
<1>13. CASE WriteCopies
  <2>0. kind' = kind /\ PoolSize \in Nat /\ Len(pcm.queue) \in Nat /\ input.fed \in Nat
    BY <1>13, QueueLength DEF WriteCopies, lifecycle
  <2>1. pcm'.alloc = pcm.alloc /\ pcm'.queue = pcm.queue /\ UNCHANGED <<held, input, callback>>
    <3> HIDE DEF IInv, Counts
    <3> QED
      BY <1>13, CopiesMoveNothing
  <2> QED
    BY <2>0, <2>1
<1>14. CASE ReleaseRest
  <2>0. kind' = kind /\ PoolSize \in Nat /\ Len(pcm.queue) \in Nat /\ input.fed \in Nat
    BY <1>14, QueueLength DEF ReleaseRest, lifecycle
  <2>1. pcm'.alloc = {} /\ pcm'.queue = <<>> /\ UNCHANGED <<held, input, callback>>
    <3> HIDE DEF IInv, Counts
    <3> QED
      BY <1>14, RestDoes
  <2>2. Len(<<>>) = 0 /\ Cardinality({}) = 0
    BY FS_EmptySet
  <2>3. callback.at = "idle"
    <3>1. sys.codec = "none"
      BY <1>14 DEF ReleaseRest, Control
    <3> QED
      BY <3>1 DEF Calling
  <2> QED
    BY <2>0, <2>1, <2>2, <2>3, SizesAssumption
<1>15. CASE UNCHANGED <<callback, held, input, kind, pcm, pts>>
  BY <1>15
<1>16. CASE InitSucceeds \/ InitFails \/ StartFails \/ StartVideo \/ SpawnRender \/ StartRenderer \/ StartAudioCodec \/ StartReturns \/ RenderTakes \/ RenderEnds \/ RenderHas \/ RenderShows \/ RenderFrees \/ Tick \/ WriteBegins \/ ReleaseBegins \/ ReleaseJoins \/ StopRenderer \/ DestroyCodec
  BY <1>15, <1>16 DEF InitSucceeds, InitFails, StartFails, StartVideo, SpawnRender, StartRenderer, StartAudioCodec, StartReturns, RenderTakes, RenderEnds, RenderHas, RenderShows, RenderFrees, Tick, WriteBegins, ReleaseBegins, ReleaseJoins, StopRenderer, DestroyCodec, FreesBuffer, RenderWaits, Freed, Nothing, RenderJoined, lifecycle, audio
<1> QED
  BY <1>1, <1>2, <1>3, <1>4, <1>5, <1>6, <1>7, <1>8, <1>9, <1>10, <1>11, <1>12, <1>13, <1>14, <1>15, <1>16 DEF Next, Starting, Codec, Render, Writer, Release, Done, vars

\* A decoder that was just made.
LEMMA Initial == Init => IInv
<1> SUFFICES ASSUME Init PROVE IInv
  OBVIOUS
<1>1. /\ kind \in Kinds /\ pts \in Timelines /\ ctl = "new" /\ started = FALSE /\ running = FALSE
      /\ sys = [codec |-> "none", context |-> "none", renderer |-> "none"]
      /\ input = [free |-> InBuffers, queue |-> <<>>, fed |-> 0, coded |-> <<>>] /\ held = None
      /\ output = [free |-> OutBuffers, queue |-> <<>>]
      /\ callback = [at |-> "idle", buf |-> None, packet |-> 0, frame |-> None]
      /\ render = [at |-> "off", buf |-> None, packet |-> 0, firsts |-> 0]
      /\ clock = [set |-> FALSE, pts |-> 0, slack |-> 0]
      /\ writer = [frame |-> None, want |-> 0] /\ shown = <<>>
  BY DEF Init, NoClock
<1>2. /\ pts \in Seq(Int) /\ Len(pts) \in Nat
      /\ \A S : <<>> \in Seq(S)
  BY <1>1, SizesAssumption, LenProperties
<1>3. Control
  BY <1>1, <1>2 DEF Control, Nothing
<1> DEFINE pool == IF kind = "video" THEN {} ELSE 1..PoolSize
<1>4. /\ pcm.alloc = pool /\ pcm.free = pool /\ pcm.queue = <<>>
      /\ pcm = [alloc |-> pool, free |-> pool, queue |-> <<>>, of |-> [i \in PcmIds |-> [packet |-> 0, left |-> 0]]]
  BY DEF Init
<1>5. pool \subseteq PcmIds
  BY <1>2, SizesAssumption DEF PcmIds
<1>6. None \notin PcmIds
  BY <1>3, Ids
<1>7. IsFiniteSet(pool) /\ (kind # "video" => Cardinality(pool) = PoolSize)
  <2>1. 1 \in Int /\ PoolSize \in Int /\ PoolSize > 0
    BY SizesAssumption
  <2>2. IsFiniteSet(1..PoolSize) /\ Cardinality(1..PoolSize) = IF 1 > PoolSize THEN 0 ELSE PoolSize - 1 + 1
    BY <2>1, FS_Interval
  <2> QED
    BY <2>1, <2>2, FS_EmptySet
<1> HIDE DEF pool
<1>8. Calling /\ Rendering /\ Feeding
  BY <1>1, <1>2 DEF Calling, Rendering, Feeding
<1>9. Outputs /\ Pacing /\ Writing /\ Shows
  BY <1>1, <1>2, SizesAssumption DEF Outputs, Pacing, Writing, Shows
<1>10. Pooled
  <2>1. kind = "video" => pool = {}
    BY DEF pool
  <2>2. [i \in PcmIds |-> [packet |-> 0, left |-> 0]] \in [PcmIds -> [packet : Packets \cup {0}, left : 0..FrameLen]]
    BY SizesAssumption
  <2> QED
    BY <1>2, <1>4, <1>5, <2>1, <2>2 DEF Pooled
<1>11. Buffers
  <2>1. Single(<<>>) /\ \A b : ~HasBuf(<<>>, b)
    BY DEF Single, HasBuf
  <2> QED
    BY <1>1, <2>1, BuffersAssumption DEF Buffers, Somewhere
<1>12. Frames
  BY <1>1, <1>4, <1>6, EmptyIn DEF Frames
<1>13. Counts
  <2>1. Cardinality(pool) \in Nat
    BY <1>7, FS_CardinalityType
  <2> QED
    BY <1>1, <1>4, <1>7, <2>1, KindsAssumption, SizesAssumption DEF Counts
<1>14. Whole /\ Sorted
  BY <1>1, <1>4 DEF Whole, WholeIn, Sorted, BySequence, Rises, ByContent
<1>15. Ordering
  <2>1. Elems(<<>>) = {} /\ OutPackets(<<>>) = {} /\ Loaded(<<>>, pcm.of) = {}
    BY DEF Elems, OutPackets, Loaded
  <2>2. Near = {} /\ Stage0 = {} /\ Stage2 = {} /\ Stage3 = {} /\ Stage4 = {}
    BY <1>1, <1>4, <2>1 DEF Near, Stage0, Stage2, Stage3, Stage4
  <2>3. \A i \in 0..5 : i # 5 => Stages[i] = {}
    BY <2>2, Six, StagesAre
  <2>4. \A m, n \in 0..5 : m < n => m # 5
    OBVIOUS
  <2>5. Line(Stages)
    BY <2>3, <2>4 DEF Line, Before
  <2> QED
    BY <2>2, <2>5 DEF Ordering, Played
<1>16. ShownInOrder
  <2>1. \A k : Times(k) = 0
    <3>1. \A k : {i \in DOMAIN shown : shown[i] = k} = {}
      BY <1>1
    <3> QED
      BY <3>1, FS_EmptySet DEF Times
  <2> QED
    BY <1>1, <2>1, SizesAssumption DEF ShownInOrder
<1> QED
  BY <1>3, <1>8, <1>9, <1>10, <1>11, <1>12, <1>13, <1>14, <1>15, <1>16 DEF IInv

\* IInv is inductive.
LEMMA Inductive == Spec => []IInv
<1>1. IInv /\ [Next]_vars => IInv'
  <2> SUFFICES ASSUME IInv, [Next]_vars PROVE IInv'
    OBVIOUS
  <2>1. Control' /\ Calling' /\ Rendering' /\ Feeding'
    BY ControlKept, CallingKept, RenderingKept, FeedingKept
  <2>2. Outputs' /\ Pacing' /\ Pooled' /\ Writing' /\ Shows'
    BY OutputsKept, PacingKept, PooledKept, WritingKept, ShowsKept
  <2>3. Buffers' /\ Frames' /\ Counts'
    BY BuffersKept, FramesKept, CountsKept
  <2>4. Whole' /\ Sorted'
    BY WholeKept, BySequenceKept, RisesKept, ByContentKept DEF Sorted
  <2>5. Ordering' /\ ShownInOrder'
    BY OrderingKept
  <2> QED
    BY <2>1, <2>2, <2>3, <2>4, <2>5 DEF IInv
<1> QED
  BY Initial, <1>1, PTL DEF Spec

\* What is seen and heard is in the order in which it was fed, to its end, and announced once,
\* whatever OnNewOutputBuffer, RenderOutputLoop and OnAudioRendererWriteData do in between.
THEOREM InOrder == Spec => []ShownInOrder
<1>1. IInv => ShownInOrder
  BY DEF IInv
<1> QED
  BY Inductive, <1>1, PTL

\* Variables of the decoders keep their types.
THEOREM TypeCorrect == Spec => []TypeOK
<1>1. IInv => TypeOK
  <2> SUFFICES ASSUME IInv PROVE TypeOK
    OBVIOUS
  <2>1. /\ kind \in Kinds /\ pts \in Timelines
        /\ ctl \in {"new", "inited", "half started", "spawn", "waiting", "on", "failed", "join",
             "stop renderer", "stop codec", "release", "released"}
        /\ started \in BOOLEAN /\ running \in BOOLEAN
        /\ sys \in [codec : {"none", "ready", "running"}, context : {"none", "live"},
              renderer : {"none", "ready", "running", "stopped"}]
    BY DEF IInv, Control
  <2>2. callback \in [at : {"idle", "check", "take", "enqueue"}, buf : OutBuffers \cup {None},
                   packet : Packets \cup {0}, frame : PcmIds \cup {None}]
    BY DEF IInv, Calling
  <2>3. render \in [at : {"off", "wait", "have", "pace", "ended"}, buf : OutBuffers \cup {None},
                 packet : Packets \cup {0}, firsts : Nat]
    BY DEF IInv, Rendering
  <2>4. /\ input \in [free : SUBSET InBuffers, queue : Seq(InBuffers), fed : 0..Len(pts), coded : Seq(Packets)]
        /\ held \in InBuffers \cup PcmIds \cup {None}
    BY DEF IInv, Feeding
  <2>5. /\ output \in [free : SUBSET OutBuffers, queue : Seq([buf : OutBuffers, packet : Packets])]
        /\ clock \in [set : BOOLEAN, pts : Int, slack : Int] /\ shown \in Seq(Packets)
    BY DEF IInv, Outputs, Pacing, Shows, Entry
  <2>6. /\ pcm \in [alloc : SUBSET PcmIds, free : SUBSET PcmIds, queue : Seq(PcmIds),
              of : [PcmIds -> [packet : Packets \cup {0}, left : 0..FrameLen]]]
        /\ pcm.free \subseteq pcm.alloc
    BY DEF IInv, Pooled
  <2>7. writer \in [frame : PcmIds \cup {None}, want : 0..Period]
    BY DEF IInv, Writing
  <2> QED
    BY <2>1, <2>2, <2>3, <2>4, <2>5, <2>6, <2>7 DEF TypeOK
<1> QED
  BY Inductive, <1>1, PTL

\* No frame is held back beyond the cap, and decoded audio takes no more than the pool and one frame.
THEOREM Bounded == Spec => []LatencyBounded
<1>1. IInv => LatencyBounded
  BY DEF IInv, Pacing, Counts, LatencyBounded
<1> QED
  BY Inductive, <1>1, PTL

\* One claim of several that exclude each other.
LEMMA OneOfFour ==
  ASSUME NEW a \in BOOLEAN, NEW b \in BOOLEAN, NEW c \in BOOLEAN, NEW d \in BOOLEAN,
         a \/ b \/ c \/ d, a => ~b /\ ~c /\ ~d, b => ~c /\ ~d, c => ~d
  PROVE  Places(<<a, b, c, d>>) = 1
<1> DEFINE q == <<a, b, c, d>>
           D == {i \in DOMAIN q : q[i]}
<1>1. DOMAIN q = {1, 2, 3, 4} /\ q[1] = a /\ q[2] = b /\ q[3] = c /\ q[4] = d
  OBVIOUS
<1> HIDE DEF q
<1>2. \E n \in {1, 2, 3, 4} : D = {n}
  BY <1>1
<1>3. Cardinality(D) = 1
  BY <1>2, FS_Singleton
<1> QED
  BY <1>3 DEF Places, q

\* The same for five.
LEMMA OneOfFive ==
  ASSUME NEW a \in BOOLEAN, NEW b \in BOOLEAN, NEW c \in BOOLEAN, NEW d \in BOOLEAN, NEW e \in BOOLEAN,
         a \/ b \/ c \/ d \/ e, a => ~b /\ ~c /\ ~d /\ ~e, b => ~c /\ ~d /\ ~e, c => ~d /\ ~e, d => ~e
  PROVE  Places(<<a, b, c, d, e>>) = 1
<1> DEFINE q == <<a, b, c, d, e>>
           D == {i \in DOMAIN q : q[i]}
<1>1. DOMAIN q = {1, 2, 3, 4, 5} /\ q[1] = a /\ q[2] = b /\ q[3] = c /\ q[4] = d /\ q[5] = e
  OBVIOUS
<1> HIDE DEF q
<1>2. \E n \in {1, 2, 3, 4, 5} : D = {n}
  BY <1>1
<1>3. Cardinality(D) = 1
  BY <1>2, FS_Singleton
<1> QED
  BY <1>3 DEF Places, q

\* What is in a sequence without repetition is there once.
LEMMA OnceIs ==
  ASSUME NEW S, NEW q \in Seq(S), \A i, j \in 1..Len(q) : q[i] = q[j] => i = j, NEW x
  PROVE  Once(q, x)
<1> DEFINE D == {i \in DOMAIN q : q[i] = x}
<1>1. DOMAIN q = 1..Len(q)
  BY LenProperties
<1>2. \A i, j \in D : i = j
  BY <1>1
<1>3. D = {} \/ \E n \in D : D = {n}
  BY <1>2
<1>4. Cardinality(D) = 0 \/ Cardinality(D) = 1
  <2>1. CASE D = {}
    BY <2>1, FS_EmptySet
  <2>2. CASE D # {}
    <3>1. PICK n \in D : D = {n}
      BY <1>3, <2>2
    <3> HIDE DEF D
    <3> QED
      BY <3>1, FS_Singleton
  <2> QED
    BY <2>1, <2>2
<1> QED
  BY <1>4 DEF Once

\* Every output buffer and every PCM frame is in one place, and who holds one finds it alive.
THEOREM OwnedOnce == Spec => []Owned
<1>1. IInv => Owned
  <2> SUFFICES ASSUME IInv PROVE Owned
    OBVIOUS
  <2>1. /\ output.queue \in Seq(Entry) /\ DOMAIN output.queue = 1..Len(output.queue)
        /\ pcm.queue \in Seq(PcmIds) /\ DOMAIN pcm.queue = 1..Len(pcm.queue)
        /\ pcm.alloc \subseteq PcmIds /\ None \notin PcmIds
        /\ Len(output.queue) \in Nat
    BY LenProperties, Ids DEF IInv, Outputs, Pooled
  <2>2. ASSUME sys.codec # "none", NEW b \in OutBuffers
        PROVE  /\ Places(<<b \in output.free, callback.buf = b, render.buf = b, InQueue(OutputBufs, b)>>) = 1
               /\ Once(OutputBufs, b)
    <3>1. ctl # "released"
      BY <2>2, NothingIs DEF IInv, Control
    <3>2. OutputBufs \in Seq(OutBuffers) /\ Len(OutputBufs) = Len(output.queue) /\ DOMAIN OutputBufs = 1..Len(output.queue)
          /\ \A i \in 1..Len(output.queue) : OutputBufs[i] = output.queue[i].buf
      <4>1. OutputBufs = [i \in 1..Len(output.queue) |-> output.queue[i].buf]
        BY <2>1 DEF OutputBufs
      <4>2. \A i \in 1..Len(output.queue) : output.queue[i].buf \in OutBuffers
        <5>1. \A i \in 1..Len(output.queue) : output.queue[i] \in Entry
          BY <2>1, Elements
        <5> QED
          BY <5>1 DEF Entry
      <4> QED
        BY <2>1, <4>1, <4>2
    <3>3. InQueue(OutputBufs, b) <=> HasBuf(output.queue, b)
      BY <3>2 DEF InQueue, HasBuf
    <3>4. Once(OutputBufs, b)
      <4>1. \A i, j \in 1..Len(OutputBufs) : OutputBufs[i] = OutputBufs[j] => i = j
        BY <3>2 DEF IInv, Buffers, Single
      <4> QED
        BY <3>2, <4>1, OnceIs
    <3> DEFINE p == b \in output.free
               q == callback.buf = b
               r == render.buf = b
               s == InQueue(OutputBufs, b)
    <3>5. /\ p \/ q \/ r \/ s
          /\ p => ~q /\ ~r /\ ~s
          /\ q => ~r /\ ~s
          /\ r => ~s
      BY <2>2, <3>1, <3>3 DEF IInv, Buffers, Somewhere
    <3>6. p \in BOOLEAN /\ q \in BOOLEAN /\ r \in BOOLEAN /\ s \in BOOLEAN
      BY DEF InQueue
    <3> HIDE DEF p, q, r, s
    <3>7. Places(<<p, q, r, s>>) = 1
      BY <3>5, <3>6, OneOfFour
    <3> QED
      BY <3>4, <3>7 DEF p, q, r, s
  <2>3. ASSUME NEW f \in pcm.alloc
        PROVE  /\ Places(<<f \in pcm.free, InQueue(pcm.queue, f), callback.frame = f, writer.frame = f, held = f>>) = 1
               /\ Once(pcm.queue, f)
    <3>1. InQueue(pcm.queue, f) <=> In(pcm.queue, f)
      BY <2>1 DEF InQueue, In
    <3>2. Once(pcm.queue, f)
      BY <2>1, OnceIs DEF IInv, Frames, Distinct
    <3> DEFINE p == f \in pcm.free
               q == InQueue(pcm.queue, f)
               r == callback.frame = f
               s == writer.frame = f
               t == held = f
    <3>3. /\ p \/ q \/ r \/ s \/ t
          /\ p => ~q /\ ~r /\ ~s /\ ~t
          /\ q => ~r /\ ~s /\ ~t
          /\ r => ~s /\ ~t
          /\ s => ~t
      BY <2>1, <3>1 DEF IInv, Frames
    <3>4. p \in BOOLEAN /\ q \in BOOLEAN /\ r \in BOOLEAN /\ s \in BOOLEAN /\ t \in BOOLEAN
      BY DEF InQueue
    <3> HIDE DEF p, q, r, s, t
    <3>5. Places(<<p, q, r, s, t>>) = 1
      BY <3>3, <3>4, OneOfFive
    <3> QED
      BY <3>2, <3>5 DEF p, q, r, s, t
  <2>4. (render.buf # None \/ callback.at # "idle") => sys.codec # "none" /\ sys.context = "live"
    <3>1. (render.buf # None \/ callback.at # "idle") => sys.codec = "running"
      BY DEF IInv, Rendering, Calling
    <3> QED
      BY <3>1 DEF IInv, Control
  <2>5. held # None => kind = "raw" \/ sys.codec # "none"
    BY DEF IInv, Feeding, Control
  <2>6. writer.frame # None => writer.frame \in pcm.alloc
    BY DEF IInv, Writing, Frames
  <2> QED
    BY <2>2, <2>3, <2>4, <2>5, <2>6 DEF Owned
<1> QED
  BY Inductive, <1>1, PTL

=============================================================================
