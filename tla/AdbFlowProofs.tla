---------------------------- MODULE AdbFlowProofs ----------------------------
(***************************************************************************)
(* What AdbFlow promises, proved for every number of streams and writers   *)
(* and every limit:                                                        *)
(*                                                                         *)
(*   TypeCorrect   every variable has its type, and no read buffer holds   *)
(*                 more payloads than it has room for                      *)
(*   OneWrite      a stream never has two WRTEs outstanding                *)
(*   ReceivedInOrder  the device receives a prefix of the accepted bytes,  *)
(*                 on a control stream the messages in their order, but    *)
(*                 for moves of different pointers                         *)
(*   NothingHeld   nothing stays pending on a closed stream                *)
(*   CreditStays   the credit of an open stream is never lost, and         *)
(*   AllAccounted  no accepted byte is, nor a message of a control stream  *)
(*                 but a move that a later one makes needless, when the    *)
(*                 queue has room for three messages of every stream       *)
(*                 (FewStreams)                                            *)
(***************************************************************************)
EXTENDS AdbFlow, SequenceTheorems, FiniteSetTheorems, TLAPS

-----------------------------------------------------------------------------
(* The helpers return what they are used for.                              *)

LEMMA RestType ==
  ASSUME NEW p \in Seq(Nat), NEW n \in 0..Len(p)
  PROVE  Rest(p, n) \in Seq(Nat) /\ SubSeq(p, 1, n) \in Seq(Nat)
<1>1. Len(p) \in Nat
  BY LenProperties
<1>2. \A i \in 1..Len(p) : p[i] \in Nat
  BY ElementOfSeq
<1>3. \A i \in n + 1 .. Len(p) : p[i] \in Nat
  BY <1>1, <1>2
<1>4. \A i \in 1 .. n : p[i] \in Nat
  BY <1>1, <1>2
<1>5. n + 1 \in Int /\ n \in Int /\ 1 \in Int /\ Len(p) \in Int
  BY <1>1
<1>6. SubSeq(p, n + 1, Len(p)) \in Seq(Nat)
  BY <1>3, <1>5, SubSeqProperties
<1>7. SubSeq(p, 1, n) \in Seq(Nat)
  BY <1>4, <1>5, SubSeqProperties
<1> QED
  BY <1>6, <1>7 DEF Rest

LEMMA BytesType ==
  ASSUME NEW k \in Nat, NEW n \in Nat
  PROVE  Bytes(k, n) \in Seq(Nat) /\ Len(Bytes(k, n)) = n
<1>1. Bytes(k, n) \in [1..n -> Nat]
  BY DEF Bytes
<1>2. Bytes(k, n) \in Seq(Nat)
  BY <1>1, SeqDef
<1> QED
  BY <1>1, <1>2, LenProperties

LEMMA MessageType ==
  ASSUME NEW s \in Streams, NEW bytes \in Seq(Nat)
  PROVE  Wrte(s, bytes) \in Messages /\ Okay(s) \in Messages /\ Clse(s) \in Messages
<1>1. <<>> \in Seq(Nat)
  BY EmptySeq
<1> QED
  BY <1>1 DEF Wrte, Okay, Clse, Messages

LEMMA EnqueueType ==
  ASSUME NEW q \in Seq(Messages), NEW m \in Messages
  PROVE  Enqueue(q, m) \in Seq(Messages) /\ Enqueue(q, m) \in {q, Append(q, m)}
  BY AppendProperties DEF Enqueue

\* A chunk is cut from the front of the pending bytes.
LEMMA ChunkType ==
  ASSUME NEW x \in HostEnd
  PROVE  Chunk(x) \in 0..Len(x.pending)
<1>1. Len(x.pending) \in Nat
  BY LenProperties DEF HostEnd
<1> QED
  BY <1>1, FlowAssumption DEF Chunk, Smaller

LEMMA FlushedType ==
  ASSUME NEW s \in Streams, NEW x \in HostEnd
  PROVE  Flushed(s, x) \in HostEnd
<1>1. Rest(x.pending, Chunk(x)) \in Seq(Nat)
  BY ChunkType, RestType DEF HostEnd
<1>2. Flushed(s, x) \in {x, [x EXCEPT !.canWrite = FALSE, !.pending = Rest(x.pending, Chunk(x))]}
  BY DEF Flushed, CreditAfterWrte
<1> HIDE DEF Rest, Chunk
<1> QED
  BY <1>1, <1>2 DEF HostEnd

LEMMA FlushedQueueType ==
  ASSUME NEW s \in Streams, NEW x \in HostEnd, NEW q \in Seq(Messages)
  PROVE  FlushedQueue(s, x, q) \in Seq(Messages)
<1>1. SubSeq(x.pending, 1, Chunk(x)) \in Seq(Nat)
  BY ChunkType, RestType DEF HostEnd
<1>2. Wrte(s, SubSeq(x.pending, 1, Chunk(x))) \in Messages
  BY <1>1, MessageType
<1> QED
  BY <1>2, EnqueueType DEF FlushedQueue

\* The last of the places that are merged into one.
LEMMA LatestIs ==
  ASSUME NEW x \in HostEnd, NEW i \in DOMAIN x.pending
  PROVE  Latest(x, i) \in Again(x, i) /\ \A k \in Again(x, i) : k <= Latest(x, i)
<1> DEFINE l == Len(x.pending)
           T == {l - k : k \in Again(x, i)}
<1>1. l \in Nat /\ i \in 1..l
  BY LenProperties DEF HostEnd
<1>2. Again(x, i) \subseteq i..l /\ i \in Again(x, i)
  BY <1>1 DEF Again
<1> HIDE DEF l
<1>3. T \subseteq Nat /\ T # {}
  BY <1>1, <1>2
<1>4. PICK t \in T : \A y \in T : ~ (<<y, t>> \in OpToRel(<, Nat))
  BY <1>3, NatLessThanWellFounded, WFMin
<1>5. \A y \in T : ~ (y < t)
  BY <1>3, <1>4 DEF OpToRel
<1>6. PICK j \in Again(x, i) : t = l - j
  OBVIOUS
<1>7. \A k \in Again(x, i) : k <= j
  <2> TAKE k \in Again(x, i)
  <2>1. l - k \in T /\ k \in Nat /\ j \in Nat
    BY <1>1, <1>2
  <2>2. ~ (l - k < l - j)
    BY <1>5, <1>6, <2>1
  <2> QED
    BY <1>1, <2>1, <2>2
<1> QED
  BY <1>7 DEF Latest

\* The places that stay.
LEMMA PlacesIs ==
  ASSUME NEW x \in HostEnd, NEW m
  PROVE  /\ Places(x, m) \subseteq 1..Len(x.pending) /\ Cardinality(Places(x, m)) \in Nat
         /\ Cardinality(Places(x, m)) <= Len(x.pending)
<1> DEFINE l == Len(x.pending)
           P == Places(x, m)
<1>1. l \in Nat /\ DOMAIN x.pending = 1..l
  BY LenProperties DEF HostEnd
<1>2. P \subseteq 1..l
  BY <1>1 DEF Places
<1> HIDE DEF l, P
<1>3. IsFiniteSet(1..l) /\ Cardinality(1..l) = l
  <2>1. IsFiniteSet(1..l) /\ Cardinality(1..l) = IF 1 > l THEN 0 ELSE l - 1 + 1
    BY <1>1, FS_Interval
  <2> QED
    BY <1>1, <2>1
<1>4. IsFiniteSet(P) /\ Cardinality(P) <= l
  BY <1>2, <1>3, FS_Subset
<1>5. Cardinality(P) \in Nat
  BY <1>4, FS_CardinalityType
<1> QED
  BY <1>2, <1>4, <1>5 DEF P, l

\* What is pending when a call writes m: all, or one for each of the places that stay.
LEMMA BeforeIs ==
  ASSUME NEW x \in HostEnd, NEW m, NEW p \in PendingBefore(x, m)
  PROVE  /\ p \in Seq(Nat) /\ Len(p) <= Len(x.pending)
         /\ m = Other => p = x.pending
         /\ \/ p = x.pending /\ (m \notin Pointers \/ Len(x.pending) < CompactAt \/ ~OnlyMoves(x))
            \/ m \in Pointers /\ \E f \in Increasing(Places(x, m)) :
                                    p = [i \in DOMAIN f |-> x.pending[Latest(x, f[i])]]
<1>0. Len(x.pending) \in Nat /\ x.pending \in Seq(Nat) /\ DOMAIN x.pending = 1..Len(x.pending)
      /\ CompactAt \in Nat
  BY LenProperties, FlowAssumption DEF HostEnd
<1>1. \/ p = x.pending /\ (m \notin Pointers \/ Len(x.pending) < CompactAt \/ ~OnlyMoves(x))
      \/ m \in Pointers /\ p \in Merged(x, m)
  BY <1>0 DEF PendingBefore
<1>2. CASE p = x.pending /\ (m \notin Pointers \/ Len(x.pending) < CompactAt \/ ~OnlyMoves(x))
  BY <1>0, <1>2
<1>3. CASE m \in Pointers /\ p \in Merged(x, m)
  <2>1. PICK f \in Increasing(Places(x, m)) :
           p = [i \in DOMAIN f |-> x.pending[Latest(x, f[i])]]
    BY <1>3 DEF Merged
  <2> DEFINE c == Cardinality(Places(x, m))
  <2>2. c \in Nat /\ c <= Len(x.pending) /\ f \in [1..c -> 1..Len(x.pending)]
    BY <2>1, PlacesIs DEF Increasing
  <2> HIDE DEF c
  <2>3. \A i \in 1..c : x.pending[Latest(x, f[i])] \in Nat
    <3> TAKE i \in 1..c
    <3>1. f[i] \in DOMAIN x.pending
      BY <1>0, <2>2
    <3>2. Latest(x, f[i]) \in 1..Len(x.pending)
      BY <1>0, <3>1, LatestIs DEF Again
    <3> QED
      BY <1>0, <3>2, ElementOfSeq
  <2>4. p \in [1..c -> Nat]
    BY <2>1, <2>2, <2>3
  <2>5. p \in Seq(Nat) /\ Len(p) = c
    <3>1. p \in Seq(Nat)
      BY <2>2, <2>4, SeqDef
    <3> QED
      BY <2>2, <2>4, <3>1, LenProperties
  <2>6. m # Other
    BY <1>3, FlowAssumption
  <2> QED
    BY <1>3, <2>1, <2>2, <2>5, <2>6
<1> QED
  BY <1>1, <1>2, <1>3

LEMMA NotifyType ==
  ASSUME writer \in [Writers -> WriterState], NotifyAll
  PROVE  writer' \in [Writers -> WriterState]
  BY DEF NotifyAll, WriterState

LEMMA HeadTailType ==
  ASSUME NEW q \in Seq(Messages), q # <<>>
  PROVE  Head(q) \in Messages /\ Tail(q) \in Seq(Messages)
  BY HeadTailProperties

LEMMA SetStreamType ==
  ASSUME TypeOK, NEW s \in Streams, NEW x \in HostEnd, SetStream(s, x)
  PROVE  stream' \in [Streams -> HostEnd]
  BY DEF TypeOK, SetStream

LEMMA GoToType ==
  ASSUME TypeOK, NEW w \in Writers,
         NEW l \in {"idle", "lock", "round", "append", "check", "doze", "asleep", "raw"}, GoTo(w, l)
  PROVE  writer' \in [Writers -> WriterState]
  BY DEF TypeOK, GoTo, WriterState

LEMMA WriterType ==
  ASSUME TypeOK, NEW w \in Writers, NEW r \in WriterState, writer' = [writer EXCEPT ![w] = r]
  PROVE  writer' \in [Writers -> WriterState]
  BY DEF TypeOK

LEMMA CallType ==
  ASSUME TypeOK, NEW s \in Streams, NEW n \in 1..Call(s)
  PROVE  n \in Nat \ {0}
<1>1. MaxAccepted[use[s]] \in Nat /\ stream[s].accepted \in Nat
  BY FlowAssumption DEF TypeOK, HostEnd
<1>2. Call(s) \in Int
  BY <1>1 DEF Call, Smaller
<1> QED
  BY <1>2

LEMMA InitType == Init => TypeOK
<1> SUFFICES ASSUME Init PROVE TypeOK
  OBVIOUS
<1>1. <<>> \in Seq(Nat) /\ <<>> \in Seq(Messages)
  BY EmptySeq
<1>2. stream \in [Streams -> HostEnd]
  <2>1. 0 \in 0..RingSpace
    BY FlowAssumption
  <2> QED
    BY <1>1, <2>1 DEF Init, HostEnd
<1>3. device \in [Streams -> DeviceEnd]
  BY <1>1 DEF Init, DeviceEnd
<1>4. writer \in [Writers -> WriterState]
  BY DEF Init, Idle, WriterState
<1>5. handle \in HandleState /\ conn \in ConnState
  BY DEF Init, Reading, HandleState, ConnState
<1> QED
  BY <1>1, <1>2, <1>3, <1>4, <1>5 DEF Init, TypeOK

\* Who runs a turn of streamWrite holds writeMutex and has something left to write; between the
\* checks and the rest of the turn the pending bytes leave room.
Locked ==
  \A w \in Writers :
    /\ writer[w].at \in {"lock", "round", "append"} => writer[w].left > 0
    /\ writer[w].at \in {"round", "append"} => stream[StreamOf[w]].lock = w
    /\ writer[w].at = "append" =>
         Len(stream[StreamOf[w]].pending) < MaxPending[use[StreamOf[w]]]

\* The second half of a turn: w writes n bytes after p, the message of them being m, which makes
\* x of its stream.
Appends(w, m, p, n, x) ==
  LET s == StreamOf[w]
      a == stream[s].accepted
  IN
  /\ m \in Pointers => use[s] = "control"
  /\ p \in PendingBefore(stream[s], m) /\ p \in Seq(Nat)
  /\ n \in Nat \ {0} /\ writer[w].left - n \in Nat
  /\ x \in HostEnd
  /\ x.pending = p \o Bytes(a, n) /\ x.accepted = a + n
  /\ x.moves = stream[s].moves \cup {f \in {<<a + 1, m>>} : m \in Pointers}
  /\ x.canWrite = stream[s].canWrite /\ x.closed = stream[s].closed /\ x.closer = stream[s].closer
  /\ x.lock = IF n = writer[w].left THEN NoOne ELSE w
  /\ SetStream(s, Flushed(s, x))
  /\ sendQueue' = FlushedQueue(s, x, sendQueue)
  /\ writer' = [writer EXCEPT ![w] = IF n = @.left THEN Idle
                                     ELSE [at |-> "round", left |-> @.left - n]]

\* That is what AppendRound does.
LEMMA AppendIs ==
  ASSUME TypeOK, Locked, NEW w \in Writers, AppendRound(w)
  PROVE  /\ writer[w].at = "append" /\ UNCHANGED <<use, handle, conn, toHost, device>>
         /\ \E m, p, n, x : Appends(w, m, p, n, x)
<1> DEFINE s == StreamOf[w]
           a == stream[s].accepted
           Max == MaxPending[use[s]]
           left == writer[w].left
<1>1. s \in Streams /\ stream[s] \in HostEnd /\ left \in Nat /\ Max \in Nat
  BY FlowAssumption DEF TypeOK, WriterState
<1>2. /\ writer[w].at = "append" /\ UNCHANGED <<use, handle, conn, toHost, device>>
      /\ left > 0 /\ Len(stream[s].pending) < Max
  BY DEF AppendRound, Locked
<1> DEFINE N(p) == Smaller(Max - Len(p), left)
           X(m, p) == [stream[s] EXCEPT
                         !.pending = p \o Bytes(a, N(p)), !.accepted = a + N(p),
                         !.moves = @ \cup {f \in {<<a + 1, m>>} : m \in Pointers},
                         !.lock = IF N(p) = left THEN NoOne ELSE w]
<1>3. PICK m \in IF use[s] = "control" THEN Pointers \cup {Other} ELSE {Other} :
        \E p \in PendingBefore(stream[s], m) :
          /\ SetStream(s, Flushed(s, X(m, p)))
          /\ sendQueue' = FlushedQueue(s, X(m, p), sendQueue)
          /\ writer' = [writer EXCEPT ![w] = IF N(p) = @.left THEN Idle
                                             ELSE [at |-> "round", left |-> @.left - N(p)]]
  BY DEF AppendRound
<1>4. PICK p \in PendingBefore(stream[s], m) :
          /\ SetStream(s, Flushed(s, X(m, p)))
          /\ sendQueue' = FlushedQueue(s, X(m, p), sendQueue)
          /\ writer' = [writer EXCEPT ![w] = IF N(p) = @.left THEN Idle
                                             ELSE [at |-> "round", left |-> @.left - N(p)]]
  BY <1>3
<1> DEFINE n == N(p)
           x == X(m, p)
<1>5. m \in Pointers => use[s] = "control"
  BY <1>3, FlowAssumption
<1> HIDE DEF s, Max, left
<1>6. p \in Seq(Nat) /\ Len(p) \in Nat /\ Len(p) < Max
  <2>1. p \in Seq(Nat) /\ Len(p) <= Len(stream[s].pending)
    BY <1>1, <1>4, BeforeIs
  <2>2. Len(p) \in Nat /\ Len(stream[s].pending) \in Nat
    BY <1>1, <2>1, LenProperties DEF HostEnd
  <2> QED
    BY <1>1, <1>2, <2>1, <2>2
<1>7. n \in Nat \ {0} /\ left - n \in Nat
  BY <1>1, <1>2, <1>6 DEF Smaller
<1>8. /\ x.pending = p \o Bytes(a, n) /\ x.accepted = a + n
      /\ x.moves = stream[s].moves \cup {f \in {<<a + 1, m>>} : m \in Pointers}
      /\ x.canWrite = stream[s].canWrite /\ x.closed = stream[s].closed
      /\ x.closer = stream[s].closer /\ x.lock = (IF n = left THEN NoOne ELSE w)
  BY <1>1 DEF HostEnd
<1>9. x \in HostEnd
  <2>1. a \in Nat /\ a + n \in Nat /\ p \o Bytes(a, n) \in Seq(Nat)
    <3>1. a \in Nat
      BY <1>1 DEF HostEnd
    <3> HIDE DEF n, a
    <3> QED
      BY <1>6, <1>7, <3>1, BytesType, ConcatProperties
  <2>2. stream[s].moves \cup {f \in {<<a + 1, m>>} : m \in Pointers} \in SUBSET (Nat \X Pointers)
    BY <1>1, <2>1 DEF HostEnd
  <2>3. (IF n = left THEN NoOne ELSE w) \in Writers \cup {NoOne}
    OBVIOUS
  <2> DEFINE M == stream[s].moves \cup {f \in {<<a + 1, m>>} : m \in Pointers}
             P == p \o Bytes(a, n)
             A == a + n
             L == IF n = left THEN NoOne ELSE w
  <2>4. x = [stream[s] EXCEPT !.pending = P, !.accepted = A, !.moves = M, !.lock = L]
    OBVIOUS
  <2>5. P \in Seq(Nat) /\ A \in Nat /\ M \in SUBSET (Nat \X Pointers) /\ L \in Writers \cup {NoOne}
    BY <2>1, <2>2, <2>3
  <2> HIDE DEF x, P, A, M, L
  <2> QED
    BY <1>1, <2>4, <2>5 DEF HostEnd
<1>10. Appends(w, m, p, n, x)
  <2>1. /\ SetStream(s, Flushed(s, x)) /\ sendQueue' = FlushedQueue(s, x, sendQueue)
        /\ writer' = [writer EXCEPT ![w] = IF n = @.left THEN Idle
                                           ELSE [at |-> "round", left |-> @.left - n]]
    BY <1>4
  <2> HIDE DEF x, n
  <2> QED
    BY <1>4, <1>5, <1>6, <1>7, <1>8, <1>9, <2>1 DEF Appends, s, a, left
<1> QED
  BY <1>2, <1>10

LEMMA StreamWriteType ==
  ASSUME TypeOK, Locked, NEW w \in Writers,
         \/ StartWrite(w) \/ LockStream(w) \/ CheckRound(w) \/ AppendRound(w)
         \/ FullRound(w) \/ ThrowRound(w)
  PROVE  TypeOK'
<1> DEFINE s == StreamOf[w]
<1>0. s \in Streams /\ stream[s] \in HostEnd /\ writer[w] \in WriterState
      /\ sendQueue \in Seq(Messages)
  BY FlowAssumption DEF TypeOK
<1> HIDE DEF s
<1>1. CASE StartWrite(w)
  <2>1. [stream[s] EXCEPT !.lock = w] \in HostEnd
    BY <1>0 DEF HostEnd
  <2>2. stream' \in [Streams -> HostEnd]
    BY <1>0, <1>1, <2>1, SetStreamType DEF StartWrite, s
  <2>3. writer' \in [Writers -> WriterState]
    <3>1. PICK n \in 1..Call(s) : writer' = [writer EXCEPT ![w] = [at |-> "round", left |-> n]]
      BY <1>1 DEF StartWrite, s
    <3>2. n \in Nat
      BY <1>0, CallType
    <3>3. [at |-> "round", left |-> n] \in WriterState
      BY <3>2 DEF WriterState
    <3> QED
      BY <3>1, <3>3, WriterType
  <2> QED
    BY <1>1, <2>2, <2>3 DEF StartWrite, TypeOK
<1>2. CASE LockStream(w)
  <2>1. [stream[s] EXCEPT !.lock = w] \in HostEnd
    BY <1>0 DEF HostEnd
  <2>2. stream' \in [Streams -> HostEnd]
    BY <1>0, <1>2, <2>1, SetStreamType DEF LockStream, s
  <2>3. writer' \in [Writers -> WriterState]
    BY <1>2, GoToType DEF LockStream
  <2> QED
    BY <1>2, <2>2, <2>3 DEF LockStream, TypeOK
<1>3. CASE AppendRound(w)
  <2>1. UNCHANGED <<use, handle, conn, toHost, device>>
    BY <1>3, AppendIs
  <2>2. PICK m, p, n, x : Appends(w, m, p, n, x)
    BY <1>3, AppendIs
  <2>3. /\ n \in Nat \ {0} /\ writer[w].left - n \in Nat /\ x \in HostEnd
        /\ SetStream(s, Flushed(s, x)) /\ sendQueue' = FlushedQueue(s, x, sendQueue)
        /\ writer' = [writer EXCEPT ![w] = IF n = @.left THEN Idle
                                           ELSE [at |-> "round", left |-> @.left - n]]
    BY <2>2 DEF Appends, s
  <2>4. stream' \in [Streams -> HostEnd] /\ sendQueue' \in Seq(Messages)
    BY <1>0, <2>3, FlushedType, FlushedQueueType, SetStreamType
  <2>5. writer' \in [Writers -> WriterState]
    <3>1. Idle \in WriterState /\ [at |-> "round", left |-> writer[w].left - n] \in WriterState
      BY <2>3 DEF Idle, WriterState
    <3> QED
      BY <2>3, <3>1 DEF TypeOK
  <2> QED
    BY <2>1, <2>4, <2>5 DEF TypeOK
<1>6. CASE CheckRound(w)
  <2>1. stream' \in [Streams -> HostEnd]
    BY <1>0, <1>6, FlushedType, SetStreamType DEF CheckRound, s
  <2>2. sendQueue' \in Seq(Messages)
    BY <1>0, <1>6, FlushedQueueType DEF CheckRound, s
  <2>3. writer' \in [Writers -> WriterState]
    BY <1>6, GoToType DEF CheckRound
  <2> QED
    BY <1>6, <2>1, <2>2, <2>3 DEF CheckRound, TypeOK
<1>4. CASE FullRound(w)
  <2> DEFINE x == Flushed(s, stream[s])
  <2>1. x \in HostEnd
    BY <1>0, FlushedType
  <2>2. SetStream(s, [x EXCEPT !.lock = NoOne])
    BY <1>4 DEF FullRound, LockWhileWaiting, s
  <2> HIDE DEF x
  <2>3. [x EXCEPT !.lock = NoOne] \in HostEnd
    BY <2>1 DEF HostEnd
  <2>4. stream' \in [Streams -> HostEnd]
    BY <1>0, <2>2, <2>3, SetStreamType
  <2>5. sendQueue' \in Seq(Messages)
    BY <1>0, <1>4, FlushedQueueType DEF FullRound, s
  <2>6. writer' \in [Writers -> WriterState]
    BY <1>4, GoToType DEF FullRound
  <2> QED
    BY <1>4, <2>4, <2>5, <2>6 DEF FullRound, TypeOK
<1>5. CASE ThrowRound(w)
  <2>1. [stream[s] EXCEPT !.lock = NoOne] \in HostEnd
    BY <1>0 DEF HostEnd
  <2>2. stream' \in [Streams -> HostEnd]
    BY <1>0, <1>5, <2>1, SetStreamType DEF ThrowRound, s
  <2>3. writer' \in [Writers -> WriterState]
    BY <1>5, WriterType DEF ThrowRound, Idle, WriterState
  <2> QED
    BY <1>5, <2>2, <2>3 DEF ThrowRound, TypeOK
<1> QED
  BY <1>1, <1>2, <1>3, <1>4, <1>5, <1>6

LEMMA StreamWriteRawType ==
  ASSUME TypeOK, NEW w \in Writers,
         StartRawWrite(w) \/ RawCheck(w) \/ RawDoze(w) \/ RawRetry(w) \/ RawSend(w)
  PROVE  TypeOK'
<1> DEFINE s == StreamOf[w]
<1>0. s \in Streams /\ stream[s] \in HostEnd /\ writer[w] \in WriterState
      /\ sendQueue \in Seq(Messages)
  BY FlowAssumption DEF TypeOK
<1> HIDE DEF s
<1>1. CASE StartRawWrite(w)
  <2>1. writer' \in [Writers -> WriterState]
    <3>1. PICK n \in 1..Call(s) : writer' = [writer EXCEPT ![w] = [at |-> "check", left |-> n]]
      BY <1>1 DEF StartRawWrite, s
    <3>2. n \in Nat
      BY <1>0, CallType
    <3>3. [at |-> "check", left |-> n] \in WriterState
      BY <3>2 DEF WriterState
    <3> QED
      BY <3>1, <3>3, WriterType
  <2> QED
    BY <1>1, <2>1 DEF StartRawWrite, TypeOK
<1>2. CASE RawCheck(w)
  <2>1. writer' \in [Writers -> WriterState]
    BY <1>2, GoToType DEF RawCheck
  <2> QED
    BY <1>2, <2>1 DEF RawCheck, TypeOK
<1>3. CASE RawDoze(w)
  <2>1. writer' \in [Writers -> WriterState]
    BY <1>3, GoToType DEF RawDoze
  <2> QED
    BY <1>3, <2>1 DEF RawDoze, TypeOK
<1>4. CASE RawRetry(w)
  <2>1. writer' \in [Writers -> WriterState]
    <3>1. Idle \in WriterState
      BY DEF Idle, WriterState
    <3> QED
      BY <1>4, <3>1, GoToType, WriterType DEF RawRetry
  <2> QED
    BY <1>4, <2>1 DEF RawRetry, TypeOK
<1>5. CASE RawSend(w)
  <2> DEFINE n == Smaller(ChunkLimit, writer[w].left)
  <2>1. n \in Nat /\ writer[w].left - n \in Nat
    <3>1. ChunkLimit \in Nat /\ writer[w].left \in Nat
      BY <1>0, FlowAssumption DEF WriterState
    <3> QED
      BY <3>1 DEF Smaller
  <2>2. SetStream(s, [stream[s] EXCEPT !.canWrite = FALSE, !.accepted = @ + n])
    BY <1>5 DEF RawSend, CreditAfterWrte, s
  <2>3. sendQueue' = Enqueue(sendQueue, Wrte(s, Bytes(stream[s].accepted, n)))
    BY <1>5 DEF RawSend, s
  <2>4. writer' = [writer EXCEPT ![w] = IF n = @.left THEN Idle
                                        ELSE [at |-> "check", left |-> @.left - n]]
    BY <1>5 DEF RawSend
  <2> HIDE DEF n
  <2>5. stream' \in [Streams -> HostEnd]
    <3>1. [stream[s] EXCEPT !.canWrite = FALSE, !.accepted = @ + n] \in HostEnd
      <4>1. stream[s].accepted + n \in Nat
        BY <1>0, <2>1 DEF HostEnd
      <4> QED
        BY <1>0, <4>1 DEF HostEnd
    <3> QED
      BY <1>0, <2>2, <3>1, SetStreamType
  <2>6. sendQueue' \in Seq(Messages)
    <3>1. Bytes(stream[s].accepted, n) \in Seq(Nat)
      BY <1>0, <2>1, BytesType DEF HostEnd
    <3> QED
      BY <1>0, <2>3, <3>1, MessageType, EnqueueType
  <2>7. writer' \in [Writers -> WriterState]
    <3>1. Idle \in WriterState /\ [at |-> "check", left |-> writer[w].left - n] \in WriterState
      BY <2>1 DEF Idle, WriterState
    <3> QED
      BY <2>4, <3>1 DEF TypeOK
  <2> QED
    BY <1>5, <2>5, <2>6, <2>7 DEF RawSend, TypeOK
<1> QED
  BY <1>1, <1>2, <1>3, <1>4, <1>5

LEMMA DeviceType ==
  ASSUME TypeOK, Send \/ SendExit \/ \E s \in Streams : Device(s)
  PROVE  TypeOK'
<1>1. CASE Send
  <2> DEFINE m == Head(sendQueue)
  <2>1. m \in Messages /\ Tail(sendQueue) \in Seq(Messages)
    BY <1>1, HeadTailType DEF Send, TypeOK
  <2>2. m.stream \in Streams /\ m.data \in Seq(Nat) /\ (m.cmd = "WRTE") \in BOOLEAN
          /\ (m.cmd = "OKAY") \in BOOLEAN /\ (m.cmd # "CLSE") \in BOOLEAN
    BY <2>1 DEF Messages
  <2> DEFINE s == m.stream
             d == [open |-> m.cmd # "CLSE", owes |-> device[s].owes \/ m.cmd = "WRTE",
                   credit |-> device[s].credit \/ m.cmd = "OKAY",
                   wrote |-> device[s].wrote, received |-> device[s].received \o m.data]
  <2>3. /\ sendQueue' = Tail(sendQueue)
        /\ device' \in {device, [device EXCEPT ![s] = d]}
        /\ toHost' \in {toHost, Append(toHost, m)}
    BY <1>1 DEF Send
  <2>4. toHost' \in Seq(Messages)
    <3> HIDE DEF m
    <3>1. toHost \in Seq(Messages) /\ m \in Messages
      BY <2>1 DEF TypeOK
    <3>2. Append(toHost, m) \in Seq(Messages)
      BY <3>1, AppendProperties
    <3> QED
      BY <2>3, <3>1, <3>2
  <2>5. device' \in [Streams -> DeviceEnd]
    <3>1. s \in Streams /\ device \in [Streams -> DeviceEnd] /\ device[s] \in DeviceEnd
      BY <2>2 DEF TypeOK
    <3>2. device[s].received \o m.data \in Seq(Nat)
      BY <2>2, <3>1, ConcatProperties DEF DeviceEnd
    <3> HIDE DEF m
    <3>3. d \in DeviceEnd
      BY <3>1, <3>2 DEF DeviceEnd
    <3> HIDE DEF d
    <3> QED
      BY <2>3, <3>1, <3>3
  <2> QED
    BY <1>1, <2>1, <2>3, <2>4, <2>5 DEF Send, TypeOK
<1>2. CASE SendExit
  <2>1. conn' \in ConnState
    BY <1>2 DEF SendExit, TypeOK, ConnState
  <2> QED
    BY <1>2, <2>1 DEF SendExit, TypeOK
<1>3. ASSUME NEW s \in Streams, NEW m \in Messages, NEW d \in DeviceEnd, DeviceSends(s, m, d)
      PROVE  TypeOK'
  BY <1>3, AppendProperties DEF DeviceSends, TypeOK
<1>4. ASSUME NEW s \in Streams, Device(s) PROVE TypeOK'
  <2>1. device[s] \in DeviceEnd
    BY DEF TypeOK
  <2>2. Okay(s) \in Messages /\ Wrte(s, <<>>) \in Messages /\ Clse(s) \in Messages
    BY MessageType, EmptySeq
  <2>3. [device[s] EXCEPT !.owes = FALSE] \in DeviceEnd
    BY <2>1 DEF DeviceEnd
  <2>4. [device[s] EXCEPT !.credit = FALSE, !.wrote = @ + 1] \in DeviceEnd
    <3>1. device[s].wrote + 1 \in Nat
      BY <2>1 DEF DeviceEnd
    <3> QED
      BY <2>1, <3>1 DEF DeviceEnd
  <2>5. [device[s] EXCEPT !.open = FALSE] \in DeviceEnd
    BY <2>1 DEF DeviceEnd
  <2> QED
    BY <1>3, <1>4, <2>2, <2>3, <2>4, <2>5 DEF Device, DeviceAcks, DeviceWrites, DeviceCloses
<1> QED
  BY <1>1, <1>2, <1>4

LEMMA HandleType ==
  ASSUME TypeOK, Handle
  PROVE  TypeOK'
<1>1. ASSUME NEW cmds, Reads(cmds)
      PROVE  /\ toHost' \in Seq(Messages) /\ First \in Messages /\ First.stream \in Streams
             /\ stream[First.stream] \in HostEnd
  <2>1. First \in Messages /\ Tail(toHost) \in Seq(Messages)
    BY <1>1, HeadTailType DEF Reads, First, TypeOK
  <2>2. First.stream \in Streams
    BY <2>1 DEF Messages
  <2> QED
    BY <1>1, <2>1, <2>2 DEF Reads, TypeOK
<1>2. ASSUME handle.at # "read", handle.at # "exited", handle.stream # NoOne PROVE handle.stream \in Streams
  BY <1>2 DEF TypeOK, HandleState
<1>3. CASE HandleLate
  BY <1>1, <1>3, NotifyType DEF HandleLate, TypeOK
<1>4. CASE HandleOkay
  <2> DEFINE s == First.stream
             x == [stream[s] EXCEPT !.canWrite = TRUE]
  <2>1. toHost' \in Seq(Messages) /\ s \in Streams /\ stream[s] \in HostEnd
    BY <1>1, <1>4 DEF HandleOkay
  <2>2. x \in HostEnd
    BY <2>1 DEF HostEnd
  <2>3. SetStream(s, Flushed(s, x)) /\ sendQueue' = FlushedQueue(s, x, sendQueue) /\ NotifyAll
          /\ UNCHANGED <<use, handle, conn, device>>
    BY <1>4 DEF HandleOkay
  <2> HIDE DEF s, x
  <2>4. stream' \in [Streams -> HostEnd]
    BY <2>1, <2>2, <2>3, FlushedType, SetStreamType
  <2>5. sendQueue' \in Seq(Messages)
    BY <2>1, <2>2, <2>3, FlushedQueueType DEF TypeOK
  <2> QED
    BY <2>1, <2>3, <2>4, <2>5, NotifyType DEF TypeOK
<1>5. CASE HandleWrte
  <2>1. handle' \in HandleState
    BY <1>1, <1>5 DEF HandleWrte, HandleState
  <2> QED
    BY <1>1, <1>5, <2>1 DEF HandleWrte, TypeOK
<1>6. CASE HandleStore
  <2> DEFINE s == handle.stream
  <2>1. s \in Streams /\ stream[s] \in HostEnd
    BY <1>6 DEF HandleStore, TypeOK, HandleState
  <2>2. stream' \in [Streams -> HostEnd]
    <3>1. CASE HasSpace(s)
      <4>1. stream[s].ring + 1 \in 0..RingSpace
        BY <2>1, <3>1, FlowAssumption DEF HasSpace, HostEnd
      <4>2. [stream[s] EXCEPT !.ring = @ + 1] \in HostEnd
        BY <2>1, <4>1 DEF HostEnd
      <4>3. SetStream(s, [stream[s] EXCEPT !.ring = @ + 1])
        BY <1>6, <3>1 DEF HandleStore
      <4> QED
        BY <2>1, <4>2, <4>3, SetStreamType
    <3>2. CASE ~HasSpace(s)
      <4>1. SetStream(s, stream[s])
        BY <1>6, <3>2 DEF HandleStore
      <4> QED
        BY <2>1, <4>1, SetStreamType
    <3> QED
      BY <3>1, <3>2
  <2>3. sendQueue' \in Seq(Messages)
    <3>1. Okay(s) \in Messages /\ sendQueue \in Seq(Messages)
      BY <2>1, MessageType, EmptySeq DEF TypeOK
    <3> QED
      BY <1>6, <3>1, EnqueueType DEF HandleStore
  <2>4. handle' \in HandleState
    BY <1>6 DEF HandleStore, Reading, HandleState
  <2> QED
    BY <1>6, <2>2, <2>3, <2>4 DEF HandleStore, TypeOK
<1>7. CASE HandleClse
  <2> DEFINE s == First.stream
  <2>1. toHost' \in Seq(Messages) /\ s \in Streams /\ stream[s] \in HostEnd
    BY <1>1, <1>7 DEF HandleClse
  <2>2. [stream[s] EXCEPT !.closed = TRUE] \in HostEnd
    BY <2>1 DEF HostEnd
  <2>3. stream' \in [Streams -> HostEnd]
    BY <1>7, <2>1, <2>2, SetStreamType DEF HandleClse
  <2>4. handle' \in HandleState
    BY <1>7, <2>1 DEF HandleClse, HandleState
  <2> QED
    BY <1>7, <2>1, <2>3, <2>4 DEF HandleClse, TypeOK
<1>8. CASE HandleClear
  <2> DEFINE s == handle.stream
  <2>1. s \in Streams /\ stream[s] \in HostEnd
    BY <1>8 DEF HandleClear, TypeOK, HandleState
  <2>2. [Cleared(stream[s]) EXCEPT !.listed = FALSE] \in HostEnd
    BY <2>1, EmptySeq DEF Cleared, HostEnd
  <2>3. stream' \in [Streams -> HostEnd]
    BY <1>8, <2>1, <2>2, SetStreamType DEF HandleClear
  <2>4. handle' \in HandleState
    BY <1>8 DEF HandleClear, Reading, HandleState
  <2>5. writer' \in [Writers -> WriterState]
    BY <1>8, NotifyType DEF HandleClear, TypeOK
  <2> QED
    BY <1>8, <2>3, <2>4, <2>5 DEF HandleClear, TypeOK
<1>9. CASE HandleExit
  <2>1. handle' \in HandleState
    BY <1>9 DEF HandleExit, TypeOK, HandleState
  <2> QED
    BY <1>9, <2>1 DEF HandleExit, TypeOK
<1> QED
  BY <1>3, <1>4, <1>5, <1>6, <1>7, <1>8, <1>9 DEF Handle

LEMMA CloseType ==
  ASSUME TypeOK,
         \/ \E s \in Streams : Read(s) \/ CloseStream(s) \/ FinishCloseStream(s)
         \/ \E t \in Closers : CloseBegin(t)
         \/ FinishClose
  PROVE  TypeOK'
<1>0. <<>> \in Seq(Messages) /\ <<>> \in Seq(Nat)
  BY EmptySeq
<1>1. ASSUME NEW s \in Streams, Read(s) \/ CloseStream(s) \/ FinishCloseStream(s)
      PROVE  TypeOK'
  <2>0. stream[s] \in HostEnd
    BY DEF TypeOK
  <2>1. CASE Read(s)
    <3>1. stream[s].ring - 1 \in 0..RingSpace
      BY <2>0, <2>1, FlowAssumption DEF Read, HostEnd
    <3>2. [stream[s] EXCEPT !.ring = @ - 1] \in HostEnd
      BY <2>0, <3>1 DEF HostEnd
    <3>3. stream' \in [Streams -> HostEnd]
      BY <2>1, <3>2, SetStreamType DEF Read
    <3> QED
      BY <2>1, <3>3 DEF Read, TypeOK
  <2>2. CASE CloseStream(s)
    <3>1. [stream[s] EXCEPT !.listed = FALSE, !.closer = "mark"] \in HostEnd
      BY <2>0 DEF HostEnd
    <3>2. stream' \in [Streams -> HostEnd]
      BY <2>2, <3>1, SetStreamType DEF CloseStream
    <3>3. sendQueue' \in Seq(Messages)
      <4>1. Clse(s) \in Messages /\ sendQueue \in Seq(Messages)
        BY <1>0, MessageType DEF TypeOK
      <4> QED
        BY <2>2, <4>1, EnqueueType DEF CloseStream
    <3> QED
      BY <2>2, <3>2, <3>3 DEF CloseStream, TypeOK
  <2>3. CASE CloseStreamMark(s)
    <3>1. [stream[s] EXCEPT !.closed = TRUE, !.closer = "clear"] \in HostEnd
      BY <2>0 DEF HostEnd
    <3>2. stream' \in [Streams -> HostEnd]
      BY <2>3, <3>1, SetStreamType DEF CloseStreamMark
    <3> QED
      BY <2>3, <3>2 DEF CloseStreamMark, TypeOK
  <2>4. CASE CloseStreamClear(s)
    <3>1. [Cleared(stream[s]) EXCEPT !.closer = "done"] \in HostEnd
      BY <1>0, <2>0 DEF Cleared, HostEnd
    <3>2. stream' \in [Streams -> HostEnd]
      BY <2>4, <3>1, SetStreamType DEF CloseStreamClear
    <3>3. writer' \in [Writers -> WriterState]
      BY <2>4, NotifyType DEF CloseStreamClear, TypeOK
    <3> QED
      BY <2>4, <3>2, <3>3 DEF CloseStreamClear, TypeOK
  <2> QED
    BY <1>1, <2>1, <2>2, <2>3, <2>4 DEF FinishCloseStream
<1>2. ASSUME NEW t \in Closers, CloseBegin(t) PROVE TypeOK'
  <2>1. conn' \in ConnState
    BY <1>2 DEF CloseBegin, TypeOK, ConnState
  <2>2. handle' \in HandleState
    BY <1>2 DEF CloseBegin, TypeOK, HandleState
  <2> QED
    BY <1>0, <1>2, <2>1, <2>2 DEF CloseBegin, TypeOK
<1>3. CASE CloseJoinSend
  <2>1. conn' \in ConnState
    BY <1>3 DEF CloseJoinSend, TypeOK, ConnState
  <2> QED
    BY <1>0, <1>3, <2>1 DEF CloseJoinSend, TypeOK
<1>4. CASE CloseMark
  <2>1. conn' \in ConnState
    BY <1>4 DEF CloseMark, TypeOK, ConnState
  <2>2. stream' \in [Streams -> HostEnd]
    <3>1. \A t \in Streams : [stream[t] EXCEPT !.closed = TRUE] \in HostEnd
      BY DEF TypeOK, HostEnd
    <3> QED
      BY <1>4, <3>1 DEF CloseMark
  <2>3. writer' \in [Writers -> WriterState]
    BY <1>4, NotifyType DEF CloseMark, TypeOK
  <2> QED
    BY <1>4, <2>1, <2>2, <2>3 DEF CloseMark, TypeOK
<1>5. CASE CloseJoinHandle
  <2>1. conn' \in ConnState
    BY <1>5 DEF CloseJoinHandle, TypeOK, ConnState
  <2> QED
    BY <1>5, <2>1 DEF CloseJoinHandle, TypeOK
<1> QED
  BY <1>1, <1>2, <1>3, <1>4, <1>5 DEF FinishClose

\* A flush leaves the other fields.
LEMMA FlushedIs ==
  ASSUME NEW s \in Streams, NEW x \in HostEnd
  PROVE  /\ Flushed(s, x).lock = x.lock /\ Flushed(s, x).closed = x.closed
         /\ Flushed(s, x).closer = x.closer /\ Flushed(s, x).accepted = x.accepted
         /\ Flushed(s, x).moves = x.moves
<1> HIDE DEF Rest, Chunk
<1> QED
  BY DEF Flushed, HostEnd

\* A step of other threads, which take the pending bytes only with writeMutex.
LEMMA LockedKept ==
  ASSUME TypeOK, Locked, UNCHANGED writer \/ NotifyAll, use' = use,
         \A t \in Streams : /\ stream'[t].lock = stream[t].lock
                            /\ stream'[t].pending = stream[t].pending \/ stream[t].lock = NoOne
  PROVE  Locked'
<1> SUFFICES ASSUME NEW v \in Writers, writer'[v].at \in {"lock", "round", "append"}
             PROVE  /\ writer'[v].left > 0
                    /\ writer'[v].at \in {"round", "append"} => stream'[StreamOf[v]].lock = v
                    /\ writer'[v].at = "append" =>
                         Len(stream'[StreamOf[v]].pending) < MaxPending[use[StreamOf[v]]]
  BY DEF Locked
<1>1. writer'[v] = writer[v]
  <2>1. CASE NotifyAll
    <3>1. writer'[v] = IF writer[v].at = "asleep" THEN [writer[v] EXCEPT !.at = "check"]
                                                  ELSE writer[v]
      BY <2>1 DEF NotifyAll
    <3>2. writer[v] \in WriterState
      BY DEF TypeOK
    <3> QED
      BY <3>1, <3>2 DEF WriterState
  <2> QED
    BY <2>1
<1>2. StreamOf[v] \in Streams /\ v # NoOne
  BY FlowAssumption
<1> QED
  BY <1>1, <1>2 DEF Locked

\* A step of a writer that keeps its stream, or leaves streamWrite.
LEMMA LockedAt ==
  ASSUME TypeOK, Locked, NEW w \in Writers, NEW r, writer' = [writer EXCEPT ![w] = r], use' = use,
         NEW x, SetStream(StreamOf[w], x), stream[StreamOf[w]].lock \in {NoOne, w},
         r.at \in {"lock", "round", "append"} => r.left > 0,
         r.at \in {"round", "append"} => x.lock = w,
         r.at = "append" => Len(x.pending) < MaxPending[use[StreamOf[w]]]
  PROVE  Locked'
<1> SUFFICES ASSUME NEW v \in Writers
             PROVE  /\ writer'[v].at \in {"lock", "round", "append"} => writer'[v].left > 0
                    /\ writer'[v].at \in {"round", "append"} => stream'[StreamOf[v]].lock = v
                    /\ writer'[v].at = "append" =>
                         Len(stream'[StreamOf[v]].pending) < MaxPending[use[StreamOf[v]]]
  BY DEF Locked
<1>1. StreamOf[v] \in Streams /\ StreamOf[w] \in Streams /\ v # NoOne
  BY FlowAssumption
<1>2. \A t \in Streams : stream'[t] = IF t = StreamOf[w] THEN x ELSE stream[t]
  BY <1>1 DEF TypeOK, SetStream
<1>3. CASE v = w
  <2>1. writer'[v] = r
    BY <1>3 DEF TypeOK
  <2> QED
    BY <1>1, <1>2, <1>3, <2>1
<1>4. CASE v # w
  <2>1. writer'[v] = writer[v]
    BY <1>4 DEF TypeOK
  <2>2. /\ writer[v].at \in {"lock", "round", "append"} => writer[v].left > 0
        /\ writer[v].at \in {"round", "append"} => stream[StreamOf[v]].lock = v
        /\ writer[v].at = "append" => Len(stream[StreamOf[v]].pending) < MaxPending[use[StreamOf[v]]]
    BY DEF Locked
  <2>3. writer[v].at \in {"round", "append"} => StreamOf[v] # StreamOf[w]
    BY <1>1, <1>4, <2>2
  <2> QED
    BY <1>1, <1>2, <2>1, <2>2, <2>3
<1> QED
  BY <1>3, <1>4

\* A step of a writer outside a turn.
LEMMA LockedIdle ==
  ASSUME TypeOK, Locked, NEW w \in Writers, NEW r, writer' = [writer EXCEPT ![w] = r], use' = use,
         UNCHANGED stream, r.at \notin {"lock", "round", "append"}
  PROVE  Locked'
<1> SUFFICES ASSUME NEW v \in Writers
             PROVE  /\ writer'[v].at \in {"lock", "round", "append"} => writer'[v].left > 0
                    /\ writer'[v].at \in {"round", "append"} => stream'[StreamOf[v]].lock = v
                    /\ writer'[v].at = "append" =>
                         Len(stream'[StreamOf[v]].pending) < MaxPending[use[StreamOf[v]]]
  BY DEF Locked
<1>1. v = w => writer'[v] = r
  BY DEF TypeOK
<1>2. v # w => writer'[v] = writer[v]
  BY DEF TypeOK
<1> QED
  BY <1>1, <1>2 DEF Locked

\* Every step of a writer.
LEMMA LockedWrite ==
  ASSUME TypeOK, Locked, NEW w \in Writers, StartWrite(w) \/ StartRawWrite(w) \/ Write(w)
  PROVE  Locked'
<1> DEFINE s == StreamOf[w]
<1>0. /\ s \in Streams /\ stream[s] \in HostEnd /\ writer[w] \in WriterState
      /\ writer \in [Writers -> WriterState]
  BY FlowAssumption DEF TypeOK
<1>1. /\ writer[w].at \in {"lock", "round", "append"} => writer[w].left > 0
      /\ writer[w].at \in {"round", "append"} => stream[s].lock = w
  BY DEF Locked
<1> HIDE DEF s
<1>2. ASSUME NEW l, GoTo(w, l)
      PROVE  writer' = [writer EXCEPT ![w] = [at |-> l, left |-> writer[w].left]]
  <2>1. [writer[w] EXCEPT !.at = l] = [at |-> l, left |-> writer[w].left]
    BY <1>0 DEF WriterState
  <2>2. writer' = [writer EXCEPT ![w] = [writer[w] EXCEPT !.at = l]]
    BY <1>2 DEF GoTo
  <2> QED
    BY <2>1, <2>2
<1>3. CASE StartWrite(w)
  <2>1. PICK n \in 1..Call(s) : writer' = [writer EXCEPT ![w] = [at |-> "round", left |-> n]]
    BY <1>3 DEF StartWrite, s
  <2>2. n > 0
    BY <1>0, CallType
  <2>3. /\ SetStream(s, [stream[s] EXCEPT !.lock = w]) /\ stream[s].lock = NoOne /\ use' = use
        /\ [stream[s] EXCEPT !.lock = w].lock = w
    BY <1>0, <1>3 DEF StartWrite, s, HostEnd
  <2> DEFINE r == [at |-> "round", left |-> n]
             x == [stream[s] EXCEPT !.lock = w]
  <2>4. r.at = "round" /\ r.left = n
    OBVIOUS
  <2> HIDE DEF r, x
  <2> QED
    BY <2>1, <2>2, <2>3, <2>4, LockedAt DEF r, x, s
<1>4. CASE LockStream(w)
  <2>1. /\ SetStream(s, [stream[s] EXCEPT !.lock = w]) /\ stream[s].lock = NoOne /\ use' = use
        /\ [stream[s] EXCEPT !.lock = w].lock = w
    BY <1>0, <1>4 DEF LockStream, s, HostEnd
  <2> DEFINE r == [at |-> "round", left |-> writer[w].left]
             x == [stream[s] EXCEPT !.lock = w]
  <2>2. writer' = [writer EXCEPT ![w] = r] /\ r.at = "round" /\ r.left > 0
    BY <1>1, <1>2, <1>4 DEF LockStream
  <2> HIDE DEF r, x
  <2> QED
    BY <2>1, <2>2, LockedAt DEF x, s
<1>5. CASE CheckRound(w)
  <2> DEFINE r == [at |-> "append", left |-> writer[w].left]
             x == Flushed(s, stream[s])
  <2>1. /\ SetStream(s, x) /\ use' = use /\ Len(x.pending) < MaxPending[use[s]]
        /\ writer[w].at = "round"
    BY <1>5 DEF CheckRound, s
  <2>2. stream[s].lock = w /\ x.lock = w
    BY <1>0, <1>1, <2>1, FlushedIs
  <2>3. writer' = [writer EXCEPT ![w] = r] /\ r.at = "append" /\ r.left > 0
    BY <1>1, <1>2, <1>5, <2>1 DEF CheckRound
  <2> HIDE DEF r, x
  <2> QED
    BY <2>1, <2>2, <2>3, LockedAt DEF s
<1>6. CASE AppendRound(w)
  <2>1. PICK m, p, n, y : Appends(w, m, p, n, y)
    BY <1>6, AppendIs
  <2>2. use' = use /\ stream[s].lock = w
    BY <1>1, <1>6, AppendIs
  <2> DEFINE r == IF n = writer[w].left THEN Idle ELSE [at |-> "round", left |-> writer[w].left - n]
             x == Flushed(s, y)
  <2>3. SetStream(s, x) /\ y \in HostEnd /\ y.lock = (IF n = writer[w].left THEN NoOne ELSE w)
        /\ n \in Nat /\ writer[w].left - n \in Nat
        /\ writer' = [writer EXCEPT ![w] = IF n = @.left THEN Idle
                                           ELSE [at |-> "round", left |-> @.left - n]]
    BY <2>1 DEF Appends, s
  <2>4. x.lock = y.lock
    BY <1>0, <2>3, FlushedIs
  <2>5. writer' = [writer EXCEPT ![w] = r]
    BY <1>0, <2>3
  <2>6. /\ r.at \in {"idle", "round"}
        /\ r.at = "round" => r.left > 0 /\ x.lock = w
    <3>1. CASE n = writer[w].left
      BY <3>1 DEF Idle
    <3>2. CASE n # writer[w].left
      BY <1>0, <2>3, <2>4, <3>2 DEF WriterState
    <3> QED
      BY <3>1, <3>2
  <2> HIDE DEF r, x
  <2> QED
    BY <2>2, <2>3, <2>5, <2>6, LockedAt DEF s
<1>7. CASE FullRound(w)
  <2> DEFINE r == [at |-> "lock", left |-> writer[w].left]
             x == [Flushed(s, stream[s]) EXCEPT !.lock = NoOne]
  <2>1. SetStream(s, x) /\ use' = use /\ writer[w].at = "round"
    BY <1>7 DEF FullRound, LockWhileWaiting, s
  <2>2. writer' = [writer EXCEPT ![w] = r] /\ r.at = "lock" /\ r.left > 0
    BY <1>1, <1>2, <1>7, <2>1 DEF FullRound
  <2> HIDE DEF r, x
  <2> QED
    BY <1>1, <2>1, <2>2, LockedAt DEF s
<1>8. CASE ThrowRound(w)
  <2> DEFINE x == [stream[s] EXCEPT !.lock = NoOne]
  <2>1. SetStream(s, x) /\ use' = use /\ writer[w].at \in {"round", "append"}
        /\ writer' = [writer EXCEPT ![w] = Idle] /\ Idle.at = "idle"
    BY <1>8 DEF ThrowRound, Idle, s
  <2> HIDE DEF x
  <2> QED
    BY <1>1, <2>1, LockedAt DEF s
<1>9. CASE StartRawWrite(w)
  <2>1. PICK n \in 1..Call(s) : writer' = [writer EXCEPT ![w] = [at |-> "check", left |-> n]]
    BY <1>9 DEF StartRawWrite, s
  <2>2. [at |-> "check", left |-> n].at \notin {"lock", "round", "append"}
    OBVIOUS
  <2> QED
    BY <1>9, <2>1, <2>2, LockedIdle DEF StartRawWrite
<1>10. CASE RawCheck(w) \/ RawDoze(w) \/ RawRetry(w)
  <2>1. UNCHANGED <<stream, use>>
    BY <1>10 DEF RawCheck, RawDoze, RawRetry
  <2>2. writer' = [writer EXCEPT ![w] = Idle] \/ \E l \in {"raw", "doze", "asleep", "check"} : GoTo(w, l)
    BY <1>10 DEF RawCheck, RawDoze, RawRetry
  <2>3. CASE writer' = [writer EXCEPT ![w] = Idle]
    BY <2>1, <2>3, LockedIdle DEF Idle
  <2>4. ASSUME NEW l \in {"raw", "doze", "asleep", "check"}, GoTo(w, l) PROVE Locked'
    <3> DEFINE r == [at |-> l, left |-> writer[w].left]
    <3>1. writer' = [writer EXCEPT ![w] = r] /\ r.at \notin {"lock", "round", "append"}
      BY <1>2, <2>4
    <3> HIDE DEF r
    <3> QED
      BY <2>1, <3>1, LockedIdle
  <2> QED
    BY <2>2, <2>3, <2>4
<1>11. CASE RawSend(w)
  <2> DEFINE n == Smaller(ChunkLimit, writer[w].left)
             r == IF n = writer[w].left THEN Idle ELSE [at |-> "check", left |-> writer[w].left - n]
             x == [stream[s] EXCEPT !.canWrite = FALSE, !.accepted = @ + n]
  <2>1. SetStream(s, x) /\ use' = use /\ stream[s].lock = NoOne
    BY <1>11 DEF RawSend, CreditAfterWrte, s
  <2>2. writer' = [writer EXCEPT ![w] = IF n = @.left THEN Idle
                                        ELSE [at |-> "check", left |-> @.left - n]]
    BY <1>11 DEF RawSend
  <2> HIDE DEF n
  <2>3. writer' = [writer EXCEPT ![w] = r] /\ r.at \in {"idle", "check"}
    BY <1>0, <2>2 DEF Idle
  <2> HIDE DEF r, x
  <2> QED
    BY <2>1, <2>3, LockedAt DEF s
<1> QED
  BY <1>3, <1>4, <1>5, <1>6, <1>7, <1>8, <1>9, <1>10, <1>11 DEF Write

\* Every step.
LEMMA LockedStep ==
  ASSUME TypeOK, Locked, [Next]_vars
  PROVE  Locked'
<1>0. /\ stream \in [Streams -> HostEnd]
      /\ toHost \in Seq(Messages)
  BY DEF TypeOK
<1>1. ASSUME NEW s \in Streams, NEW x, SetStream(s, x), x.lock = stream[s].lock,
             x.pending = stream[s].pending \/ stream[s].lock = NoOne, use' = use,
             UNCHANGED writer \/ NotifyAll
      PROVE  Locked'
  <2>1. \A t \in Streams : stream'[t] = IF t = s THEN x ELSE stream[t]
    BY <1>0, <1>1 DEF SetStream
  <2> QED
    BY <1>1, <2>1, LockedKept
<1>9. ASSUME NEW s \in Streams, use' = use, UNCHANGED writer \/ NotifyAll,
             \/ SetStream(s, stream[s]) \/ SetStream(s, [stream[s] EXCEPT !.ring = @ + 1])
             \/ SetStream(s, [stream[s] EXCEPT !.ring = @ - 1])
             \/ SetStream(s, [stream[s] EXCEPT !.closed = TRUE])
             \/ SetStream(s, [stream[s] EXCEPT !.listed = FALSE, !.closer = "mark"])
             \/ SetStream(s, [stream[s] EXCEPT !.closed = TRUE, !.closer = "clear"])
             \/ MayClear(s) /\ SetStream(s, [Cleared(stream[s]) EXCEPT !.closer = "done"])
             \/ MayClear(s) /\ SetStream(s, [Cleared(stream[s]) EXCEPT !.listed = FALSE])
      PROVE  Locked'
  <2> DEFINE X == {stream[s], [stream[s] EXCEPT !.ring = @ + 1], [stream[s] EXCEPT !.ring = @ - 1],
                   [stream[s] EXCEPT !.closed = TRUE],
                   [stream[s] EXCEPT !.listed = FALSE, !.closer = "mark"],
                   [stream[s] EXCEPT !.closed = TRUE, !.closer = "clear"]}
             Y == {[Cleared(stream[s]) EXCEPT !.closer = "done"],
                   [Cleared(stream[s]) EXCEPT !.listed = FALSE]}
  <2>1. \A x \in X : x.lock = stream[s].lock /\ x.pending = stream[s].pending
    BY <1>0 DEF HostEnd
  <2>2. \A x \in Y : x.lock = stream[s].lock
    BY <1>0 DEF HostEnd, Cleared
  <2>3. (\E x \in X : SetStream(s, x)) \/ (stream[s].lock = NoOne /\ \E x \in Y : SetStream(s, x))
    BY <1>9 DEF MayClear
  <2> HIDE DEF X, Y
  <2> QED
    BY <1>1, <1>9, <2>1, <2>2, <2>3
<1>2. ASSUME UNCHANGED <<use, stream>>, UNCHANGED writer \/ NotifyAll PROVE Locked'
  BY <1>2, LockedKept
<1>3. CASE HandleOkay
  <2> DEFINE s == First.stream
             x == [stream[s] EXCEPT !.canWrite = TRUE]
  <2>1. s \in Streams
    <3>1. First \in Messages
      BY <1>0, <1>3, HeadTailProperties DEF HandleOkay, Reads, First
    <3> QED
      BY <3>1 DEF Messages
  <2>2. /\ SetStream(s, Flushed(s, x)) /\ stream[s].lock = NoOne /\ use' = use /\ NotifyAll
    BY <1>3 DEF HandleOkay
  <2> HIDE DEF s
  <2>3. x \in HostEnd /\ x.lock = stream[s].lock
    BY <1>0, <2>1 DEF HostEnd
  <2>4. Flushed(s, x).lock = stream[s].lock
    BY <2>1, <2>3, FlushedIs
  <2> HIDE DEF x
  <2> QED
    BY <1>1, <2>1, <2>2, <2>4
<1>4. CASE HandleStore \/ HandleClse \/ HandleClear
  <2>1. \E s \in Streams : SetStream(s, stream[s]) \/ SetStream(s, [stream[s] EXCEPT !.ring = @ + 1])
           \/ SetStream(s, [stream[s] EXCEPT !.closed = TRUE])
           \/ (MayClear(s) /\ SetStream(s, [Cleared(stream[s]) EXCEPT !.listed = FALSE]))
    <3>1. handle.at \in {"store", "clear"} => handle.stream \in Streams
      BY DEF TypeOK, HandleState
    <3>2. ASSUME HandleClse PROVE First.stream \in Streams
      <4>1. First \in Messages
        BY <1>0, <3>2, HeadTailProperties DEF HandleClse, Reads, First
      <4> QED
        BY <4>1 DEF Messages
    <3> QED
      BY <1>4, <3>1, <3>2 DEF HandleStore, HandleClse, HandleClear
  <2>2. PICK s \in Streams :
           SetStream(s, stream[s]) \/ SetStream(s, [stream[s] EXCEPT !.ring = @ + 1])
           \/ SetStream(s, [stream[s] EXCEPT !.closed = TRUE])
           \/ (MayClear(s) /\ SetStream(s, [Cleared(stream[s]) EXCEPT !.listed = FALSE]))
    BY <2>1
  <2>3. use' = use /\ (UNCHANGED writer \/ NotifyAll)
    BY <1>4 DEF HandleStore, HandleClse, HandleClear
  <2> QED
    BY <1>9, <2>2, <2>3
<1>5. ASSUME NEW s \in Streams, Read(s) \/ CloseStream(s) \/ FinishCloseStream(s) PROVE Locked'
  <2>1. use' = use /\ (UNCHANGED writer \/ NotifyAll)
    BY <1>5 DEF Read, CloseStream, FinishCloseStream, CloseStreamMark, CloseStreamClear
  <2>2. CASE Read(s)
    BY <1>1, <1>9, <2>1, <2>2 DEF Read
  <2>3. CASE CloseStream(s)
    BY <1>9, <2>1, <2>3 DEF CloseStream
  <2>4. CASE CloseStreamMark(s)
    BY <1>9, <2>1, <2>4 DEF CloseStreamMark
  <2>5. CASE CloseStreamClear(s)
    BY <1>9, <2>1, <2>5 DEF CloseStreamClear
  <2> QED
    BY <1>5, <2>2, <2>3, <2>4, <2>5 DEF FinishCloseStream
<1>6. CASE CloseMark
  <2>1. \A t \in Streams : stream'[t].lock = stream[t].lock /\ stream'[t].pending = stream[t].pending
    BY <1>0, <1>6 DEF CloseMark, HostEnd
  <2> QED
    BY <1>6, <2>1, LockedKept DEF CloseMark
<1>7. ASSUME NEW w \in Writers, StartWrite(w) \/ StartRawWrite(w) \/ Write(w) PROVE Locked'
  BY <1>7, LockedWrite
<1>8. CASE \/ UNCHANGED vars \/ Send \/ SendExit \/ HandleLate \/ HandleWrte \/ HandleExit
           \/ (\E t \in Closers : CloseBegin(t)) \/ CloseJoinSend \/ CloseJoinHandle
           \/ \E s \in Streams : Device(s)
  <2>1. UNCHANGED <<use, stream>> /\ (UNCHANGED writer \/ NotifyAll)
    BY <1>8 DEF vars, Send, SendExit, HandleLate, HandleWrte, HandleExit, CloseBegin, CloseJoinSend,
                CloseJoinHandle, Device, DeviceAcks, DeviceWrites, DeviceCloses, DeviceSends
  <2> QED
    BY <1>2, <2>1
<1> QED
  BY <1>3, <1>4, <1>5, <1>6, <1>7, <1>8 DEF Next, Handle, FinishClose

LEMMA InitLocked == Init => Locked
  BY DEF Init, Idle, Locked

LEMMA TypeStep == TypeOK /\ Locked /\ [Next]_vars => TypeOK'
<1> SUFFICES ASSUME TypeOK, Locked, [Next]_vars PROVE TypeOK'
  OBVIOUS
<1>1. ASSUME NEW w \in Writers, StartWrite(w) \/ StartRawWrite(w) \/ Write(w) PROVE TypeOK'
  BY <1>1, StreamWriteType, StreamWriteRawType DEF Write
<1>2. ASSUME NEW s \in Streams, Device(s) \/ Read(s) \/ CloseStream(s) \/ FinishCloseStream(s)
      PROVE  TypeOK'
  BY <1>2, DeviceType, CloseType
<1>3. CASE Send \/ SendExit \/ Handle
  BY <1>3, DeviceType, HandleType
<1>4. CASE (\E t \in Closers : CloseBegin(t)) \/ FinishClose
  BY <1>4, CloseType
<1>5. CASE UNCHANGED vars
  BY <1>5 DEF vars, TypeOK
<1> QED
  BY <1>1, <1>2, <1>3, <1>4, <1>5 DEF Next

\* So both hold throughout.
LEMMA AlwaysLocked == Spec => [](TypeOK /\ Locked)
<1>1. Init => TypeOK /\ Locked
  BY InitType, InitLocked
<1>2. TypeOK /\ Locked /\ [Next]_vars => (TypeOK /\ Locked)'
  BY TypeStep, LockedStep
<1> QED
  BY <1>1, <1>2, PTL DEF Spec

\* Every variable has its type in every reachable state; in particular the read buffers never
\* take a payload they have no room for.
THEOREM TypeCorrect == Spec => []TypeOK
  BY AlwaysLocked, PTL

-----------------------------------------------------------------------------
(* One WRTE outstanding.                                                   *)

\* The credit of a stream is with the host (H), in the send queue (at Q), with the device (D) or
\* on its way back (at K), and only once.
Exclusive(H, Q, D, K) ==
  /\ \A i, j \in Q : i = j
  /\ \A i, j \in K : i = j
  /\ H => ~D /\ Q = {} /\ K = {}
  /\ D => Q = {} /\ K = {}
  /\ Q = {} \/ K = {}

Queued(q, s) == At(q, "WRTE", s)
Acked(q, s) == At(q, "OKAY", s)

CreditOnce ==
  \A s \in Streams :
    Exclusive(stream[s].canWrite, Queued(sendQueue, s), device[s].owes, Acked(toHost, s))

LEMMA OnceIsOne == CreditOnce => OneOutstanding
<1> SUFFICES ASSUME CreditOnce, NEW s \in Streams, NEW c \in Credits(s), NEW d \in Credits(s)
             PROVE  c = d
  BY DEF OneOutstanding
<1>1. Exclusive(stream[s].canWrite, Queued(sendQueue, s), device[s].owes, Acked(toHost, s))
  BY DEF CreditOnce
<1>2. ASSUME NEW e \in Credits(s)
      PROVE  \/ e = <<"host", 0>> /\ stream[s].canWrite
             \/ \E i \in Queued(sendQueue, s) : e = <<"queue", i>>
             \/ e = <<"device", 0>> /\ device[s].owes
             \/ \E i \in Acked(toHost, s) : e = <<"okay", i>>
  BY <1>2 DEF Credits, Queued, Acked
<1> QED
  BY <1>1, <1>2 DEF Exclusive

\* What a queue's operations do to the places of a kind of message in it.
LEMMA AtAppend ==
  ASSUME NEW q \in Seq(Messages), NEW m \in Messages, NEW cmd, NEW s
  PROVE  At(Append(q, m), cmd, s) =
           At(q, cmd, s) \cup {i \in {Len(q) + 1} : m.cmd = cmd /\ m.stream = s}
<1>1. /\ Len(q) \in Nat /\ DOMAIN q = 1..Len(q)
      /\ DOMAIN Append(q, m) = 1..(Len(q) + 1)
      /\ \A i \in 1..Len(q) : Append(q, m)[i] = q[i]
      /\ Append(q, m)[Len(q) + 1] = m
  <2>1. Append(q, m) \in Seq(Messages) /\ Len(Append(q, m)) = Len(q) + 1
    BY AppendProperties
  <2> QED
    BY <2>1, AppendProperties, LenProperties
<1>2. 1..(Len(q) + 1) = 1..Len(q) \cup {Len(q) + 1}
  BY <1>1
<1> QED
  BY <1>1, <1>2 DEF At

LEMMA AtTail ==
  ASSUME NEW q \in Seq(Messages), q # <<>>, NEW cmd, NEW s
  PROVE  /\ \A i \in At(Tail(q), cmd, s) : i \in Nat \ {0} /\ i + 1 \in At(q, cmd, s)
         /\ Head(q).cmd = cmd /\ Head(q).stream = s => 1 \in At(q, cmd, s)
<1>1. /\ Len(q) \in Nat \ {0} /\ DOMAIN q = 1..Len(q) /\ Head(q) = q[1]
      /\ DOMAIN Tail(q) = 1..(Len(q) - 1)
      /\ \A i \in 1..(Len(q) - 1) : Tail(q)[i] = q[i + 1]
  <2>1. Len(q) \in Nat \ {0} /\ DOMAIN q = 1..Len(q)
    BY EmptySeq, LenProperties
  <2>2. Tail(q) \in Seq(Messages) /\ Len(Tail(q)) = Len(q) - 1
    BY HeadTailProperties
  <2> QED
    BY <2>1, <2>2, HeadTailProperties, LenProperties
<1>2. \A i \in 1..(Len(q) - 1) : i \in Nat \ {0} /\ i + 1 \in 1..Len(q)
  BY <1>1
<1>3. 1 \in 1..Len(q)
  BY <1>1
<1> QED
  BY <1>1, <1>2, <1>3 DEF At

LEMMA AtEmpty == \A cmd, s : At(<<>>, cmd, s) = {}
  BY DEF At

\* Hence the tail of a queue is as exclusive as the queue.
LEMMA SingleTail ==
  ASSUME NEW q \in Seq(Messages), q # <<>>, NEW cmd, NEW s,
         \A i, j \in At(q, cmd, s) : i = j
  PROVE  /\ \A i, j \in At(Tail(q), cmd, s) : i = j
         /\ At(q, cmd, s) = {} => At(Tail(q), cmd, s) = {}
         /\ Head(q).cmd = cmd /\ Head(q).stream = s => At(Tail(q), cmd, s) = {}
<1>1. /\ \A i \in At(Tail(q), cmd, s) : i \in Nat \ {0} /\ i + 1 \in At(q, cmd, s)
      /\ Head(q).cmd = cmd /\ Head(q).stream = s => 1 \in At(q, cmd, s)
  BY AtTail
<1>2. \A i, j \in At(Tail(q), cmd, s) : i = j
  <2> TAKE i, j \in At(Tail(q), cmd, s)
  <2>1. i \in Nat /\ j \in Nat /\ i + 1 = j + 1
    BY <1>1
  <2> QED
    BY <2>1
<1>3. Head(q).cmd = cmd /\ Head(q).stream = s => At(Tail(q), cmd, s) = {}
  <2> SUFFICES ASSUME Head(q).cmd = cmd, Head(q).stream = s, NEW i \in At(Tail(q), cmd, s)
               PROVE  FALSE
    OBVIOUS
  <2>1. i \in Nat \ {0} /\ i + 1 = 1
    BY <1>1
  <2> QED
    BY <2>1
<1> QED
  BY <1>1, <1>2, <1>3

LEMMA AckedAppend ==
  ASSUME NEW q \in Seq(Messages), NEW m \in Messages, m.cmd # "OKAY", NEW s
  PROVE  Acked(Append(q, m), s) = Acked(q, s)
<1>1. Acked(Append(q, m), s) = Acked(q, s) \cup {i \in {Len(q) + 1} : m.cmd = "OKAY" /\ m.stream = s}
  BY AtAppend DEF Acked
<1> QED
  BY <1>1

LEMMA EnqueueAt ==
  ASSUME NEW q \in Seq(Messages), NEW m \in Messages, NEW s
  PROVE  /\ Enqueue(q, m) \in Seq(Messages)
         /\ m.cmd # "WRTE" \/ m.stream # s => Queued(Enqueue(q, m), s) = Queued(q, s)
         /\ Queued(q, s) = {} => \A i, j \in Queued(Enqueue(q, m), s) : i = j
<1>1. Enqueue(q, m) \in Seq(Messages) /\ Enqueue(q, m) \in {q, Append(q, m)}
  BY EnqueueType
<1>2. Queued(Append(q, m), s) =
        Queued(q, s) \cup {i \in {Len(q) + 1} : m.cmd = "WRTE" /\ m.stream = s}
  BY AtAppend DEF Queued
<1>3. m.cmd # "WRTE" \/ m.stream # s => Queued(Append(q, m), s) = Queued(q, s)
  BY <1>2
<1>4. Queued(q, s) = {} => \A i, j \in Queued(Append(q, m), s) : i = j
  BY <1>2
<1>5. Queued(q, s) = {} => \A i, j \in Queued(q, s) : i = j
  OBVIOUS
<1> QED
  BY <1>1, <1>3, <1>4, <1>5

\* Flushing moves the credit from the host to the queue, or leaves it.
LEMMA FlushKeeps ==
  ASSUME NEW s \in Streams, NEW x \in HostEnd, NEW q \in Seq(Messages), NEW D \in BOOLEAN, NEW K
  PROVE  /\ Exclusive(x.canWrite, Queued(q, s), D, K) =>
              Exclusive(Flushed(s, x).canWrite, Queued(FlushedQueue(s, x, q), s), D, K)
         /\ \A t \in Streams : t # s => Queued(FlushedQueue(s, x, q), t) = Queued(q, t)
<1> DEFINE m == Wrte(s, SubSeq(x.pending, 1, Chunk(x)))
<1>1. m \in Messages /\ m.cmd = "WRTE" /\ m.stream = s
  <2>1. SubSeq(x.pending, 1, Chunk(x)) \in Seq(Nat)
    BY ChunkType, RestType DEF HostEnd
  <2> QED
    BY <2>1, MessageType DEF Wrte
<1>2. CASE CanFlush(s, x)
  <2>1. x.canWrite /\ Flushed(s, x).canWrite = FALSE /\ FlushedQueue(s, x, q) = Enqueue(q, m)
    <3>1. Flushed(s, x) = [x EXCEPT !.canWrite = FALSE, !.pending = Rest(@, Chunk(x))]
      BY <1>2 DEF Flushed, CreditAfterWrte
    <3>2. Flushed(s, x).canWrite = FALSE
      BY <3>1 DEF HostEnd
    <3> QED
      BY <1>2, <3>2 DEF CanFlush, FlushedQueue
  <2> HIDE DEF m
  <2> QED
    BY <1>1, <2>1, EnqueueAt DEF Exclusive
<1>3. CASE ~CanFlush(s, x)
  BY <1>3 DEF Flushed, FlushedQueue
<1> QED
  BY <1>2, <1>3

\* A step that touches none of the four places of any credit.
LEMMA CreditUnchanged ==
  ASSUME CreditOnce,
         \A s \in Streams : /\ stream'[s].canWrite = stream[s].canWrite
                            /\ Queued(sendQueue', s) = Queued(sendQueue, s)
                            /\ device'[s].owes = device[s].owes
                            /\ Acked(toHost', s) = Acked(toHost, s)
  PROVE  CreditOnce'
  BY DEF CreditOnce, Queued, Acked, At

LEMMA SetStreamCredit ==
  ASSUME TypeOK, NEW s \in Streams, NEW x, SetStream(s, x)
  PROVE  \A t \in Streams : stream'[t].canWrite = IF t = s THEN x.canWrite ELSE stream[t].canWrite
  BY DEF TypeOK, SetStream

LEMMA WriteCredit ==
  ASSUME TypeOK, Locked, CreditOnce, NEW w \in Writers, StartWrite(w) \/ StartRawWrite(w) \/ Write(w)
  PROVE  CreditOnce'
<1> DEFINE s == StreamOf[w]
<1>0. s \in Streams /\ stream[s] \in HostEnd /\ writer[w] \in WriterState
      /\ sendQueue \in Seq(Messages) /\ device[s].owes \in BOOLEAN
  BY FlowAssumption DEF TypeOK, DeviceEnd
<1>1. Exclusive(stream[s].canWrite, Queued(sendQueue, s), device[s].owes, Acked(toHost, s))
  BY <1>0 DEF CreditOnce
<1> HIDE DEF s
<1>2. ASSUME NEW x, SetStream(s, x), x.canWrite = stream[s].canWrite,
             UNCHANGED <<sendQueue, device, toHost>>
      PROVE  CreditOnce'
  BY <1>0, <1>2, CreditUnchanged, SetStreamCredit
<1>3. ASSUME UNCHANGED <<stream, sendQueue, device, toHost>> PROVE CreditOnce'
  BY <1>3, CreditUnchanged
<1>4. ASSUME NEW x, NEW q, SetStream(s, x), sendQueue' = q,
             Exclusive(x.canWrite, Queued(q, s), device[s].owes, Acked(toHost, s)),
             \A t \in Streams : t # s => Queued(q, t) = Queued(sendQueue, t),
             UNCHANGED <<device, toHost>>
      PROVE  CreditOnce'
  <2> SUFFICES ASSUME NEW t \in Streams
               PROVE  Exclusive(stream'[t].canWrite, Queued(sendQueue', t), device'[t].owes,
                                Acked(toHost', t))
    BY DEF CreditOnce, Queued, Acked, At
  <2> QED
    BY <1>0, <1>4, SetStreamCredit DEF CreditOnce
<1>5. CASE StartWrite(w)
  BY <1>0, <1>2, <1>5 DEF StartWrite, HostEnd, s
<1>6. CASE LockStream(w)
  BY <1>0, <1>2, <1>6 DEF LockStream, HostEnd, s
<1>7. CASE ThrowRound(w)
  BY <1>0, <1>2, <1>7 DEF ThrowRound, HostEnd, s
<1>8. CASE StartRawWrite(w) \/ RawCheck(w) \/ RawDoze(w) \/ RawRetry(w)
  BY <1>3, <1>8 DEF StartRawWrite, RawCheck, RawDoze, RawRetry
<1>9. CASE AppendRound(w)
  <2>1. UNCHANGED <<device, toHost>>
    BY <1>9, AppendIs
  <2>2. PICK m, p, n, x : Appends(w, m, p, n, x)
    BY <1>9, AppendIs
  <2> DEFINE q == FlushedQueue(s, x, sendQueue)
  <2>3. /\ x \in HostEnd /\ x.canWrite = stream[s].canWrite
        /\ SetStream(s, Flushed(s, x)) /\ sendQueue' = q
    BY <2>2 DEF Appends, s
  <2>4. /\ Exclusive(Flushed(s, x).canWrite, Queued(q, s), device[s].owes, Acked(toHost, s))
        /\ \A t \in Streams : t # s => Queued(q, t) = Queued(sendQueue, t)
    BY <1>0, <1>1, <2>3, FlushKeeps
  <2> QED
    BY <1>4, <2>1, <2>3, <2>4
<1>12. CASE CheckRound(w)
  <2> DEFINE x == Flushed(s, stream[s])
             q == FlushedQueue(s, stream[s], sendQueue)
  <2>1. SetStream(s, x) /\ sendQueue' = q /\ UNCHANGED <<device, toHost>>
    BY <1>12 DEF CheckRound, s
  <2>2. /\ Exclusive(x.canWrite, Queued(q, s), device[s].owes, Acked(toHost, s))
        /\ \A t \in Streams : t # s => Queued(q, t) = Queued(sendQueue, t)
    BY <1>0, <1>1, FlushKeeps
  <2> QED
    BY <1>4, <2>1, <2>2
<1>10. CASE FullRound(w)
  <2> DEFINE x == Flushed(s, stream[s])
             q == FlushedQueue(s, stream[s], sendQueue)
  <2>1. /\ SetStream(s, [x EXCEPT !.lock = NoOne]) /\ sendQueue' = q
        /\ UNCHANGED <<device, toHost>>
    BY <1>10 DEF FullRound, LockWhileWaiting, s
  <2>2. x \in HostEnd
    BY <1>0, FlushedType
  <2>3. /\ Exclusive(x.canWrite, Queued(q, s), device[s].owes, Acked(toHost, s))
        /\ \A t \in Streams : t # s => Queued(q, t) = Queued(sendQueue, t)
    BY <1>0, <1>1, FlushKeeps
  <2> HIDE DEF x, q
  <2>4. [x EXCEPT !.lock = NoOne].canWrite = x.canWrite
    BY <2>2 DEF HostEnd
  <2> QED
    BY <1>4, <2>1, <2>3, <2>4
<1>11. CASE RawSend(w)
  <2> DEFINE n == Smaller(ChunkLimit, writer[w].left)
             m == Wrte(s, Bytes(stream[s].accepted, n))
             x == [stream[s] EXCEPT !.canWrite = FALSE, !.accepted = @ + n]
  <2>1. /\ SetStream(s, x) /\ sendQueue' = Enqueue(sendQueue, m)
        /\ UNCHANGED <<device, toHost>> /\ stream[s].canWrite
    BY <1>11 DEF RawSend, CreditAfterWrte, s
  <2>2. n \in Nat
    BY <1>0, FlowAssumption DEF Smaller, WriterState
  <2> HIDE DEF n
  <2>3. m \in Messages /\ m.cmd = "WRTE" /\ m.stream = s
    <3>1. Bytes(stream[s].accepted, n) \in Seq(Nat)
      BY <1>0, <2>2, BytesType DEF HostEnd
    <3> QED
      BY <1>0, <3>1, MessageType DEF Wrte
  <2>4. x.canWrite = FALSE
    BY <1>0 DEF HostEnd
  <2> HIDE DEF m, x
  <2>5. Exclusive(x.canWrite, Queued(Enqueue(sendQueue, m), s), device[s].owes, Acked(toHost, s))
    BY <1>0, <1>1, <2>1, <2>3, <2>4, EnqueueAt DEF Exclusive
  <2>6. \A t \in Streams : t # s => Queued(Enqueue(sendQueue, m), t) = Queued(sendQueue, t)
    BY <1>0, <2>3, EnqueueAt
  <2> QED
    BY <1>4, <2>1, <2>5, <2>6
<1> QED
  BY <1>5, <1>6, <1>7, <1>8, <1>9, <1>10, <1>11, <1>12 DEF Write

LEMMA DeviceCredit ==
  ASSUME TypeOK, CreditOnce, Send \/ SendExit \/ \E s \in Streams : Device(s)
  PROVE  CreditOnce'
<1>0. /\ sendQueue \in Seq(Messages) /\ toHost \in Seq(Messages)
      /\ device \in [Streams -> DeviceEnd]
  BY DEF TypeOK
<1>1. \A t \in Streams :
        Exclusive(stream[t].canWrite, Queued(sendQueue, t), device[t].owes, Acked(toHost, t))
  BY DEF CreditOnce
<1>2. CASE Send
  <2> DEFINE m == Head(sendQueue)
             s == m.stream
             d == [open |-> m.cmd # "CLSE", owes |-> device[s].owes \/ m.cmd = "WRTE",
                   credit |-> device[s].credit \/ m.cmd = "OKAY",
                   wrote |-> device[s].wrote, received |-> device[s].received \o m.data]
  <2>1. /\ sendQueue # <<>> /\ sendQueue' = Tail(sendQueue) /\ UNCHANGED stream
        /\ \/ UNCHANGED <<device, toHost>>
           \/ device' = [device EXCEPT ![s] = d] /\ m.cmd = "CLSE" /\ toHost' = Append(toHost, m)
           \/ device' = [device EXCEPT ![s] = d] /\ toHost' = toHost
    BY <1>2 DEF Send
  <2>2. m \in Messages /\ s \in Streams
    BY <1>0, <2>1, HeadTailType DEF Messages
  <2> SUFFICES ASSUME NEW t \in Streams
               PROVE  Exclusive(stream[t].canWrite, Queued(Tail(sendQueue), t), device'[t].owes,
                                Acked(toHost', t))
    BY <2>1 DEF CreditOnce, Queued, Acked, At
  <2>3. Acked(toHost', t) = Acked(toHost, t)
    <3>1. m.cmd = "CLSE" => Acked(Append(toHost, m), t) = Acked(toHost, t)
      <4> HIDE DEF m
      <4> QED
        BY <1>0, <2>2, AckedAppend
    <3> HIDE DEF m, d
    <3> QED
      BY <2>1, <3>1
  <2>4. /\ \A i, j \in Queued(Tail(sendQueue), t) : i = j
        /\ Queued(sendQueue, t) = {} => Queued(Tail(sendQueue), t) = {}
        /\ m.cmd = "WRTE" /\ s = t => /\ Queued(Tail(sendQueue), t) = {}
                                      /\ 1 \in Queued(sendQueue, t)
    BY <1>0, <1>1, <2>1, SingleTail, AtTail DEF Queued, Exclusive
  <2>5. device'[t].owes = device[t].owes \/ (m.cmd = "WRTE" /\ s = t /\ device'[t].owes)
    <3>1. d.owes = (device[s].owes \/ m.cmd = "WRTE")
      OBVIOUS
    <3>2. device[t].owes \in BOOLEAN
      BY <1>0 DEF DeviceEnd
    <3> HIDE DEF m, d
    <3> QED
      BY <1>0, <2>1, <2>2, <3>1, <3>2
  <2> HIDE DEF m, d
  <2> QED
    BY <1>1, <2>3, <2>4, <2>5 DEF Exclusive
<1>3. CASE SendExit
  BY <1>3, CreditUnchanged DEF SendExit
<1>4. ASSUME NEW s \in Streams, NEW m \in Messages, NEW d, DeviceSends(s, m, d),
             d.owes = device[s].owes, m.cmd # "OKAY"
      PROVE  CreditOnce'
  <2>1. \A t \in Streams : Acked(toHost', t) = Acked(toHost, t)
    BY <1>0, <1>4, AckedAppend DEF DeviceSends
  <2>2. \A t \in Streams : device'[t].owes = device[t].owes
    BY <1>0, <1>4 DEF DeviceSends
  <2> QED
    BY <1>4, <2>1, <2>2, CreditUnchanged DEF DeviceSends
<1>5. ASSUME NEW s \in Streams, DeviceAcks(s) PROVE CreditOnce'
  <2>1. /\ device[s].owes /\ device' = [device EXCEPT ![s] = [device[s] EXCEPT !.owes = FALSE]]
        /\ toHost' = Append(toHost, Okay(s)) /\ UNCHANGED <<stream, sendQueue>>
    BY <1>5 DEF DeviceAcks, DeviceSends
  <2>2. Okay(s) \in Messages /\ Okay(s).cmd = "OKAY" /\ Okay(s).stream = s
    BY MessageType, EmptySeq DEF Okay
  <2> SUFFICES ASSUME NEW t \in Streams
               PROVE  Exclusive(stream[t].canWrite, Queued(sendQueue, t), device'[t].owes,
                                Acked(Append(toHost, Okay(s)), t))
    BY <2>1 DEF CreditOnce, Queued, Acked, At
  <2>3. Acked(Append(toHost, Okay(s)), t) = Acked(toHost, t) \cup {i \in {Len(toHost) + 1} : s = t}
    BY <1>0, <2>2, AtAppend DEF Acked
  <2>4. CASE t = s
    <3>1. device'[t].owes = FALSE
      BY <1>0, <2>1, <2>4 DEF DeviceEnd
    <3>2. Acked(toHost, t) = {} /\ Queued(sendQueue, t) = {} /\ ~stream[t].canWrite
      BY <1>1, <2>1, <2>4 DEF Exclusive
    <3>3. Acked(Append(toHost, Okay(s)), t) = {Len(toHost) + 1}
      BY <2>3, <2>4, <3>2
    <3> QED
      BY <3>1, <3>2, <3>3 DEF Exclusive
  <2>5. CASE t # s
    <3>1. Acked(Append(toHost, Okay(s)), t) = Acked(toHost, t)
      BY <2>3, <2>5
    <3> QED
      BY <1>0, <1>1, <2>1, <2>5, <3>1
  <2> QED
    BY <2>4, <2>5
<1>6. ASSUME NEW s \in Streams, DeviceWrites(s) \/ DeviceCloses(s) PROVE CreditOnce'
  <2>1. device[s] \in DeviceEnd
    BY <1>0
  <2>2. Wrte(s, <<>>) \in Messages /\ Clse(s) \in Messages
          /\ Wrte(s, <<>>).cmd # "OKAY" /\ Clse(s).cmd # "OKAY"
    BY MessageType, EmptySeq DEF Wrte, Clse
  <2>3. /\ [device[s] EXCEPT !.credit = FALSE, !.wrote = @ + 1].owes = device[s].owes
        /\ [device[s] EXCEPT !.open = FALSE].owes = device[s].owes
    BY <2>1 DEF DeviceEnd
  <2> QED
    BY <1>4, <1>6, <2>2, <2>3 DEF DeviceWrites, DeviceCloses
<1> QED
  BY <1>2, <1>3, <1>5, <1>6 DEF Device

LEMMA HandleCredit ==
  ASSUME TypeOK, CreditOnce, Handle
  PROVE  CreditOnce'
<1>0. /\ sendQueue \in Seq(Messages) /\ toHost \in Seq(Messages)
      /\ stream \in [Streams -> HostEnd] /\ device \in [Streams -> DeviceEnd]
  BY DEF TypeOK
<1>1. \A t \in Streams :
        Exclusive(stream[t].canWrite, Queued(sendQueue, t), device[t].owes, Acked(toHost, t))
  BY DEF CreditOnce
\* Reading a message from the channel takes an acknowledgement at most.
<1>2. ASSUME NEW cmds, Reads(cmds)
      PROVE  /\ First \in Messages /\ First.stream \in Streams
             /\ \A t \in Streams :
                  /\ \A i, j \in Acked(toHost', t) : i = j
                  /\ Acked(toHost, t) = {} => Acked(toHost', t) = {}
                  /\ First.cmd = "OKAY" /\ First.stream = t =>
                       Acked(toHost', t) = {} /\ 1 \in Acked(toHost, t)
  <2>1. toHost # <<>> /\ toHost' = Tail(toHost)
    BY <1>2 DEF Reads
  <2>2. First \in Messages /\ First.stream \in Streams
    BY <1>0, <2>1, HeadTailType DEF First, Messages
  <2> QED
    BY <1>0, <1>1, <2>1, <2>2, SingleTail, AtTail DEF First, Acked, Exclusive
<1>3. ASSUME NEW cmds, Reads(cmds), UNCHANGED <<sendQueue, device>>,
             \A t \in Streams : stream'[t].canWrite = stream[t].canWrite
      PROVE  CreditOnce'
  <2> SUFFICES ASSUME NEW t \in Streams
               PROVE  Exclusive(stream'[t].canWrite, Queued(sendQueue, t), device[t].owes,
                                Acked(toHost', t))
    BY <1>3 DEF CreditOnce, Queued, Acked, At
  <2> QED
    BY <1>1, <1>2, <1>3 DEF Exclusive
<1>4. CASE HandleLate \/ HandleWrte
  BY <1>3, <1>4 DEF HandleLate, HandleWrte
<1>5. CASE HandleOkay
  <2> DEFINE s == First.stream
             x == [stream[s] EXCEPT !.canWrite = TRUE]
  <2>1. /\ Reads({"OKAY"}) /\ SetStream(s, Flushed(s, x))
        /\ sendQueue' = FlushedQueue(s, x, sendQueue) /\ UNCHANGED device
    BY <1>5 DEF HandleOkay
  <2>2. First.cmd = "OKAY" /\ s \in Streams /\ stream[s] \in HostEnd /\ device[s].owes \in BOOLEAN
    BY <1>0, <1>2, <2>1 DEF Reads, DeviceEnd
  <2>3. x \in HostEnd /\ x.canWrite = TRUE
    BY <2>2 DEF HostEnd
  <2>4. 1 \in Acked(toHost, s) /\ Acked(toHost', s) = {}
    BY <1>2, <2>1, <2>2
  <2> HIDE DEF s, x
  <2>5. Exclusive(x.canWrite, Queued(sendQueue, s), device[s].owes, Acked(toHost', s))
    BY <1>1, <2>2, <2>3, <2>4 DEF Exclusive
  <2>6. /\ Exclusive(Flushed(s, x).canWrite, Queued(sendQueue', s), device[s].owes, Acked(toHost', s))
        /\ \A t \in Streams : t # s => Queued(sendQueue', t) = Queued(sendQueue, t)
    BY <1>0, <2>1, <2>2, <2>3, <2>5, FlushKeeps
  <2> SUFFICES ASSUME NEW t \in Streams
               PROVE  Exclusive(stream'[t].canWrite, Queued(sendQueue', t), device[t].owes,
                                Acked(toHost', t))
    BY <2>1 DEF CreditOnce, Queued, Acked, At
  <2>7. stream'[t].canWrite = IF t = s THEN Flushed(s, x).canWrite ELSE stream[t].canWrite
    BY <2>1, <2>2, SetStreamCredit
  <2>8. CASE t = s
    BY <2>6, <2>7, <2>8
  <2>9. CASE t # s
    BY <1>1, <1>2, <2>1, <2>6, <2>7, <2>9 DEF Exclusive
  <2> QED
    BY <2>8, <2>9
<1>6. CASE HandleStore
  <2> DEFINE s == handle.stream
  <2>1. s \in Streams /\ stream[s] \in HostEnd
    BY <1>6 DEF HandleStore, TypeOK, HandleState
  <2>2. \A t \in Streams : stream'[t].canWrite = stream[t].canWrite
    <3>1. PICK x \in {stream[s], [stream[s] EXCEPT !.ring = @ + 1]} : SetStream(s, x)
      BY <1>6 DEF HandleStore
    <3>2. x.canWrite = stream[s].canWrite
      BY <2>1, <3>1 DEF HostEnd
    <3> QED
      BY <2>1, <3>1, <3>2, SetStreamCredit
  <2>3. \A t \in Streams : Queued(sendQueue', t) = Queued(sendQueue, t)
    <3>1. Okay(s) \in Messages /\ Okay(s).cmd # "WRTE"
      BY <2>1, MessageType, EmptySeq DEF Okay
    <3> QED
      BY <1>0, <1>6, <3>1, EnqueueAt DEF HandleStore
  <2> QED
    BY <1>6, <2>2, <2>3, CreditUnchanged DEF HandleStore
<1>7. CASE HandleClse
  <2>1. \A t \in Streams : stream'[t].canWrite = stream[t].canWrite
    <3>1. First.stream \in Streams /\ SetStream(First.stream, [stream[First.stream] EXCEPT !.closed = TRUE])
      BY <1>2, <1>7 DEF HandleClse
    <3> HIDE DEF First
    <3>2. [stream[First.stream] EXCEPT !.closed = TRUE].canWrite = stream[First.stream].canWrite
      BY <1>0, <3>1 DEF HostEnd
    <3> QED
      BY <3>1, <3>2, SetStreamCredit
  <2> QED
    BY <1>3, <1>7, <2>1 DEF HandleClse
<1>8. CASE HandleClear
  <2> DEFINE s == handle.stream
  <2>1. s \in Streams /\ stream[s] \in HostEnd
    BY <1>8 DEF HandleClear, TypeOK, HandleState
  <2>2. [Cleared(stream[s]) EXCEPT !.listed = FALSE].canWrite = stream[s].canWrite
    BY <2>1 DEF Cleared, HostEnd
  <2>3. \A t \in Streams : stream'[t].canWrite = stream[t].canWrite
    BY <1>8, <2>1, <2>2, SetStreamCredit DEF HandleClear
  <2> QED
    BY <1>8, <2>3, CreditUnchanged DEF HandleClear
<1>9. CASE HandleExit
  BY <1>9, CreditUnchanged DEF HandleExit
<1> QED
  BY <1>4, <1>5, <1>6, <1>7, <1>8, <1>9 DEF Handle

LEMMA CloseCredit ==
  ASSUME TypeOK, CreditOnce,
         \/ \E s \in Streams : Read(s) \/ CloseStream(s) \/ FinishCloseStream(s)
         \/ \E t \in Closers : CloseBegin(t)
         \/ FinishClose
  PROVE  CreditOnce'
<1>0. sendQueue \in Seq(Messages) /\ stream \in [Streams -> HostEnd]
  BY DEF TypeOK
<1>1. \A t \in Streams :
        Exclusive(stream[t].canWrite, Queued(sendQueue, t), device[t].owes, Acked(toHost, t))
  BY DEF CreditOnce
<1>2. ASSUME NEW s \in Streams, NEW x, SetStream(s, x), x.canWrite = stream[s].canWrite
      PROVE  \A t \in Streams : stream'[t].canWrite = stream[t].canWrite
  BY <1>2, SetStreamCredit
<1>3. ASSUME NEW s \in Streams, Read(s) \/ CloseStream(s) \/ FinishCloseStream(s)
      PROVE  CreditOnce'
  <2>0. stream[s] \in HostEnd
    BY <1>0
  <2>1. /\ [stream[s] EXCEPT !.ring = @ - 1].canWrite = stream[s].canWrite
        /\ [stream[s] EXCEPT !.listed = FALSE, !.closer = "mark"].canWrite = stream[s].canWrite
        /\ [stream[s] EXCEPT !.closed = TRUE, !.closer = "clear"].canWrite = stream[s].canWrite
        /\ [Cleared(stream[s]) EXCEPT !.closer = "done"].canWrite = stream[s].canWrite
    BY <2>0 DEF Cleared, HostEnd
  <2>2. \A t \in Streams : stream'[t].canWrite = stream[t].canWrite
    BY <1>2, <1>3, <2>1
    DEF Read, CloseStream, FinishCloseStream, CloseStreamMark, CloseStreamClear
  <2>3. \A t \in Streams : Queued(sendQueue', t) = Queued(sendQueue, t)
    <3>1. Clse(s) \in Messages /\ Clse(s).cmd # "WRTE"
      BY MessageType, EmptySeq DEF Clse
    <3>2. sendQueue' = sendQueue \/ sendQueue' = Enqueue(sendQueue, Clse(s))
      BY <1>3 DEF Read, CloseStream, FinishCloseStream, CloseStreamMark, CloseStreamClear
    <3> QED
      BY <1>0, <3>1, <3>2, EnqueueAt
  <2>4. UNCHANGED <<device, toHost>>
    BY <1>3 DEF Read, CloseStream, FinishCloseStream, CloseStreamMark, CloseStreamClear
  <2> QED
    BY <2>2, <2>3, <2>4, CreditUnchanged
<1>4. ASSUME NEW t \in Closers, CloseBegin(t) PROVE CreditOnce'
  <2>1. \A s \in Streams : Acked(toHost', s) = {}
    BY <1>4, AtEmpty DEF CloseBegin, Acked
  <2>2. UNCHANGED <<stream, sendQueue, device>>
    BY <1>4 DEF CloseBegin
  <2> SUFFICES ASSUME NEW s \in Streams
               PROVE  Exclusive(stream[s].canWrite, Queued(sendQueue, s), device[s].owes,
                                Acked(toHost', s))
    BY <2>2 DEF CreditOnce, Queued, Acked, At
  <2> QED
    BY <1>1, <2>1 DEF Exclusive
<1>5. CASE CloseJoinSend
  <2>1. \A s \in Streams : Queued(sendQueue', s) = {}
    BY <1>5, AtEmpty DEF CloseJoinSend, Queued
  <2>2. UNCHANGED <<stream, device, toHost>>
    BY <1>5 DEF CloseJoinSend
  <2> SUFFICES ASSUME NEW s \in Streams
               PROVE  Exclusive(stream[s].canWrite, Queued(sendQueue', s), device[s].owes,
                                Acked(toHost, s))
    BY <2>2 DEF CreditOnce, Queued, Acked, At
  <2> QED
    BY <1>1, <2>1 DEF Exclusive
<1>6. CASE CloseMark
  <2>1. \A s \in Streams : stream'[s].canWrite = stream[s].canWrite
    BY <1>0, <1>6 DEF CloseMark, HostEnd
  <2> QED
    BY <1>6, <2>1, CreditUnchanged DEF CloseMark
<1>7. CASE CloseJoinHandle
  BY <1>7, CreditUnchanged DEF CloseJoinHandle
<1> QED
  BY <1>3, <1>4, <1>5, <1>6, <1>7 DEF FinishClose

LEMMA CreditStep == TypeOK /\ Locked /\ CreditOnce /\ [Next]_vars => CreditOnce'
<1> SUFFICES ASSUME TypeOK, Locked, CreditOnce, [Next]_vars PROVE CreditOnce'
  OBVIOUS
<1>1. CASE UNCHANGED vars
  BY <1>1, CreditUnchanged DEF vars
<1>2. CASE Next
  BY <1>2, WriteCredit, DeviceCredit, HandleCredit, CloseCredit DEF Next
<1> QED
  BY <1>1, <1>2

LEMMA InitCredit == Init => CreditOnce
<1> SUFFICES ASSUME Init, NEW s \in Streams
             PROVE  Exclusive(stream[s].canWrite, Queued(sendQueue, s), device[s].owes,
                              Acked(toHost, s))
  BY DEF CreditOnce
<1>1. ~device[s].owes /\ sendQueue = <<>> /\ toHost = <<>>
  BY DEF Init
<1> QED
  BY <1>1, AtEmpty DEF Exclusive, Queued, Acked

\* A stream never has two WRTEs outstanding: whoever takes the credit (streamWrite,
\* streamWriteRaw, the flush after an OKAY), it is in one place, on every stream of a connection
\* with any number of streams and writers.
THEOREM OneWrite == Spec => []OneOutstanding
<1>1. Spec => []CreditOnce
  BY AlwaysLocked, InitCredit, CreditStep, PTL DEF Spec
<1> QED
  BY <1>1, OnceIsOne, PTL

-----------------------------------------------------------------------------
(* Runs of bytes.                                                          *)

\* The n bytes after the first k are k + 1 to k + n.
LEMMA BytesAt ==
  ASSUME NEW k \in Nat, NEW n \in Nat
  PROVE  /\ Bytes(k, n) \in Seq(Nat) /\ Len(Bytes(k, n)) = n
         /\ \A i \in 1..n : Bytes(k, n)[i] = k + i
  BY BytesType DEF Bytes

\* Bytes that follow each other make one run of bytes.
LEMMA BytesConcat ==
  ASSUME NEW k \in Nat, NEW a \in Nat, NEW b \in Nat
  PROVE  Bytes(k, a) \o Bytes(k + a, b) = Bytes(k, a + b)
<1> DEFINE p == Bytes(k, a)
           r == Bytes(k + a, b)
           w == Bytes(k, a + b)
<1>1. /\ p \in Seq(Nat) /\ Len(p) = a /\ \A i \in 1..a : p[i] = k + i
      /\ r \in Seq(Nat) /\ Len(r) = b /\ \A i \in 1..b : r[i] = k + a + i
      /\ w \in Seq(Nat) /\ Len(w) = a + b /\ \A i \in 1..(a + b) : w[i] = k + i
  <2>1. k + a \in Nat /\ a + b \in Nat
    OBVIOUS
  <2> QED
    BY <2>1, BytesAt
<1> HIDE DEF p, r, w
<1>2. /\ p \o r \in Seq(Nat) /\ Len(p \o r) = a + b
      /\ \A i \in 1..(a + b) : (p \o r)[i] = IF i <= a THEN p[i] ELSE r[i - a]
  BY <1>1, ConcatProperties
<1>3. \A i \in 1..(a + b) : (p \o r)[i] = w[i]
  <2> TAKE i \in 1..(a + b)
  <2>1. CASE i <= a
    BY <1>1, <1>2, <2>1
  <2>2. CASE ~(i <= a)
    <3>1. i - a \in 1..b
      BY <2>2
    <3>2. r[i - a] = k + a + (i - a)
      BY <1>1, <3>1
    <3>3. (p \o r)[i] = r[i - a]
      BY <1>2, <2>2
    <3>4. w[i] = k + i
      BY <1>1
    <3>5. k + a + (i - a) = k + i
      OBVIOUS
    <3> QED
      BY <3>2, <3>3, <3>4, <3>5
  <2> QED
    BY <2>1, <2>2
<1>4. p \o r = w
  BY <1>1, <1>2, <1>3, SeqEqual
<1> QED
  BY <1>4 DEF p, r, w

\* A run of bytes that is cut makes two runs.
LEMMA BytesCut ==
  ASSUME NEW k \in Nat, NEW a \in Nat, NEW n \in 0..a
  PROVE  /\ SubSeq(Bytes(k, a), 1, n) = Bytes(k, n)
         /\ Rest(Bytes(k, a), n) = Bytes(k + n, a - n)
<1> DEFINE p == Bytes(k, a)
           u == Bytes(k, n)
           v == Bytes(k + n, a - n)
<1>1. /\ p \in Seq(Nat) /\ Len(p) = a /\ \A i \in 1..a : p[i] = k + i
      /\ u \in Seq(Nat) /\ Len(u) = n /\ \A i \in 1..n : u[i] = k + i
      /\ v \in Seq(Nat) /\ Len(v) = a - n /\ \A i \in 1..(a - n) : v[i] = k + n + i
  <2>1. k + n \in Nat /\ a - n \in Nat /\ n \in Nat
    OBVIOUS
  <2> QED
    BY <2>1, BytesAt
<1> HIDE DEF p, u, v
<1>2. /\ \A i \in 1..n : p[i] \in Nat
      /\ \A i \in n + 1 .. a : p[i] \in Nat
  BY <1>1
<1>3. SubSeq(p, 1, n) = u
  <2>1. /\ SubSeq(p, 1, n) \in Seq(Nat)
        /\ Len(SubSeq(p, 1, n)) = IF 1 <= n THEN n - 1 + 1 ELSE 0
        /\ \A i \in 1 .. n - 1 + 1 : SubSeq(p, 1, n)[i] = p[1 + i - 1]
    BY <1>2, SubSeqProperties
  <2>2. Len(SubSeq(p, 1, n)) = n /\ \A i \in 1..n : SubSeq(p, 1, n)[i] = u[i]
    BY <1>1, <2>1
  <2> QED
    BY <1>1, <2>1, <2>2, SeqEqual
<1>4. SubSeq(p, n + 1, a) = v
  <2>1. /\ SubSeq(p, n + 1, a) \in Seq(Nat)
        /\ Len(SubSeq(p, n + 1, a)) = IF n + 1 <= a THEN a - (n + 1) + 1 ELSE 0
        /\ \A i \in 1 .. a - (n + 1) + 1 : SubSeq(p, n + 1, a)[i] = p[n + 1 + i - 1]
    BY <1>2, SubSeqProperties
  <2>2. /\ Len(SubSeq(p, n + 1, a)) = a - n
        /\ \A i \in 1 .. a - n : SubSeq(p, n + 1, a)[i] = v[i]
    <3>1. Len(SubSeq(p, n + 1, a)) = a - n
      BY <2>1
    <3>2. ASSUME NEW i \in 1 .. a - n PROVE SubSeq(p, n + 1, a)[i] = v[i]
      <4>1. SubSeq(p, n + 1, a)[i] = p[n + i] /\ n + i \in 1..a
        BY <2>1
      <4> QED
        BY <1>1, <4>1
    <3> QED
      BY <3>1, <3>2
  <2> QED
    BY <1>1, <2>1, <2>2, SeqEqual
<1>5. Rest(p, n) = v
  BY <1>1, <1>4 DEF Rest
<1> QED
  BY <1>3, <1>5 DEF p, u, v

\* The payloads of a stream's WRTEs in a queue.
Sending(q, s) == {q[i].data : i \in Queued(q, s)}
\* The number of the first byte that is still pending, less one: of those that are not.
Base(x) == x.accepted - Len(x.pending)
\* The credit is with the host, with the device, or on its way back.
Held(H, D, K) == H \/ D \/ K # {}

\* A stream x (closed or not: C) of which the device has received r, with the send queue q and
\* the places D, K of a credit that has left the host: the pending bytes are the last of the
\* accepted ones, a WRTE that waits has the bytes that follow r, and unless the stream is closed
\* nothing is missing in between.
Flow(s, x, q, r, D, K, C) ==
  /\ Len(x.pending) <= x.accepted
  /\ x.pending = Bytes(Base(x), Len(x.pending))
  /\ \A d \in Sending(q, s) : d = Bytes(Len(r), Len(d))
  /\ ~C => /\ Held(x.canWrite, D, K) => Base(x) = Len(r)
           /\ \A d \in Sending(q, s) : Base(x) = Len(r) + Len(d)

\* A step that changes neither the bytes nor, for the worse, the credit.
LEMMA FlowKept ==
  ASSUME NEW s, NEW x, NEW q, NEW r, NEW D, NEW K, NEW C,
         NEW y, NEW p, NEW E, NEW L, NEW B,
         Flow(s, x, q, r, D, K, C),
         y.pending = x.pending, y.accepted = x.accepted,
         Held(y.canWrite, E, L) => Held(x.canWrite, D, K),
         Sending(p, s) \subseteq Sending(q, s), C => B
  PROVE  Flow(s, y, p, r, E, L, B)
<1>1. Base(y) = Base(x)
  BY DEF Base
<1> QED
  BY <1>1 DEF Flow

\* When a stream is closed and its pending bytes are dropped.
LEMMA FlowCleared ==
  ASSUME NEW s, NEW x \in HostEnd, NEW q, NEW r, NEW D, NEW K, NEW C,
         NEW y, NEW p, NEW E, NEW L, NEW B,
         Flow(s, x, q, r, D, K, C),
         y.pending = <<>>, y.accepted = x.accepted,
         Sending(p, s) \subseteq Sending(q, s), B
  PROVE  Flow(s, y, p, r, E, L, B)
<1>1. x.accepted \in Nat
  BY DEF HostEnd
<1>2. Bytes(x.accepted, 0) \in Seq(Nat) /\ Len(Bytes(x.accepted, 0)) = 0
  BY <1>1, BytesAt
<1>3. Bytes(x.accepted, 0) = <<>>
  BY <1>2, EmptySeq
<1>4. Len(y.pending) = 0 /\ Base(y) = x.accepted
  BY <1>1, EmptySeq DEF Base
<1> QED
  BY <1>1, <1>3, <1>4 DEF Flow

\* A message at the end of a queue.
LEMMA SendingAppend ==
  ASSUME NEW q \in Seq(Messages), NEW m \in Messages, NEW s
  PROVE  /\ m.cmd = "WRTE" /\ m.stream = s =>
              Sending(Append(q, m), s) = Sending(q, s) \cup {m.data}
         /\ m.cmd # "WRTE" \/ m.stream # s => Sending(Append(q, m), s) = Sending(q, s)
<1>1. Queued(Append(q, m), s) =
        Queued(q, s) \cup {i \in {Len(q) + 1} : m.cmd = "WRTE" /\ m.stream = s}
  BY AtAppend DEF Queued
<1>2. Queued(q, s) \subseteq 1..Len(q)
  BY LenProperties DEF Queued, At
<1>3. \A i \in Queued(q, s) : Append(q, m)[i] = q[i]
  BY <1>2, AppendProperties
<1>4. Append(q, m)[Len(q) + 1] = m
  BY AppendProperties
<1>5. CASE m.cmd = "WRTE" /\ m.stream = s
  <2> DEFINE p == Append(q, m)
             k == Len(q) + 1
  <2>1. Queued(p, s) = Queued(q, s) \cup {k}
    BY <1>1, <1>5
  <2>2. p[k].data = m.data /\ \A i \in Queued(q, s) : p[i].data = q[i].data
    BY <1>3, <1>4
  <2> HIDE DEF p, k
  <2>3. {p[i].data : i \in Queued(p, s)} = {q[i].data : i \in Queued(q, s)} \cup {m.data}
    BY <2>1, <2>2
  <2> QED
    BY <1>5, <2>3 DEF Sending, p
<1>6. CASE m.cmd # "WRTE" \/ m.stream # s
  <2>1. Queued(Append(q, m), s) = Queued(q, s)
    BY <1>1, <1>6
  <2> QED
    BY <1>3, <1>6, <2>1 DEF Sending
<1> QED
  BY <1>5, <1>6

\* The message that leaves a queue.
LEMMA SendingTail ==
  ASSUME NEW q \in Seq(Messages), q # <<>>, NEW s
  PROVE  /\ Sending(Tail(q), s) \subseteq Sending(q, s)
         /\ Head(q).cmd = "WRTE" /\ Head(q).stream = s => Head(q).data \in Sending(q, s)
         /\ Head(q).cmd # "WRTE" \/ Head(q).stream # s => Sending(Tail(q), s) = Sending(q, s)
<1>1. /\ Len(q) \in Nat \ {0} /\ DOMAIN q = 1..Len(q) /\ Head(q) = q[1]
      /\ DOMAIN Tail(q) = 1..(Len(q) - 1)
      /\ \A i \in 1..(Len(q) - 1) : Tail(q)[i] = q[i + 1]
  <2>1. Len(q) \in Nat \ {0} /\ DOMAIN q = 1..Len(q)
    BY EmptySeq, LenProperties
  <2>2. Tail(q) \in Seq(Messages) /\ Len(Tail(q)) = Len(q) - 1
    BY HeadTailProperties
  <2> QED
    BY <2>1, <2>2, HeadTailProperties, LenProperties
<1>2. /\ \A i \in Queued(Tail(q), s) : i \in 1..(Len(q) - 1) /\ i + 1 \in Queued(q, s)
      /\ Head(q).cmd = "WRTE" /\ Head(q).stream = s => 1 \in Queued(q, s)
  BY <1>1, AtTail DEF Queued, At
<1>3. Sending(Tail(q), s) \subseteq Sending(q, s)
  BY <1>1, <1>2 DEF Sending
<1>4. Head(q).cmd = "WRTE" /\ Head(q).stream = s => Head(q).data \in Sending(q, s)
  BY <1>1, <1>2 DEF Sending
<1>5. ASSUME Head(q).cmd # "WRTE" \/ Head(q).stream # s, NEW i \in Queued(q, s)
      PROVE  q[i].data \in Sending(Tail(q), s)
  <2>1. i \in 1..Len(q) /\ i # 1 /\ q[i].cmd = "WRTE" /\ q[i].stream = s
    BY <1>1, <1>5 DEF Queued, At
  <2> DEFINE j == i - 1
  <2>2. j \in 1..(Len(q) - 1) /\ j + 1 = i
    BY <1>1, <2>1
  <2> HIDE DEF j
  <2>3. j \in Queued(Tail(q), s) /\ Tail(q)[j] = q[i]
    BY <1>1, <2>1, <2>2 DEF Queued, At
  <2>4. Tail(q)[j].data \in Sending(Tail(q), s)
    BY <2>3 DEF Sending
  <2> QED
    BY <2>3, <2>4
<1>6. Head(q).cmd # "WRTE" \/ Head(q).stream # s => Sending(q, s) \subseteq Sending(Tail(q), s)
  BY <1>5 DEF Sending
<1> QED
  BY <1>3, <1>4, <1>6

\* An empty queue has no payload.
LEMMA SendingEmpty == \A s : Sending(<<>>, s) = {}
  BY AtEmpty DEF Sending, Queued

\* A message that is queued, or dropped because the queue is full.
LEMMA SendingEnqueue ==
  ASSUME NEW q \in Seq(Messages), NEW m \in Messages, NEW s
  PROVE  /\ m.cmd = "WRTE" /\ m.stream = s =>
              Sending(Enqueue(q, m), s) \subseteq Sending(q, s) \cup {m.data}
         /\ m.cmd # "WRTE" \/ m.stream # s => Sending(Enqueue(q, m), s) = Sending(q, s)
<1> DEFINE p == Enqueue(q, m)
           a == Append(q, m)
<1>1. p = q \/ p = a
  BY EnqueueType
<1>2. /\ m.cmd = "WRTE" /\ m.stream = s => Sending(a, s) = Sending(q, s) \cup {m.data}
      /\ m.cmd # "WRTE" \/ m.stream # s => Sending(a, s) = Sending(q, s)
  BY SendingAppend
<1> HIDE DEF p, a
<1>3. /\ m.cmd = "WRTE" /\ m.stream = s => Sending(p, s) \subseteq Sending(q, s) \cup {m.data}
      /\ m.cmd # "WRTE" \/ m.stream # s => Sending(p, s) = Sending(q, s)
  BY <1>1, <1>2
<1> QED
  BY <1>3 DEF p

\* What a flush leaves: the stream, less a chunk that went to the queue, and no credit.
LEMMA FlushFlow ==
  ASSUME NEW s \in Streams, NEW x \in HostEnd, NEW q \in Seq(Messages), NEW r \in Seq(Nat),
         NEW D \in BOOLEAN, NEW K,
         Exclusive(x.canWrite, Queued(q, s), D, K),
         Flow(s, x, q, r, D, K, Closed(s))
  PROVE  Flow(s, Flushed(s, x), FlushedQueue(s, x, q), r, D, K, Closed(s))
<1>1. CASE ~CanFlush(s, x)
  BY <1>1 DEF Flushed, FlushedQueue
<1>2. CASE CanFlush(s, x)
  <2> DEFINE n == Chunk(x)
             l == Len(x.pending)
             b == Base(x)
             m == Wrte(s, SubSeq(x.pending, 1, n))
             y == Flushed(s, x)
  <2>1. x.canWrite /\ ~Closed(s) /\ Queued(q, s) = {} /\ ~D /\ K = {}
    BY <1>2 DEF CanFlush, Exclusive
  <2>2. l \in Nat /\ n \in 0..l /\ x.accepted \in Nat /\ x.pending \in Seq(Nat) /\ Len(r) \in Nat
    BY ChunkType, LenProperties DEF HostEnd
  <2>3. b = Len(r) /\ l <= x.accepted /\ x.pending = Bytes(b, l) /\ Sending(q, s) = {}
    BY <2>1 DEF Flow, Held, Sending
  <2>4. SubSeq(x.pending, 1, n) = Bytes(b, n) /\ Rest(x.pending, n) = Bytes(b + n, l - n)
    <3> HIDE DEF n, l, b
    <3>1. b \in Nat /\ l \in Nat /\ n \in 0..l
      BY <2>2, <2>3
    <3>2. SubSeq(Bytes(b, l), 1, n) = Bytes(b, n) /\ Rest(Bytes(b, l), n) = Bytes(b + n, l - n)
      BY <3>1, BytesCut
    <3> QED
      BY <2>3, <3>2
  <2>5. /\ y.pending = Bytes(b + n, l - n) /\ y.accepted = x.accepted /\ y.canWrite = FALSE
        /\ FlushedQueue(s, x, q) = Enqueue(q, m)
    <3>1. y = [x EXCEPT !.canWrite = FALSE, !.pending = Rest(x.pending, n)]
            /\ FlushedQueue(s, x, q) = Enqueue(q, m)
      BY <1>2 DEF Flushed, FlushedQueue, CreditAfterWrte
    <3> HIDE DEF n, y, m
    <3> QED
      BY <2>4, <3>1 DEF HostEnd
  <2>6. m \in Messages /\ m.cmd = "WRTE" /\ m.stream = s /\ m.data = Bytes(b, n)
    <3>1. SubSeq(x.pending, 1, n) \in Seq(Nat)
      BY ChunkType, RestType DEF HostEnd
    <3> HIDE DEF n
    <3> QED
      BY <2>4, <3>1, MessageType DEF Wrte
  <2>7. Sending(Enqueue(q, m), s) \subseteq {Bytes(b, n)}
    <3> HIDE DEF m, n
    <3> QED
      BY <2>3, <2>6, SendingEnqueue
  <2>8. Len(Bytes(b, n)) = n /\ Len(y.pending) = l - n
    <3> HIDE DEF y, n, l, b
    <3>1. b \in Nat /\ b + n \in Nat /\ n \in Nat /\ l - n \in Nat
      BY <2>2, <2>3
    <3> QED
      BY <2>5, <3>1, BytesAt
  <2>9. Base(y) = b + n
    <3>1. b = x.accepted - l /\ Base(y) = x.accepted - (l - n)
      BY <2>5, <2>8 DEF Base
    <3> HIDE DEF y, n, l, b
    <3> QED
      BY <2>2, <3>1
  <2>10. Len(y.pending) <= y.accepted
    <3> HIDE DEF y, n, l, b
    <3> QED
      BY <2>2, <2>3, <2>5, <2>8
  <2> HIDE DEF y, n, l, b, m
  <2>11. y.pending = Bytes(Base(y), Len(y.pending))
    BY <2>5, <2>8, <2>9
  <2>12. \A d \in Sending(Enqueue(q, m), s) : d = Bytes(Len(r), Len(d)) /\ Base(y) = Len(r) + Len(d)
    BY <2>3, <2>7, <2>8, <2>9
  <2>13. ~Held(y.canWrite, D, K)
    BY <2>1, <2>5 DEF Held
  <2>14. Flow(s, y, Enqueue(q, m), r, D, K, Closed(s))
    BY <2>10, <2>11, <2>12, <2>13 DEF Flow
  <2> QED
    BY <2>5, <2>14 DEF y
<1> QED
  BY <1>1, <1>2

\* Bytes that are accepted join the pending ones.
LEMMA AcceptFlow ==
  ASSUME NEW s, NEW x \in HostEnd, NEW n \in Nat, NEW q, NEW r, NEW D, NEW K, NEW C, NEW y,
         Flow(s, x, q, r, D, K, C),
         y.pending = x.pending \o Bytes(x.accepted, n), y.accepted = x.accepted + n,
         y.canWrite = x.canWrite
  PROVE  Flow(s, y, q, r, D, K, C)
<1> DEFINE l == Len(x.pending)
           b == Base(x)
           a == x.accepted
<1>1. l \in Nat /\ a \in Nat /\ x.pending \in Seq(Nat)
  BY LenProperties DEF HostEnd
<1>2. l <= a /\ x.pending = Bytes(b, l) /\ b = a - l
  BY DEF Flow, Base
<1> HIDE DEF l, b, a
<1>3. b \in Nat /\ b + l = a /\ l + n \in Nat
  BY <1>1, <1>2
<1>4. y.pending = Bytes(b, l + n)
  <2>1. Bytes(b, l) \o Bytes(b + l, n) = Bytes(b, l + n)
    BY <1>1, <1>3, BytesConcat
  <2>2. y.pending = x.pending \o Bytes(a, n)
    BY DEF a
  <2> QED
    BY <1>2, <1>3, <2>1, <2>2
<1>5. Len(y.pending) = l + n
  BY <1>3, <1>4, BytesAt
<1>6. y.accepted = a + n
  BY DEF a
<1>7. Base(y) = b /\ Len(y.pending) <= y.accepted
  <2>1. Base(y) = (a + n) - (l + n)
    BY <1>5, <1>6 DEF Base
  <2> QED
    BY <1>1, <1>2, <1>5, <1>6, <2>1
<1> QED
  BY <1>4, <1>5, <1>7 DEF Flow, b

-----------------------------------------------------------------------------
(* Most steps move no bytes.                                               *)

\* The stream's credit is not in a WRTE that waits.
Holding(s) == Held(stream[s].canWrite, device[s].owes, Acked(toHost, s))

\* What a step does to stream t that neither writes to it nor brings its bytes to the device.
Quiet(t) ==
  /\ stream'[t].accepted = stream[t].accepted /\ stream'[t].moves = stream[t].moves
  /\ device'[t].received = device[t].received
  /\ stream'[t].pending = stream[t].pending \/ (stream'[t].pending = <<>> /\ stream[t].closed)
  /\ Sending(sendQueue', t) \subseteq Sending(sendQueue, t)
  /\ Holding(t)' => Holding(t)
  /\ Closed(t) => Closed(t)'
  /\ Open(t)' => /\ Open(t) /\ Sending(sendQueue, t) \subseteq Sending(sendQueue', t)
                 /\ Holding(t) => Holding(t)'

\* A stream that is being cleared is closed, and so is a connection with close() in it.
Clearing ==
  /\ conn.at # "open" => conn.closed
  /\ handle.at = "clear" => stream[handle.stream].closed
  /\ \A s \in Streams : stream[s].closer = "clear" => stream[s].closed

\* The fields of a stream that decide about its pending bytes.
SameFlow(x, y) ==
  /\ x.accepted = y.accepted /\ x.moves = y.moves /\ x.pending = y.pending
  /\ x.canWrite = y.canWrite /\ (x.closed => y.closed)

\* A step that leaves the device alone, and the WRTEs and acknowledgements of a stream.
LEMMA QuietStream ==
  ASSUME TypeOK, NEW t \in Streams, SameFlow(stream[t], stream'[t]),
         Sending(sendQueue', t) = Sending(sendQueue, t), Acked(toHost', t) = Acked(toHost, t),
         UNCHANGED device, conn.closed => conn'.closed
  PROVE  Quiet(t)
<1>1. Holding(t)' = Holding(t)
  BY DEF SameFlow, Holding, Held, Acked, At
<1>2. Closed(t) => Closed(t)'
  BY DEF SameFlow, Closed
<1>3. Open(t)' => Open(t)
  BY <1>2 DEF Open
<1> QED
  BY <1>1, <1>2, <1>3 DEF Quiet, SameFlow

\* A step that writes to one stream and leaves its bytes and credit.
LEMMA SetStreamFlow ==
  ASSUME TypeOK, NEW s \in Streams, NEW x, SetStream(s, x), SameFlow(stream[s], x)
  PROVE  \A t \in Streams : SameFlow(stream[t], stream'[t])
<1> SUFFICES ASSUME NEW t \in Streams PROVE SameFlow(stream[t], stream'[t])
  OBVIOUS
<1>1. stream'[t] = IF t = s THEN x ELSE stream[t]
  BY DEF TypeOK, SetStream
<1> QED
  BY <1>1 DEF SameFlow

\* A writer's steps before and after its bytes are taken.
LEMMA QuietWrite ==
  ASSUME TypeOK, NEW w \in Writers,
         \/ StartWrite(w) \/ StartRawWrite(w) \/ LockStream(w) \/ ThrowRound(w)
         \/ RawCheck(w) \/ RawDoze(w) \/ RawRetry(w)
  PROVE  \A t \in Streams : Quiet(t)
<1> DEFINE s == StreamOf[w]
<1>0. s \in Streams /\ stream[s] \in HostEnd
  BY FlowAssumption DEF TypeOK
<1>1. UNCHANGED <<sendQueue, toHost, device, conn>>
  BY DEF StartWrite, StartRawWrite, LockStream, ThrowRound, RawCheck, RawDoze, RawRetry
<1>2. \A t \in Streams : SameFlow(stream[t], stream'[t])
  <2>1. CASE UNCHANGED stream
    BY <2>1 DEF SameFlow
  <2>2. ASSUME NEW l, SetStream(s, [stream[s] EXCEPT !.lock = l])
        PROVE  \A t \in Streams : SameFlow(stream[t], stream'[t])
    <3>1. SameFlow(stream[s], [stream[s] EXCEPT !.lock = l])
      BY <1>0 DEF HostEnd, SameFlow
    <3> QED
      BY <1>0, <2>2, <3>1, SetStreamFlow
  <2> QED
    BY <2>1, <2>2 DEF StartWrite, StartRawWrite, LockStream, ThrowRound, RawCheck, RawDoze, RawRetry
<1>3. conn.closed => conn'.closed
  BY <1>1
<1>4. ASSUME NEW t \in Streams PROVE Quiet(t)
  <2>1. Sending(sendQueue', t) = Sending(sendQueue, t) /\ Acked(toHost', t) = Acked(toHost, t)
    BY <1>1
  <2> QED
    BY <1>1, <1>2, <1>3, <2>1, QuietStream
<1> QED
  BY <1>4

\* The device's steps, and the send thread's exit.
LEMMA QuietDevice ==
  ASSUME TypeOK, SendExit \/ \E s \in Streams : Device(s)
  PROVE  \A t \in Streams : Quiet(t)
<1>0. /\ toHost \in Seq(Messages) /\ device \in [Streams -> DeviceEnd]
      /\ stream \in [Streams -> HostEnd]
  BY DEF TypeOK
<1>1. CASE SendExit
  <2>1. UNCHANGED <<stream, sendQueue, toHost, device>> /\ conn'.closed = conn.closed
    BY <1>1 DEF SendExit, TypeOK, ConnState
  <2> SUFFICES ASSUME NEW t \in Streams PROVE Quiet(t)
    OBVIOUS
  <2>2. SameFlow(stream[t], stream'[t]) /\ Sending(sendQueue', t) = Sending(sendQueue, t)
          /\ Acked(toHost', t) = Acked(toHost, t)
    BY <2>1 DEF SameFlow
  <2> QED
    BY <2>1, <2>2, QuietStream
<1>2. ASSUME NEW s \in Streams, Device(s), NEW t \in Streams PROVE Quiet(t)
  <2>1. UNCHANGED <<stream, sendQueue, conn>> /\ ~conn.closed /\ device[s].open
    BY <1>2 DEF Device, DeviceAcks, DeviceWrites, DeviceCloses, DeviceSends
  <2>2. /\ Okay(s) \in Messages /\ Okay(s).cmd = "OKAY" /\ Okay(s).stream = s
        /\ Wrte(s, <<>>) \in Messages /\ Wrte(s, <<>>).cmd = "WRTE"
        /\ Clse(s) \in Messages /\ Clse(s).cmd = "CLSE"
    BY MessageType, EmptySeq DEF Okay, Wrte, Clse
  <2>3. /\ device'[t].received = device[t].received
        /\ device'[t].open => device[t].open
        /\ Holding(t)' <=> Holding(t)
    <3>1. CASE DeviceAcks(s)
      <4>1. /\ device[s].owes /\ device' = [device EXCEPT ![s] = [device[s] EXCEPT !.owes = FALSE]]
            /\ toHost' = Append(toHost, Okay(s))
        BY <3>1 DEF DeviceAcks, DeviceSends
      <4>2. Acked(toHost', t) = Acked(toHost, t) \cup {i \in {Len(toHost) + 1} : s = t}
        BY <1>0, <2>2, <4>1, AtAppend DEF Acked
      <4>3. CASE t = s
        <5>1. /\ device'[t].owes = FALSE /\ device'[t].received = device[t].received
              /\ device'[t].open = device[t].open
          BY <1>0, <4>1, <4>3 DEF DeviceEnd
        <5>2. Acked(toHost', t) # {}
          BY <4>2, <4>3
        <5>3. Holding(t)'
          BY <5>2 DEF Holding, Held, Acked, At
        <5> QED
          BY <4>1, <4>3, <5>1, <5>3 DEF Holding, Held
      <4>4. CASE t # s
        <5>1. device'[t] = device[t] /\ Acked(toHost', t) = Acked(toHost, t)
          BY <1>0, <4>1, <4>2, <4>4
        <5> QED
          BY <2>1, <5>1 DEF Holding, Held, Acked, At
      <4> QED
        BY <4>3, <4>4
    <3>2. CASE DeviceWrites(s)
      <4>1. /\ device' = [device EXCEPT ![s] = [device[s] EXCEPT !.credit = FALSE, !.wrote = @ + 1]]
            /\ toHost' = Append(toHost, Wrte(s, <<>>))
        BY <3>2 DEF DeviceWrites, DeviceSends
      <4>2. /\ device'[t].owes = device[t].owes /\ device'[t].received = device[t].received
            /\ device'[t].open = device[t].open
        BY <1>0, <4>1 DEF DeviceEnd
      <4>3. Acked(toHost', t) = Acked(toHost, t)
        BY <1>0, <2>2, <4>1, AckedAppend
      <4> QED
        BY <2>1, <4>2, <4>3 DEF Holding, Held, Acked, At
    <3>3. CASE DeviceCloses(s)
      <4>1. /\ device' = [device EXCEPT ![s] = [device[s] EXCEPT !.open = FALSE]]
            /\ toHost' = Append(toHost, Clse(s))
        BY <3>3 DEF DeviceCloses, DeviceSends
      <4>2. /\ device'[t].owes = device[t].owes /\ device'[t].received = device[t].received
            /\ device'[t].open => device[t].open
        BY <1>0, <2>1, <4>1 DEF DeviceEnd
      <4>3. Acked(toHost', t) = Acked(toHost, t)
        BY <1>0, <2>2, <4>1, AckedAppend
      <4> QED
        BY <2>1, <4>2, <4>3 DEF Holding, Held, Acked, At
    <3> QED
      BY <1>2, <3>1, <3>2, <3>3 DEF Device
  <2>4. Closed(t)' = Closed(t)
    BY <2>1 DEF Closed
  <2>5. Open(t)' => Open(t)
    BY <2>3, <2>4 DEF Open
  <2>6. Sending(sendQueue', t) = Sending(sendQueue, t)
    BY <2>1
  <2> QED
    BY <2>1, <2>3, <2>4, <2>5, <2>6 DEF Quiet
<1> QED
  BY <1>1, <1>2

\* Reading a message from the channel takes an acknowledgement of its stream at most.
LEMMA ReadsFlow ==
  ASSUME TypeOK, NEW cmds, Reads(cmds)
  PROVE  /\ First \in Messages /\ First.stream \in Streams /\ ~conn.closed
         /\ \A t \in Streams :
              /\ Acked(toHost', t) # {} => Acked(toHost, t) # {}
              /\ First.cmd # "OKAY" \/ First.stream # t =>
                   (Acked(toHost, t) # {} => Acked(toHost', t) # {})
<1>1. toHost \in Seq(Messages) /\ toHost # <<>> /\ toHost' = Tail(toHost) /\ ~conn.closed
  BY DEF Reads, TypeOK
<1>2. First \in Messages /\ First.stream \in Streams
  <2>1. First \in Messages
    BY <1>1, HeadTailProperties DEF First
  <2> QED
    BY <2>1 DEF Messages
<1>3. /\ Len(toHost) \in Nat \ {0} /\ DOMAIN toHost = 1..Len(toHost) /\ First = toHost[1]
      /\ DOMAIN Tail(toHost) = 1..(Len(toHost) - 1)
      /\ \A i \in 1..(Len(toHost) - 1) : Tail(toHost)[i] = toHost[i + 1]
  <2>1. Len(toHost) \in Nat \ {0} /\ DOMAIN toHost = 1..Len(toHost)
    BY <1>1, EmptySeq, LenProperties
  <2>2. Tail(toHost) \in Seq(Messages) /\ Len(Tail(toHost)) = Len(toHost) - 1
    BY <1>1, HeadTailProperties
  <2> QED
    BY <1>1, <2>1, <2>2, HeadTailProperties, LenProperties DEF First
<1>4. ASSUME NEW t \in Streams, NEW i \in Acked(Tail(toHost), t) PROVE Acked(toHost, t) # {}
  BY <1>1, <1>4, AtTail DEF Acked
<1>5. ASSUME NEW t \in Streams, First.cmd # "OKAY" \/ First.stream # t, NEW i \in Acked(toHost, t)
      PROVE  Acked(Tail(toHost), t) # {}
  <2>1. i \in 1..Len(toHost) /\ i # 1 /\ toHost[i].cmd = "OKAY" /\ toHost[i].stream = t
    BY <1>3, <1>5 DEF Acked, At
  <2> DEFINE j == i - 1
  <2>2. j \in 1..(Len(toHost) - 1) /\ j + 1 = i
    BY <1>3, <2>1
  <2> HIDE DEF j
  <2>3. j \in Acked(Tail(toHost), t)
    BY <1>3, <2>1, <2>2 DEF Acked, At
  <2> QED
    BY <2>3
<1>6. \A t \in Streams : Acked(Tail(toHost), t) # {} => Acked(toHost, t) # {}
  BY <1>4
<1>7. \A t \in Streams : First.cmd # "OKAY" \/ First.stream # t =>
        (Acked(toHost, t) # {} => Acked(Tail(toHost), t) # {})
  BY <1>5
<1> QED
  BY <1>1, <1>2, <1>6, <1>7

\* A message for a closed stream, or one that is not an OKAY.
LEMMA QuietReads ==
  ASSUME TypeOK, NEW cmds, Reads(cmds), First.cmd # "OKAY" \/ stream[First.stream].closed,
         NEW t \in Streams, SameFlow(stream[t], stream'[t]), UNCHANGED <<sendQueue, device, conn>>
  PROVE  Quiet(t)
<1>1. Holding(t)' => Holding(t)
  BY ReadsFlow DEF SameFlow, Holding, Held, Acked, At
<1>2. Closed(t) => Closed(t)'
  BY DEF SameFlow, Closed
<1>3. Open(t)' => Open(t) /\ (First.cmd # "OKAY" \/ First.stream # t)
  BY <1>2 DEF Open, Closed
<1>4. Open(t)' /\ Holding(t) => Holding(t)'
  BY <1>3, ReadsFlow DEF SameFlow, Holding, Held, Acked, At
<1> QED
  BY <1>1, <1>2, <1>3, <1>4 DEF Quiet, SameFlow

\* The receive loop's steps, except that of an OKAY for a stream that is not closed.
LEMMA QuietHandle ==
  ASSUME TypeOK, Clearing,
         HandleLate \/ HandleWrte \/ HandleStore \/ HandleClse \/ HandleClear \/ HandleExit
  PROVE  \A t \in Streams : Quiet(t)
<1> SUFFICES ASSUME NEW t \in Streams PROVE Quiet(t)
  OBVIOUS
<1>0. sendQueue \in Seq(Messages) /\ stream \in [Streams -> HostEnd]
  BY DEF TypeOK
<1>1. CASE HandleLate
  <2>1. Reads({"OKAY", "WRTE", "CLSE"}) /\ stream[First.stream].closed
          /\ UNCHANGED <<stream, sendQueue, device, conn>>
    BY <1>1 DEF HandleLate
  <2>2. SameFlow(stream[t], stream'[t])
    BY <2>1 DEF SameFlow
  <2> QED
    BY <2>1, <2>2, QuietReads
<1>2. CASE HandleWrte
  <2>1. Reads({"WRTE"}) /\ First.cmd # "OKAY" /\ UNCHANGED <<stream, sendQueue, device, conn>>
    BY <1>2 DEF HandleWrte, Reads
  <2>2. SameFlow(stream[t], stream'[t])
    BY <2>1 DEF SameFlow
  <2> QED
    BY <2>1, <2>2, QuietReads
<1>3. CASE HandleStore
  <2> DEFINE s == handle.stream
  <2>1. s \in Streams /\ stream[s] \in HostEnd
    BY <1>3 DEF HandleStore, TypeOK, HandleState
  <2>2. SameFlow(stream[t], stream'[t])
    <3>1. PICK x \in {stream[s], [stream[s] EXCEPT !.ring = @ + 1]} : SetStream(s, x)
      BY <1>3 DEF HandleStore
    <3>2. SameFlow(stream[s], x)
      BY <2>1, <3>1 DEF HostEnd, SameFlow
    <3> QED
      BY <2>1, <3>1, <3>2, SetStreamFlow
  <2>3. Sending(sendQueue', t) = Sending(sendQueue, t)
    <3>1. Okay(s) \in Messages /\ Okay(s).cmd # "WRTE"
      BY <2>1, MessageType, EmptySeq DEF Okay
    <3>2. Sending(Enqueue(sendQueue, Okay(s)), t) = Sending(sendQueue, t)
      BY <1>0, <3>1, SendingEnqueue
    <3>3. sendQueue' = sendQueue \/ sendQueue' = Enqueue(sendQueue, Okay(s))
      BY <1>3 DEF HandleStore
    <3> QED
      BY <3>2, <3>3
  <2>4. UNCHANGED <<conn, toHost, device>>
    BY <1>3 DEF HandleStore
  <2>5. Acked(toHost', t) = Acked(toHost, t) /\ (conn.closed => conn'.closed)
    BY <2>4
  <2> QED
    BY <2>2, <2>3, <2>4, <2>5, QuietStream
<1>4. CASE HandleClse
  <2>1. Reads({"CLSE"}) /\ First.cmd # "OKAY" /\ UNCHANGED <<sendQueue, device, conn>>
          /\ SetStream(First.stream, [stream[First.stream] EXCEPT !.closed = TRUE])
    BY <1>4 DEF HandleClse, Reads
  <2>2. First.stream \in Streams /\ stream[First.stream] \in HostEnd
    BY <1>0, <2>1, ReadsFlow
  <2> HIDE DEF First
  <2>3. SameFlow(stream[First.stream], [stream[First.stream] EXCEPT !.closed = TRUE])
    BY <2>2 DEF HostEnd, SameFlow
  <2>4. SameFlow(stream[t], stream'[t])
    BY <2>1, <2>2, <2>3, SetStreamFlow
  <2> QED
    BY <2>1, <2>4, QuietReads
<1>5. CASE HandleClear
  <2> DEFINE s == handle.stream
             x == [Cleared(stream[s]) EXCEPT !.listed = FALSE]
  <2>1. s \in Streams /\ stream[s] \in HostEnd /\ stream[s].closed
    BY <1>5 DEF HandleClear, TypeOK, HandleState, Clearing
  <2>2. SetStream(s, x) /\ UNCHANGED <<sendQueue, conn, toHost, device>>
    BY <1>5 DEF HandleClear
  <2>3. /\ x.pending = <<>> /\ x.accepted = stream[s].accepted /\ x.moves = stream[s].moves
        /\ x.canWrite = stream[s].canWrite /\ x.closed
    BY <2>1 DEF Cleared, HostEnd
  <2> HIDE DEF x
  <2>4. /\ stream'[t].pending = stream[t].pending \/ (stream'[t].pending = <<>> /\ stream[t].closed)
        /\ stream'[t].accepted = stream[t].accepted /\ stream'[t].moves = stream[t].moves
        /\ stream'[t].canWrite = stream[t].canWrite /\ (stream[t].closed => stream'[t].closed)
    BY <1>0, <2>1, <2>2, <2>3 DEF SetStream
  <2>5. Closed(t) => Closed(t)'
    BY <2>2, <2>4 DEF Closed
  <2>6. Open(t)' => Open(t)
    BY <2>2, <2>5 DEF Open
  <2>7. Holding(t)' = Holding(t)
    BY <2>2, <2>4 DEF Holding, Held, Acked, At
  <2> QED
    BY <2>2, <2>4, <2>5, <2>6, <2>7 DEF Quiet
<1>6. CASE HandleExit
  <2>1. UNCHANGED <<stream, sendQueue, toHost, device, conn>>
    BY <1>6 DEF HandleExit
  <2>2. SameFlow(stream[t], stream'[t]) /\ Sending(sendQueue', t) = Sending(sendQueue, t)
          /\ Acked(toHost', t) = Acked(toHost, t) /\ (conn.closed => conn'.closed)
    BY <2>1 DEF SameFlow
  <2> QED
    BY <2>1, <2>2, QuietStream
<1> QED
  BY <1>1, <1>2, <1>3, <1>4, <1>5, <1>6

\* Reading and closing.
LEMMA QuietClose ==
  ASSUME TypeOK, Clearing,
         \/ \E s \in Streams : Read(s) \/ CloseStream(s) \/ FinishCloseStream(s)
         \/ \E c \in Closers : CloseBegin(c)
         \/ FinishClose
  PROVE  \A t \in Streams : Quiet(t)
<1> SUFFICES ASSUME NEW t \in Streams PROVE Quiet(t)
  OBVIOUS
<1>0. sendQueue \in Seq(Messages) /\ stream \in [Streams -> HostEnd] /\ conn \in ConnState
  BY DEF TypeOK
<1>1. ASSUME NEW s \in Streams, Read(s) \/ CloseStream(s) \/ CloseStreamMark(s) PROVE Quiet(t)
  <2>1. stream[s] \in HostEnd
    BY <1>0
  <2>2. /\ SameFlow(stream[s], [stream[s] EXCEPT !.ring = @ - 1])
        /\ SameFlow(stream[s], [stream[s] EXCEPT !.listed = FALSE, !.closer = "mark"])
        /\ SameFlow(stream[s], [stream[s] EXCEPT !.closed = TRUE, !.closer = "clear"])
    BY <2>1 DEF HostEnd, SameFlow
  <2>3. SameFlow(stream[t], stream'[t])
    BY <1>1, <2>2, SetStreamFlow DEF Read, CloseStream, CloseStreamMark
  <2>4. Sending(sendQueue', t) = Sending(sendQueue, t)
    <3>1. Clse(s) \in Messages /\ Clse(s).cmd # "WRTE"
      BY MessageType, EmptySeq DEF Clse
    <3>2. Sending(Enqueue(sendQueue, Clse(s)), t) = Sending(sendQueue, t)
      BY <1>0, <3>1, SendingEnqueue
    <3>3. sendQueue' = sendQueue \/ sendQueue' = Enqueue(sendQueue, Clse(s))
      BY <1>1 DEF Read, CloseStream, CloseStreamMark
    <3> QED
      BY <3>2, <3>3
  <2>5. UNCHANGED <<conn, toHost, device>>
    BY <1>1 DEF Read, CloseStream, CloseStreamMark
  <2>6. Acked(toHost', t) = Acked(toHost, t) /\ (conn.closed => conn'.closed)
    BY <2>5
  <2> QED
    BY <2>3, <2>4, <2>5, <2>6, QuietStream
<1>2. ASSUME NEW s \in Streams, CloseStreamClear(s) PROVE Quiet(t)
  <2> DEFINE x == [Cleared(stream[s]) EXCEPT !.closer = "done"]
  <2>1. stream[s] \in HostEnd /\ stream[s].closed
    BY <1>0, <1>2 DEF CloseStreamClear, Clearing
  <2>2. SetStream(s, x) /\ UNCHANGED <<sendQueue, conn, toHost, device>>
    BY <1>2 DEF CloseStreamClear
  <2>3. /\ x.pending = <<>> /\ x.accepted = stream[s].accepted /\ x.moves = stream[s].moves
        /\ x.canWrite = stream[s].canWrite /\ x.closed
    BY <2>1 DEF Cleared, HostEnd
  <2> HIDE DEF x
  <2>4. /\ stream'[t].pending = stream[t].pending \/ (stream'[t].pending = <<>> /\ stream[t].closed)
        /\ stream'[t].accepted = stream[t].accepted /\ stream'[t].moves = stream[t].moves
        /\ stream'[t].canWrite = stream[t].canWrite /\ (stream[t].closed => stream'[t].closed)
    BY <1>0, <2>1, <2>2, <2>3 DEF SetStream
  <2>5. Closed(t) => Closed(t)'
    BY <2>2, <2>4 DEF Closed
  <2>6. Open(t)' => Open(t)
    BY <2>2, <2>5 DEF Open
  <2>7. Holding(t)' = Holding(t)
    BY <2>2, <2>4 DEF Holding, Held, Acked, At
  <2> QED
    BY <2>2, <2>4, <2>5, <2>6, <2>7 DEF Quiet
<1>3. ASSUME NEW c \in Closers, CloseBegin(c) PROVE Quiet(t)
  <2>1. UNCHANGED <<stream, sendQueue, device>> /\ conn'.closed /\ toHost' = <<>>
    BY <1>0, <1>3 DEF CloseBegin, ConnState
  <2>2. Acked(toHost', t) = {}
    BY <2>1, AtEmpty DEF Acked
  <2>3. Holding(t)' => Holding(t)
    BY <2>1, <2>2 DEF Holding, Held, Acked, At
  <2>4. Closed(t)'
    BY <2>1 DEF Closed
  <2>5. ~Open(t)'
    BY <2>4 DEF Open
  <2> QED
    BY <2>1, <2>3, <2>4, <2>5 DEF Quiet
<1>4. CASE FinishClose
  <2>1. UNCHANGED <<device, toHost>> /\ conn'.closed = conn.closed
    BY <1>0, <1>4 DEF FinishClose, CloseJoinSend, CloseMark, CloseJoinHandle, ConnState
  <2>2. SameFlow(stream[t], stream'[t])
    <3>1. CASE CloseMark
      <4>1. stream'[t] = [stream[t] EXCEPT !.closed = TRUE]
        BY <3>1 DEF CloseMark
      <4> QED
        BY <1>0, <4>1 DEF SameFlow, HostEnd
    <3>2. CASE CloseJoinSend \/ CloseJoinHandle
      <4>1. stream'[t] = stream[t]
        BY <3>2 DEF CloseJoinSend, CloseJoinHandle
      <4> QED
        BY <4>1 DEF SameFlow
    <3> QED
      BY <1>4, <3>1, <3>2 DEF FinishClose
  <2>3. CASE CloseJoinSend
    <3>1. sendQueue' = <<>> /\ UNCHANGED stream
      BY <2>3 DEF CloseJoinSend
    <3>2. Sending(sendQueue', t) = {}
      BY <3>1, SendingEmpty
    <3>3. Closed(t) /\ Closed(t)'
      BY <2>1, <2>3 DEF CloseJoinSend, Clearing, Closed
    <3>4. Holding(t)' = Holding(t) /\ ~Open(t)'
      BY <2>1, <3>1, <3>3 DEF Holding, Held, Acked, At, Open
    <3> QED
      BY <2>1, <2>2, <3>1, <3>2, <3>3, <3>4 DEF Quiet, SameFlow
  <2>4. CASE CloseMark \/ CloseJoinHandle
    <3>1. UNCHANGED sendQueue
      BY <2>4 DEF CloseMark, CloseJoinHandle
    <3>2. Sending(sendQueue', t) = Sending(sendQueue, t) /\ Acked(toHost', t) = Acked(toHost, t)
            /\ (conn.closed => conn'.closed)
      BY <2>1, <3>1
    <3> QED
      BY <2>1, <2>2, <3>2, QuietStream
  <2> QED
    BY <1>4, <2>3, <2>4 DEF FinishClose
<1> QED
  BY <1>1, <1>2, <1>3, <1>4 DEF FinishCloseStream

\* A writer's steps that put bytes in motion.
Transfer(w) == CheckRound(w) \/ AppendRound(w) \/ FullRound(w) \/ RawSend(w)

\* Besides them only the send thread's and the one after an OKAY do.
LEMMA QuietOrNot ==
  ASSUME TypeOK, Clearing, [Next]_vars
  PROVE  \/ \A t \in Streams : Quiet(t)
         \/ \E w \in Writers : Transfer(w)
         \/ Send \/ HandleOkay
<1>1. CASE UNCHANGED vars
  <2> SUFFICES ASSUME NEW t \in Streams PROVE Quiet(t)
    OBVIOUS
  <2>1. UNCHANGED <<stream, sendQueue, toHost, device, conn>>
    BY <1>1 DEF vars
  <2>2. SameFlow(stream[t], stream'[t]) /\ Sending(sendQueue', t) = Sending(sendQueue, t)
          /\ Acked(toHost', t) = Acked(toHost, t) /\ (conn.closed => conn'.closed)
    BY <2>1 DEF SameFlow
  <2> QED
    BY <2>1, <2>2, QuietStream
<1>2. CASE Next
  BY <1>2, QuietWrite, QuietDevice, QuietHandle, QuietClose DEF Next, Write, Handle, Transfer
<1> QED
  BY <1>1, <1>2

\* sync services do not use the pending bytes, and the threads in streamWrite have other streams.
RawApart ==
  /\ \A w \in Writers : Raw(w) => writer[w].at \notin {"lock", "round", "append"}
  /\ \A w \in Writers : ~Raw(w) => writer[w].at \notin {"check", "doze", "asleep", "raw"}
  /\ \A s \in Streams : use[s] = "sync" => stream[s].pending = <<>>

\* Only WRTEs have a payload.
Plain(q) == \A i \in DOMAIN q : q[i].cmd = "WRTE" \/ q[i].data = <<>>

-----------------------------------------------------------------------------
(* The bytes are received in order.                                        *)

\* The device has received the first bytes, in order.
Received(r) == r = Bytes(0, Len(r))

\* For every stream whose units are bytes.
Numbering ==
  \A s \in Streams : use[s] # "control" =>
    /\ Received(device[s].received)
    /\ Flow(s, stream[s], sendQueue, device[s].received, device[s].owes, Acked(toHost, s), Closed(s))

\* A quiet step leaves every byte where it is, or drops what a closed stream had.
LEMMA QuietFlow ==
  ASSUME TypeOK, Numbering, use' = use, \A t \in Streams : Quiet(t)
  PROVE  Numbering'
<1> SUFFICES ASSUME NEW t \in Streams, use[t] # "control"
             PROVE  /\ Received(device'[t].received)
                    /\ Flow(t, stream'[t], sendQueue', device'[t].received, device'[t].owes,
                            Acked(toHost', t), Closed(t)')
  BY DEF Numbering, Flow, Held, Base, Bytes, Sending, Queued, Acked, At, Received
<1>1. /\ Received(device[t].received) /\ stream[t] \in HostEnd
      /\ Flow(t, stream[t], sendQueue, device[t].received, device[t].owes, Acked(toHost, t), Closed(t))
  BY DEF Numbering, TypeOK
<1>2. /\ stream'[t].accepted = stream[t].accepted
      /\ device'[t].received = device[t].received
      /\ stream'[t].pending = stream[t].pending \/ (stream'[t].pending = <<>> /\ stream[t].closed)
      /\ Sending(sendQueue', t) \subseteq Sending(sendQueue, t)
      /\ Closed(t) => Closed(t)'
  BY DEF Quiet
<1>3. Held(stream'[t].canWrite, device'[t].owes, Acked(toHost', t))
        => Held(stream[t].canWrite, device[t].owes, Acked(toHost, t))
  BY DEF Quiet, Holding, Held, Acked, At
<1>4. CASE stream'[t].pending = stream[t].pending
  BY <1>1, <1>2, <1>3, <1>4, FlowKept
<1>5. CASE stream'[t].pending = <<>> /\ stream[t].closed
  <2>1. Closed(t)'
    BY <1>2, <1>5 DEF Closed
  <2> DEFINE D == device[t].owes
             r == device[t].received
             K == Acked(toHost, t)
             C == Closed(t)
             x == stream[t]
             q == sendQueue
             y == stream'[t]
             p == sendQueue'
             E == device'[t].owes
             L == Acked(toHost', t)
             B == Closed(t)'
  <2>2. /\ x \in HostEnd /\ Flow(t, x, q, r, D, K, C)
        /\ y.pending = <<>> /\ y.accepted = x.accepted
        /\ Sending(p, t) \subseteq Sending(q, t) /\ B
    BY <1>1, <1>2, <1>5, <2>1
  <2> HIDE DEF D, r, K, C, x, q, y, p, E, L, B
  <2>3. Flow(t, y, p, r, E, L, B)
    BY <2>2, FlowCleared
  <2>4. Flow(t, stream'[t], sendQueue', device[t].received, device'[t].owes, Acked(toHost', t), Closed(t)')
    BY <2>3 DEF y, p, r, E, L, B
  <2> QED
    BY <1>1, <1>2, <2>4
<1> QED
  BY <1>1, <1>2, <1>4, <1>5

\* Queueing a message.
LEMMA PlainEnqueue ==
  ASSUME NEW q \in Seq(Messages), Plain(q), NEW m \in Messages, m.cmd = "WRTE" \/ m.data = <<>>
  PROVE  Plain(Enqueue(q, m))
<1>1. Plain(Append(q, m))
  <2> SUFFICES ASSUME NEW i \in DOMAIN Append(q, m)
               PROVE  Append(q, m)[i].cmd = "WRTE" \/ Append(q, m)[i].data = <<>>
    BY DEF Plain
  <2>1. Append(q, m) \in Seq(Messages) /\ Len(Append(q, m)) = Len(q) + 1 /\ Len(q) \in Nat
    BY AppendProperties, LenProperties
  <2>2. i \in 1..(Len(q) + 1)
    BY <2>1, LenProperties
  <2>3. CASE i = Len(q) + 1
    BY <2>3, AppendProperties
  <2>4. CASE i # Len(q) + 1
    <3>1. i \in 1..Len(q)
      BY <2>1, <2>2, <2>4
    <3>2. Append(q, m)[i] = q[i] /\ i \in DOMAIN q
      BY <3>1, AppendProperties, LenProperties
    <3> QED
      BY <3>2 DEF Plain
  <2> QED
    BY <2>3, <2>4
<1> QED
  BY <1>1 DEF Enqueue

\* Sending a message.
LEMMA PlainTail ==
  ASSUME NEW q \in Seq(Messages), q # <<>>, Plain(q)
  PROVE  Plain(Tail(q)) /\ (Head(q).cmd = "WRTE" \/ Head(q).data = <<>>)
<1>1. /\ Len(q) \in Nat \ {0} /\ DOMAIN q = 1..Len(q) /\ Head(q) = q[1]
      /\ DOMAIN Tail(q) = 1..(Len(q) - 1)
      /\ \A i \in 1..(Len(q) - 1) : Tail(q)[i] = q[i + 1]
  <2>1. Len(q) \in Nat \ {0} /\ DOMAIN q = 1..Len(q)
    BY EmptySeq, LenProperties
  <2>2. Tail(q) \in Seq(Messages) /\ Len(Tail(q)) = Len(q) - 1
    BY HeadTailProperties
  <2> QED
    BY <2>1, <2>2, HeadTailProperties, LenProperties
<1>2. \A i \in 1..(Len(q) - 1) : i + 1 \in 1..Len(q)
  BY <1>1
<1>3. 1 \in 1..Len(q)
  BY <1>1
<1> QED
  BY <1>1, <1>2, <1>3 DEF Plain

\* Flushing a stream leaves the others alone, also in the queue.
LEMMA FlushApart ==
  ASSUME NEW s \in Streams, NEW x \in HostEnd, NEW q \in Seq(Messages)
  PROVE  /\ \A t : t # s => Sending(FlushedQueue(s, x, q), t) = Sending(q, t)
         /\ Plain(q) => Plain(FlushedQueue(s, x, q))
         /\ Flushed(s, x).accepted = x.accepted /\ Flushed(s, x).closed = x.closed
         /\ Flushed(s, x).closer = x.closer
         /\ x.pending = <<>> => Flushed(s, x).pending = <<>>
<1> DEFINE m == Wrte(s, SubSeq(x.pending, 1, Chunk(x)))
<1>1. m \in Messages /\ m.cmd = "WRTE" /\ m.stream = s
  <2>1. SubSeq(x.pending, 1, Chunk(x)) \in Seq(Nat)
    BY ChunkType, RestType DEF HostEnd
  <2> QED
    BY <2>1, MessageType DEF Wrte
<1>2. FlushedQueue(s, x, q) = q \/ FlushedQueue(s, x, q) = Enqueue(q, m)
  BY DEF FlushedQueue
<1> HIDE DEF m
<1>3. \A t : t # s => Sending(Enqueue(q, m), t) = Sending(q, t)
  BY <1>1, SendingEnqueue
<1>4. Plain(q) => Plain(Enqueue(q, m))
  BY <1>1, PlainEnqueue
<1>5. /\ Flushed(s, x).accepted = x.accepted /\ Flushed(s, x).closed = x.closed
      /\ Flushed(s, x).closer = x.closer
      /\ x.pending = <<>> => Flushed(s, x).pending = <<>>
  <2> HIDE DEF Rest, Chunk
  <2> QED
    BY DEF Flushed, CanFlush, HostEnd
<1> QED
  BY <1>2, <1>3, <1>4, <1>5

\* A step that writes to stream s alone and leaves the device's side.
LEMMA NumberingAt ==
  ASSUME TypeOK, Numbering, NEW s \in Streams, NEW x, NEW q,
         SetStream(s, x), sendQueue' = q, UNCHANGED <<use, device, conn>>,
         x.closed = stream[s].closed,
         use[s] # "control" =>
           Flow(s, x, q, device[s].received, device[s].owes, Acked(toHost', s), Closed(s)),
         \A t \in Streams : t # s => /\ Sending(q, t) = Sending(sendQueue, t)
                                     /\ Acked(toHost', t) # {} => Acked(toHost, t) # {}
  PROVE  Numbering'
<1> SUFFICES ASSUME NEW t \in Streams, use[t] # "control"
             PROVE  /\ Received(device'[t].received)
                    /\ Flow(t, stream'[t], sendQueue', device'[t].received, device'[t].owes,
                            Acked(toHost', t), Closed(t)')
  BY DEF Numbering, Flow, Held, Base, Bytes, Sending, Queued, Acked, At, Received
<1>1. /\ Received(device[t].received)
      /\ Flow(t, stream[t], sendQueue, device[t].received, device[t].owes, Acked(toHost, t), Closed(t))
  BY DEF Numbering
<1>2. stream'[t] = IF t = s THEN x ELSE stream[t]
  BY DEF SetStream, TypeOK
<1>3. Closed(t)' = Closed(t)
  BY <1>2 DEF Closed
<1>4. CASE t = s
  BY <1>1, <1>2, <1>3, <1>4
<1>5. CASE t # s
  <2>1. stream'[t] = stream[t] /\ Sending(sendQueue', t) \subseteq Sending(sendQueue, t)
    BY <1>2, <1>5
  <2>2. Held(stream[t].canWrite, device[t].owes, Acked(toHost', t))
          => Held(stream[t].canWrite, device[t].owes, Acked(toHost, t))
    BY <1>5 DEF Held
  <2>3. Flow(t, stream[t], sendQueue', device[t].received, device[t].owes, Acked(toHost', t), Closed(t))
    BY <1>1, <2>1, <2>2, FlowKept
  <2> QED
    BY <1>1, <1>3, <2>1, <2>3
<1> QED
  BY <1>4, <1>5

\* A writer's round in streamWrite, and a write of a sync service.
LEMMA WriteFlow ==
  ASSUME TypeOK, Locked, CreditOnce, Numbering, RawApart, Plain(sendQueue), NEW w \in Writers,
         Transfer(w)
  PROVE  Numbering' /\ Plain(sendQueue')
<1> DEFINE s == StreamOf[w]
           r == device[s].received
           D == device[s].owes
           K == Acked(toHost, s)
<1>0. s \in Streams /\ stream[s] \in HostEnd /\ writer[w] \in WriterState
      /\ sendQueue \in Seq(Messages) /\ D \in BOOLEAN /\ r \in Seq(Nat)
  BY FlowAssumption DEF TypeOK, DeviceEnd
<1>1. Exclusive(stream[s].canWrite, Queued(sendQueue, s), D, K)
  BY <1>0 DEF CreditOnce
<1>2. use[s] # "control" => Flow(s, stream[s], sendQueue, r, D, K, Closed(s))
  BY <1>0 DEF Numbering
<1>3. UNCHANGED <<use, device, toHost, conn>>
  BY DEF Transfer, CheckRound, AppendRound, FullRound, RawSend
<1>4. Acked(toHost', s) = K /\ \A t \in Streams : Acked(toHost', t) = Acked(toHost, t)
  BY <1>3
<1> HIDE DEF s, r, D, K
<1>5. ASSUME NEW x, NEW q, SetStream(s, x), sendQueue' = q, x.closed = stream[s].closed,
             use[s] # "control" => Flow(s, x, q, r, D, K, Closed(s)),
             \A t : t # s => Sending(q, t) = Sending(sendQueue, t)
      PROVE  Numbering'
  <2>1. use[s] # "control" =>
          Flow(s, x, q, device[s].received, device[s].owes, Acked(toHost', s), Closed(s))
    BY <1>4, <1>5 DEF r, D
  <2> QED
    BY <1>0, <1>3, <1>4, <1>5, <2>1, NumberingAt
<1>9. CASE AppendRound(w)
  <2>1. PICK m, p, n, x : Appends(w, m, p, n, x)
    BY <1>9, AppendIs
  <2> DEFINE y == Flushed(s, x)
             q == FlushedQueue(s, x, sendQueue)
             a == stream[s].accepted
  <2>2. /\ m \in Pointers => use[s] = "control"
        /\ p \in PendingBefore(stream[s], m) /\ n \in Nat /\ x \in HostEnd
        /\ x.pending = p \o Bytes(a, n) /\ x.accepted = a + n
        /\ x.canWrite = stream[s].canWrite /\ x.closed = stream[s].closed
        /\ SetStream(s, y) /\ sendQueue' = q
    BY <2>1 DEF Appends, s
  <2>3. /\ \A t : t # s => Sending(q, t) = Sending(sendQueue, t)
        /\ Plain(q) /\ y.closed = stream[s].closed
    BY <1>0, <2>2, FlushApart
  <2>4. ASSUME use[s] # "control" PROVE Flow(s, y, q, r, D, K, Closed(s))
    <3>1. p = stream[s].pending
      BY <1>0, <2>2, <2>4, BeforeIs
    <3>2. Flow(s, x, sendQueue, r, D, K, Closed(s))
      BY <1>0, <1>2, <2>2, <2>4, <3>1, AcceptFlow
    <3> QED
      BY <1>0, <1>1, <2>2, <3>2, FlushFlow
  <2> HIDE DEF y, q
  <2> QED
    BY <1>5, <2>2, <2>3, <2>4
<1>12. CASE CheckRound(w)
  <2> DEFINE x == Flushed(s, stream[s])
             q == FlushedQueue(s, stream[s], sendQueue)
  <2>1. SetStream(s, x) /\ sendQueue' = q
    BY <1>12 DEF CheckRound, s
  <2>2. use[s] # "control" => Flow(s, x, q, r, D, K, Closed(s))
    BY <1>0, <1>1, <1>2, FlushFlow
  <2>3. /\ \A t : t # s => Sending(q, t) = Sending(sendQueue, t)
        /\ Plain(q) /\ x.closed = stream[s].closed
    BY <1>0, FlushApart
  <2> HIDE DEF x, q
  <2> QED
    BY <1>5, <2>1, <2>2, <2>3
<1>10. CASE FullRound(w)
  <2> DEFINE x == Flushed(s, stream[s])
             y == [x EXCEPT !.lock = NoOne]
             q == FlushedQueue(s, stream[s], sendQueue)
  <2>1. SetStream(s, y) /\ sendQueue' = q
    BY <1>10 DEF FullRound, LockWhileWaiting, s
  <2>2. x \in HostEnd
    BY <1>0, FlushedType
  <2>3. use[s] # "control" => Flow(s, x, q, r, D, K, Closed(s))
    BY <1>0, <1>1, <1>2, FlushFlow
  <2>4. /\ \A t : t # s => Sending(q, t) = Sending(sendQueue, t)
        /\ Plain(q) /\ x.closed = stream[s].closed
    BY <1>0, FlushApart
  <2> HIDE DEF x, q
  <2>5. /\ y.pending = x.pending /\ y.accepted = x.accepted /\ y.canWrite = x.canWrite
        /\ y.closed = x.closed
    BY <2>2 DEF HostEnd
  <2> HIDE DEF y
  <2>6. use[s] # "control" => Flow(s, y, q, r, D, K, Closed(s))
    BY <2>3, <2>5, FlowKept
  <2> QED
    BY <1>5, <2>1, <2>4, <2>5, <2>6
<1>11. CASE RawSend(w)
  <2> DEFINE n == Smaller(ChunkLimit, writer[w].left)
             a == stream[s].accepted
             m == Wrte(s, Bytes(a, n))
             y == [stream[s] EXCEPT !.canWrite = FALSE, !.accepted = @ + n]
             q == Enqueue(sendQueue, m)
  <2>1. /\ SetStream(s, y) /\ sendQueue' = q /\ ~Closed(s)
        /\ stream[s].canWrite /\ writer[w].at = "raw"
    BY <1>11 DEF RawSend, CreditAfterWrte, s
  <2>2. n \in Nat /\ a \in Nat
    BY <1>0, FlowAssumption DEF Smaller, WriterState, HostEnd
  <2>3. stream[s].pending = <<>> /\ use[s] # "control"
    BY <1>0, <2>1 DEF RawApart, Raw, s
  <2> HIDE DEF n, a
  <2>4. /\ Bytes(a, n) \in Seq(Nat) /\ Len(Bytes(a, n)) = n
        /\ Bytes(a + n, 0) = <<>>
    <3>1. a + n \in Nat /\ 0 \in Nat
      BY <2>2
    <3>2. Bytes(a + n, 0) \in Seq(Nat) /\ Len(Bytes(a + n, 0)) = 0
      BY <3>1, BytesAt
    <3> QED
      BY <2>2, <3>2, BytesAt, EmptySeq
  <2>5. m \in Messages /\ m.cmd = "WRTE" /\ m.stream = s /\ m.data = Bytes(a, n)
    BY <1>0, <2>4, MessageType DEF Wrte
  <2>6. Base(stream[s]) = a /\ a = Len(r) /\ Sending(sendQueue, s) = {} /\ ~D /\ K = {}
    <3>1. Len(stream[s].pending) = 0
      BY <2>3, EmptySeq
    <3>2. Base(stream[s]) = a
      BY <2>2, <3>1 DEF Base, a
    <3> QED
      BY <1>1, <1>2, <2>1, <2>3, <3>2 DEF Flow, Held, Exclusive, Sending
  <2>7. /\ y.canWrite = FALSE /\ y.pending = <<>> /\ y.accepted = a + n
        /\ y.closed = stream[s].closed
    BY <1>0, <2>3 DEF HostEnd, a
  <2> HIDE DEF m, y, q
  <2>8. /\ Sending(q, s) \subseteq {Bytes(a, n)}
        /\ \A t : t # s => Sending(q, t) = Sending(sendQueue, t)
        /\ Plain(q)
    BY <1>0, <2>5, <2>6, SendingEnqueue, PlainEnqueue DEF q
  <2>9. Flow(s, y, q, r, D, K, Closed(s))
    <3>1. Len(y.pending) = 0 /\ Base(y) = a + n
      BY <2>2, <2>7, EmptySeq DEF Base
    <3>2. ~Held(y.canWrite, D, K)
      BY <2>6, <2>7 DEF Held
    <3>3. \A d \in Sending(q, s) : d = Bytes(Len(r), Len(d)) /\ Base(y) = Len(r) + Len(d)
      BY <2>4, <2>6, <2>8, <3>1
    <3>4. Len(y.pending) <= y.accepted /\ y.pending = Bytes(Base(y), Len(y.pending))
      BY <2>2, <2>4, <2>7, <3>1
    <3> QED
      BY <3>2, <3>3, <3>4 DEF Flow
  <2> QED
    BY <1>5, <2>1, <2>7, <2>8, <2>9
<1> QED
  BY <1>9, <1>10, <1>11, <1>12 DEF Transfer

\* An OKAY gives the credit back, and the pending bytes are flushed.
LEMMA OkayFlow ==
  ASSUME TypeOK, CreditOnce, Numbering, Plain(sendQueue), HandleOkay
  PROVE  Numbering' /\ Plain(sendQueue')
<1> DEFINE s == First.stream
           x == [stream[s] EXCEPT !.canWrite = TRUE]
           r == device[s].received
           D == device[s].owes
           K == Acked(toHost, s)
           L == Acked(toHost', s)
           q == FlushedQueue(s, x, sendQueue)
<1>1. /\ Reads({"OKAY"}) /\ SetStream(s, Flushed(s, x)) /\ sendQueue' = q
      /\ UNCHANGED <<use, device, conn>> /\ First.cmd = "OKAY" /\ toHost' = Tail(toHost)
  BY DEF HandleOkay, Reads
<1>2. /\ s \in Streams /\ stream[s] \in HostEnd /\ sendQueue \in Seq(Messages)
      /\ D \in BOOLEAN /\ r \in Seq(Nat)
  BY <1>1, ReadsFlow DEF TypeOK, DeviceEnd
<1>3. K # {} /\ L = {}
  <2>1. toHost \in Seq(Messages) /\ toHost # <<>> /\ First = Head(toHost)
    BY <1>1 DEF Reads, First, TypeOK
  <2>2. \A i, j \in K : i = j
    BY <1>2 DEF CreditOnce, Exclusive
  <2> QED
    BY <1>1, <2>1, <2>2, SingleTail, AtTail DEF Acked
<1>4. Exclusive(stream[s].canWrite, Queued(sendQueue, s), D, K)
  BY <1>2 DEF CreditOnce
<1>5. use[s] # "control" => Flow(s, stream[s], sendQueue, r, D, K, Closed(s))
  BY <1>2 DEF Numbering
<1>6. \A t \in Streams : Acked(toHost', t) # {} => Acked(toHost, t) # {}
  BY <1>1, ReadsFlow
<1>7. /\ x \in HostEnd /\ x.canWrite = TRUE /\ x.pending = stream[s].pending
      /\ x.accepted = stream[s].accepted /\ x.closed = stream[s].closed
  BY <1>2 DEF HostEnd
<1> HIDE DEF s, x, r, D, K, L, q
<1>8. Exclusive(x.canWrite, Queued(sendQueue, s), D, L)
  BY <1>3, <1>4, <1>7 DEF Exclusive
<1>9. use[s] # "control" => Flow(s, x, sendQueue, r, D, L, Closed(s))
  <2>1. Held(stream[s].canWrite, D, K)
    BY <1>3 DEF Held
  <2> QED
    BY <1>5, <1>7, <2>1, FlowKept
<1>10. use[s] # "control" => Flow(s, Flushed(s, x), q, r, D, L, Closed(s))
  BY <1>2, <1>7, <1>8, <1>9, FlushFlow DEF q
<1>11. /\ \A t : t # s => Sending(q, t) = Sending(sendQueue, t)
       /\ Plain(q) /\ Flushed(s, x).closed = stream[s].closed
  BY <1>2, <1>7, FlushApart DEF q
<1>12. use[s] # "control" =>
         Flow(s, Flushed(s, x), q, device[s].received, device[s].owes, Acked(toHost', s), Closed(s))
  BY <1>10 DEF r, D, L
<1>13. Numbering'
  BY <1>1, <1>2, <1>6, <1>11, <1>12, NumberingAt
<1> QED
  BY <1>1, <1>11, <1>13

\* The send thread brings the bytes of a WRTE to the device.
LEMMA SendFlow ==
  ASSUME TypeOK, CreditOnce, Numbering, Plain(sendQueue), Send
  PROVE  Numbering' /\ Plain(sendQueue')
<1> DEFINE m == Head(sendQueue)
           s == m.stream
           d == [open |-> m.cmd # "CLSE", owes |-> device[s].owes \/ m.cmd = "WRTE",
                 credit |-> device[s].credit \/ m.cmd = "OKAY",
                 wrote |-> device[s].wrote, received |-> device[s].received \o m.data]
<1>0. /\ sendQueue \in Seq(Messages) /\ toHost \in Seq(Messages)
      /\ device \in [Streams -> DeviceEnd] /\ stream \in [Streams -> HostEnd]
  BY DEF TypeOK
<1>1. /\ sendQueue # <<>> /\ sendQueue' = Tail(sendQueue) /\ UNCHANGED <<use, stream, conn>>
      /\ \/ UNCHANGED <<device, toHost>>
         \/ device' = [device EXCEPT ![s] = d] /\ m.cmd = "CLSE" /\ toHost' = Append(toHost, m)
         \/ device' = [device EXCEPT ![s] = d] /\ toHost' = toHost
  BY DEF Send
<1>2. m \in Messages /\ s \in Streams /\ m.data \in Seq(Nat)
  <2>1. m \in Messages
    BY <1>0, <1>1, HeadTailProperties
  <2> QED
    BY <2>1 DEF Messages
<1>3. Plain(sendQueue') /\ (m.cmd = "WRTE" \/ m.data = <<>>)
  BY <1>0, <1>1, PlainTail
<1>4. /\ d.owes = (device[s].owes \/ m.cmd = "WRTE")
      /\ d.received = device[s].received \o m.data
  OBVIOUS
<1> SUFFICES ASSUME NEW t \in Streams, use[t] # "control"
             PROVE  /\ Received(device'[t].received)
                    /\ Flow(t, stream'[t], sendQueue', device'[t].received, device'[t].owes,
                            Acked(toHost', t), Closed(t)')
  BY <1>1, <1>3 DEF Numbering, Flow, Held, Base, Bytes, Sending, Queued, Acked, At, Received
<1>5. /\ Received(device[t].received)
      /\ Flow(t, stream[t], sendQueue, device[t].received, device[t].owes, Acked(toHost, t), Closed(t))
      /\ Exclusive(stream[t].canWrite, Queued(sendQueue, t), device[t].owes, Acked(toHost, t))
  BY DEF Numbering, CreditOnce
<1>6. Acked(toHost', t) = Acked(toHost, t)
  <2>1. m.cmd = "CLSE" => Acked(Append(toHost, m), t) = Acked(toHost, t)
    <3> HIDE DEF m
    <3> QED
      BY <1>0, <1>2, AckedAppend
  <2> HIDE DEF m, d
  <2> QED
    BY <1>1, <2>1
<1>7. Closed(t)' = Closed(t) /\ stream'[t] = stream[t]
  BY <1>1 DEF Closed
<1>8. /\ Sending(sendQueue', t) \subseteq Sending(sendQueue, t)
      /\ m.cmd = "WRTE" /\ s = t => m.data \in Sending(sendQueue, t) /\ Queued(sendQueue', t) = {}
                                    /\ Queued(sendQueue, t) # {}
  <2>1. \A i, j \in Queued(sendQueue, t) : i = j
    BY <1>5 DEF Exclusive
  <2>2. m.cmd = "WRTE" /\ s = t => Queued(Tail(sendQueue), t) = {} /\ 1 \in Queued(sendQueue, t)
    BY <1>0, <1>1, <2>1, SingleTail, AtTail DEF Queued
  <2>3. /\ Sending(Tail(sendQueue), t) \subseteq Sending(sendQueue, t)
        /\ m.cmd = "WRTE" /\ s = t => m.data \in Sending(sendQueue, t)
    BY <1>0, <1>1, SendingTail
  <2> HIDE DEF m, d
  <2> QED
    BY <1>1, <2>2, <2>3
<1> HIDE DEF m, s, d
<1>9. CASE device'[t].received = device[t].received /\ device'[t].owes = device[t].owes
  BY <1>5, <1>6, <1>7, <1>8, <1>9, FlowKept
<1>10. CASE t = s /\ device'[t] = d /\ m.cmd # "WRTE"
  <2>1. device'[t].received = device[t].received
    <3>1. device[t].received \in Seq(Nat)
      BY <1>0 DEF DeviceEnd
    <3> QED
      BY <1>3, <1>4, <1>10, <3>1, ConcatEmptySeq
  <2>2. device'[t].owes = device[t].owes
    <3>1. device[t].owes \in BOOLEAN
      BY <1>0 DEF DeviceEnd
    <3> QED
      BY <1>4, <1>10, <3>1
  <2> QED
    BY <1>9, <2>1, <2>2
<1>11. CASE t = s /\ device'[t] = d /\ m.cmd = "WRTE"
  <2> DEFINE r == device[t].received
             k == Len(r)
             n == Len(m.data)
  <2>1. k \in Nat /\ n \in Nat
    <3>1. device[t].received \in Seq(Nat)
      BY <1>0 DEF DeviceEnd
    <3> QED
      BY <1>2, <3>1, LenProperties
  <2>2. r = Bytes(0, k) /\ m.data = Bytes(k, n)
    BY <1>5, <1>8, <1>11 DEF Received, Flow
  <2>3. device'[t].received = r \o m.data
    BY <1>4, <1>11
  <2> HIDE DEF r, k, n
  <2>4. device'[t].received = Bytes(0, k + n)
    <3>1. 0 + k = k
      BY <2>1
    <3>2. Bytes(0, k) \o Bytes(0 + k, n) = Bytes(0, k + n)
      BY <2>1, BytesConcat
    <3> QED
      BY <2>2, <2>3, <3>1, <3>2
  <2>5. Len(device'[t].received) = k + n
    <3>1. k + n \in Nat /\ 0 \in Nat
      BY <2>1
    <3> QED
      BY <2>4, <3>1, BytesAt
  <2>6. Received(device'[t].received)
    BY <2>4, <2>5 DEF Received
  <2>7. ~Closed(t) => Base(stream[t]) = k + n
    BY <1>5, <1>8, <1>11 DEF Flow, k, n, r
  <2>8. Sending(sendQueue', t) = {}
    BY <1>8, <1>11 DEF Sending
  <2>9. Flow(t, stream[t], sendQueue', device'[t].received, device'[t].owes, Acked(toHost, t), Closed(t))
    BY <1>5, <2>5, <2>7, <2>8 DEF Flow
  <2> QED
    BY <1>6, <1>7, <2>6, <2>9
<1>12. \/ device'[t].received = device[t].received /\ device'[t].owes = device[t].owes
       \/ t = s /\ device'[t] = d
  BY <1>0, <1>1
<1> QED
  BY <1>9, <1>10, <1>11, <1>12

\* All other steps queue messages with no payload.
LEMMA QuietPlain ==
  ASSUME TypeOK, Plain(sendQueue), [Next]_vars,
         ~ \E w \in Writers : Transfer(w),
         ~Send, ~HandleOkay
  PROVE  Plain(sendQueue')
<1>0. sendQueue \in Seq(Messages)
  BY DEF TypeOK
<1>1. ASSUME NEW s \in Streams
      PROVE  Plain(Enqueue(sendQueue, Okay(s))) /\ Plain(Enqueue(sendQueue, Clse(s)))
  <2>1. Okay(s) \in Messages /\ Okay(s).data = <<>> /\ Clse(s) \in Messages /\ Clse(s).data = <<>>
    BY MessageType, EmptySeq DEF Okay, Clse
  <2> QED
    BY <1>0, <2>1, PlainEnqueue
<1>2. CASE sendQueue' = sendQueue
  BY <1>2
<1>3. CASE HandleStore
  <2>1. handle.stream \in Streams
    BY <1>3 DEF HandleStore, TypeOK, HandleState
  <2> QED
    BY <1>1, <1>3, <2>1 DEF HandleStore
<1>4. ASSUME NEW s \in Streams, CloseStream(s) PROVE Plain(sendQueue')
  BY <1>1, <1>4 DEF CloseStream
<1>5. CASE CloseJoinSend
  <2>1. sendQueue' = <<>>
    BY <1>5 DEF CloseJoinSend
  <2> QED
    BY <2>1 DEF Plain
<1>6. \/ sendQueue' = sendQueue \/ HandleStore \/ CloseJoinSend
      \/ \E s \in Streams : CloseStream(s)
  BY DEF Next, vars, StartWrite, StartRawWrite, Write, LockStream, ThrowRound, RawCheck, RawDoze,
         RawRetry, Transfer, Device, DeviceAcks, DeviceWrites, DeviceCloses, DeviceSends, Read,
         FinishCloseStream, CloseStreamMark, CloseStreamClear, SendExit, Handle, HandleLate,
         HandleWrte, HandleClse, HandleClear, HandleExit, CloseBegin, FinishClose, CloseMark,
         CloseJoinHandle
<1> QED
  BY <1>2, <1>3, <1>4, <1>5, <1>6

-----------------------------------------------------------------------------
(* Nothing stays pending on a closed stream.                               *)

\* The streams after a step that writes to stream s alone.
LEMMA SetStreamIs ==
  ASSUME TypeOK, NEW s \in Streams, NEW x, SetStream(s, x)
  PROVE  \A t \in Streams : stream'[t] = IF t = s THEN x ELSE stream[t]
  BY DEF TypeOK, SetStream

\* A writer stays in its own kind of write.
LEMMA RawWriters ==
  ASSUME TypeOK, RawApart, [Next]_vars
  PROVE  /\ use' = use
         /\ \A w \in Writers :
              /\ Raw(w) => writer'[w].at \notin {"lock", "round", "append"}
              /\ ~Raw(w) => writer'[w].at \notin {"check", "doze", "asleep", "raw"}
<1>0. writer \in [Writers -> WriterState]
  BY DEF TypeOK
<1>1. use' = use
  BY DEF Next, vars, Write, StartWrite, StartRawWrite, LockStream, CheckRound, AppendRound, FullRound, ThrowRound,
         RawCheck, RawDoze, RawRetry, RawSend, Device, DeviceAcks, DeviceWrites, DeviceCloses,
         DeviceSends, Read, CloseStream, FinishCloseStream, CloseStreamMark, CloseStreamClear,
         Send, SendExit, Handle, HandleLate, HandleOkay, HandleWrte, HandleStore, HandleClse,
         HandleClear, HandleExit, CloseBegin, FinishClose, CloseJoinSend, CloseMark, CloseJoinHandle
<1> SUFFICES ASSUME NEW v \in Writers
             PROVE  /\ Raw(v) => writer'[v].at \notin {"lock", "round", "append"}
                    /\ ~Raw(v) => writer'[v].at \notin {"check", "doze", "asleep", "raw"}
  BY <1>1
<1>2. /\ Raw(v) => writer[v].at \notin {"lock", "round", "append"}
      /\ ~Raw(v) => writer[v].at \notin {"check", "doze", "asleep", "raw"}
  BY DEF RawApart
<1>3. CASE UNCHANGED writer
  BY <1>2, <1>3
<1>4. CASE NotifyAll
  <2>1. writer'[v] = IF writer[v].at = "asleep" THEN [writer[v] EXCEPT !.at = "check"] ELSE writer[v]
    BY <1>0, <1>4 DEF NotifyAll
  <2> QED
    BY <1>0, <1>2, <2>1 DEF WriterState
<1>5. ASSUME NEW w \in Writers, NEW l, writer' = [writer EXCEPT ![w].at = l],
             Raw(w) => l \notin {"lock", "round", "append"}, ~Raw(w) => l \notin {"check", "doze", "asleep", "raw"}
      PROVE  /\ Raw(v) => writer'[v].at \notin {"lock", "round", "append"}
             /\ ~Raw(v) => writer'[v].at \notin {"check", "doze", "asleep", "raw"}
  <2>1. v # w => writer'[v] = writer[v]
    BY <1>0, <1>5
  <2>2. v = w => writer'[v].at = l
    BY <1>0, <1>5 DEF WriterState
  <2> QED
    BY <1>2, <1>5, <2>1, <2>2
<1>6. ASSUME NEW w \in Writers, NEW l, writer' = [writer EXCEPT ![w] = l],
             Raw(w) => l.at \notin {"lock", "round", "append"},
             ~Raw(w) => l.at \notin {"check", "doze", "asleep", "raw"}
      PROVE  /\ Raw(v) => writer'[v].at \notin {"lock", "round", "append"}
             /\ ~Raw(v) => writer'[v].at \notin {"check", "doze", "asleep", "raw"}
  <2>1. v # w => writer'[v] = writer[v]
    BY <1>0, <1>6
  <2>2. v = w => writer'[v] = l
    BY <1>0, <1>6
  <2> QED
    BY <1>2, <1>6, <2>1, <2>2
<1>7. ASSUME NEW w \in Writers, StartWrite(w) \/ StartRawWrite(w) \/ Write(w)
      PROVE  /\ Raw(v) => writer'[v].at \notin {"lock", "round", "append"}
             /\ ~Raw(v) => writer'[v].at \notin {"check", "doze", "asleep", "raw"}
  <2>0. /\ Raw(w) => writer[w].at \notin {"lock", "round", "append"}
        /\ ~Raw(w) => writer[w].at \notin {"check", "doze", "asleep", "raw"}
    BY DEF RawApart
  <2>1. CASE StartWrite(w)
    <3>1. ~Raw(w) /\ \E n : writer' = [writer EXCEPT ![w] = [at |-> "round", left |-> n]]
      BY <2>1 DEF StartWrite
    <3>2. PICK n : writer' = [writer EXCEPT ![w] = [at |-> "round", left |-> n]]
      BY <3>1
    <3>3. [at |-> "round", left |-> n].at = "round"
      OBVIOUS
    <3> QED
      BY <1>6, <3>1, <3>2, <3>3
  <2>2. CASE StartRawWrite(w)
    <3>1. Raw(w) /\ \E n : writer' = [writer EXCEPT ![w] = [at |-> "check", left |-> n]]
      BY <2>2 DEF StartRawWrite
    <3>2. PICK n : writer' = [writer EXCEPT ![w] = [at |-> "check", left |-> n]]
      BY <3>1
    <3>3. [at |-> "check", left |-> n].at = "check"
      OBVIOUS
    <3> QED
      BY <1>6, <3>1, <3>2, <3>3
  <2>3. CASE LockStream(w)
    BY <1>5, <2>0, <2>3 DEF LockStream, GoTo
  <2>11. CASE CheckRound(w)
    BY <1>5, <2>0, <2>11 DEF CheckRound, GoTo
  <2>4. CASE FullRound(w)
    BY <1>5, <2>0, <2>4 DEF FullRound, GoTo
  <2>5. CASE ThrowRound(w)
    BY <1>6, <2>5 DEF ThrowRound, Idle
  <2>6. CASE RawCheck(w)
    <3>1. PICK l \in {"raw", "doze"} : writer' = [writer EXCEPT ![w].at = l]
      BY <2>6 DEF RawCheck, GoTo
    <3>2. Raw(w)
      BY <2>0, <2>6 DEF RawCheck
    <3> QED
      BY <1>5, <3>1, <3>2
  <2>7. CASE RawDoze(w)
    <3>1. Raw(w) /\ writer' = [writer EXCEPT ![w].at = "asleep"]
      BY <2>0, <2>7 DEF RawDoze, GoTo
    <3>2. "asleep" \notin {"lock", "round", "append"}
      OBVIOUS
    <3>3. /\ Raw(w) => "asleep" \notin {"lock", "round", "append"}
          /\ ~Raw(w) => "asleep" \notin {"check", "doze", "asleep", "raw"}
      BY <3>1, <3>2
    <3> QED
      BY <1>5, <3>1, <3>3
  <2>8. CASE RawRetry(w)
    <3>1. Raw(w)
      BY <2>0, <2>8 DEF RawRetry
    <3>2. writer' = [writer EXCEPT ![w] = Idle] \/ writer' = [writer EXCEPT ![w].at = "check"]
      BY <2>8 DEF RawRetry, GoTo
    <3> QED
      BY <1>5, <1>6, <3>1, <3>2 DEF Idle
  <2>9. CASE AppendRound(w)
    <3>1. PICK n : writer' = [writer EXCEPT ![w] = IF n = @.left THEN Idle
                                                   ELSE [at |-> "round", left |-> @.left - n]]
      BY <2>9 DEF AppendRound
    <3>2. ~Raw(w)
      BY <2>0, <2>9 DEF AppendRound
    <3> DEFINE l == IF n = writer[w].left THEN Idle ELSE [at |-> "round", left |-> writer[w].left - n]
    <3>3. writer' = [writer EXCEPT ![w] = l] /\ l.at \in {"idle", "round"}
      BY <1>0, <3>1 DEF Idle
    <3> HIDE DEF l
    <3> QED
      BY <1>6, <3>2, <3>3
  <2>10. CASE RawSend(w)
    <3>1. PICK n : writer' = [writer EXCEPT ![w] = IF n = @.left THEN Idle
                                                   ELSE [at |-> "check", left |-> @.left - n]]
      BY <2>10 DEF RawSend
    <3>2. Raw(w)
      BY <2>0, <2>10 DEF RawSend
    <3> DEFINE l == IF n = writer[w].left THEN Idle ELSE [at |-> "check", left |-> writer[w].left - n]
    <3>3. writer' = [writer EXCEPT ![w] = l] /\ l.at \in {"idle", "check"}
      BY <1>0, <3>1 DEF Idle
    <3> HIDE DEF l
    <3> QED
      BY <1>6, <3>2, <3>3
  <2> QED
    BY <1>7, <2>1, <2>2, <2>3, <2>4, <2>5, <2>6, <2>7, <2>8, <2>9, <2>10, <2>11 DEF Write
<1>8. \/ UNCHANGED writer \/ NotifyAll
      \/ \E w \in Writers : StartWrite(w) \/ StartRawWrite(w) \/ Write(w)
  BY DEF Next, vars, Device, DeviceAcks, DeviceWrites, DeviceCloses,
         DeviceSends, Read, CloseStream, FinishCloseStream, CloseStreamMark, CloseStreamClear,
         Send, SendExit, Handle, HandleLate, HandleOkay, HandleWrte, HandleStore, HandleClse,
         HandleClear, HandleExit, CloseBegin, FinishClose, CloseJoinSend, CloseMark, CloseJoinHandle
<1> QED
  BY <1>3, <1>4, <1>7, <1>8

\* A writer of s is between the checks of a turn and the rest of it.
Appending(s) == \E w \in Writers : StreamOf[w] = s /\ writer[w].at = "append"

\* What the pending bytes, and what decides whether they are to be dropped, become.
LEMMA Active ==
  ASSUME TypeOK, Locked, (\E w \in Writers : Transfer(w)) \/ Send \/ HandleOkay
  PROVE  /\ UNCHANGED <<handle, conn>>
         /\ \A s \in Streams :
              /\ stream'[s].closed = stream[s].closed /\ stream'[s].closer = stream[s].closer
              /\ \/ stream[s].pending = <<>> => stream'[s].pending = <<>>
                 \/ Appending(s)
<1> SUFFICES ASSUME NEW t \in Streams
             PROVE  /\ UNCHANGED <<handle, conn>>
                    /\ stream'[t].closed = stream[t].closed /\ stream'[t].closer = stream[t].closer
                    /\ \/ stream[t].pending = <<>> => stream'[t].pending = <<>>
                       \/ Appending(t)
  BY DEF Send, HandleOkay, Transfer, CheckRound, AppendRound, FullRound, RawSend
<1>0. UNCHANGED <<handle, conn>>
  BY DEF Send, HandleOkay, Transfer, CheckRound, AppendRound, FullRound, RawSend
<1>1. CASE Send
  BY <1>0, <1>1 DEF Send
<1>2. ASSUME NEW s \in Streams, NEW x \in HostEnd, x.pending = stream[s].pending,
             x.closed = stream[s].closed, x.closer = stream[s].closer,
             NEW y, y.pending = Flushed(s, x).pending, y.closed = Flushed(s, x).closed,
             y.closer = Flushed(s, x).closer, SetStream(s, y)
      PROVE  /\ stream'[t].closed = stream[t].closed /\ stream'[t].closer = stream[t].closer
             /\ stream[t].pending = <<>> => stream'[t].pending = <<>>
  <2>1. /\ y.closed = stream[s].closed /\ y.closer = stream[s].closer
        /\ stream[s].pending = <<>> => y.pending = <<>>
    <3>1. <<>> \in Seq(Messages)
      BY EmptySeq
    <3> QED
      BY <1>2, <3>1, FlushApart
  <2>2. stream'[t] = IF t = s THEN y ELSE stream[t]
    BY <1>2, SetStreamIs
  <2> QED
    BY <2>1, <2>2
<1>3. CASE HandleOkay
  <2> DEFINE s == First.stream
             x == [stream[s] EXCEPT !.canWrite = TRUE]
  <2>1. s \in Streams /\ stream[s] \in HostEnd /\ SetStream(s, Flushed(s, x))
    BY <1>3, ReadsFlow DEF HandleOkay, TypeOK
  <2> HIDE DEF s
  <2>2. /\ x \in HostEnd /\ x.pending = stream[s].pending
        /\ x.closed = stream[s].closed /\ x.closer = stream[s].closer
    BY <2>1 DEF HostEnd
  <2> HIDE DEF x
  <2> QED
    BY <1>0, <1>2, <2>1, <2>2
<1>4. ASSUME NEW w \in Writers, FullRound(w)
      PROVE  /\ stream'[t].closed = stream[t].closed /\ stream'[t].closer = stream[t].closer
             /\ stream[t].pending = <<>> => stream'[t].pending = <<>>
  <2> DEFINE s == StreamOf[w]
             x == stream[s]
             z == Flushed(s, x)
             y == [z EXCEPT !.lock = NoOne]
  <2>1. s \in Streams /\ x \in HostEnd /\ SetStream(s, y)
    BY <1>4, FlowAssumption DEF FullRound, LockWhileWaiting, TypeOK
  <2>2. z \in HostEnd
    BY <2>1, FlushedType
  <2> HIDE DEF s, z
  <2>3. y.pending = z.pending /\ y.closed = z.closed /\ y.closer = z.closer
    BY <2>2 DEF HostEnd
  <2> HIDE DEF y
  <2> QED
    BY <1>2, <2>1, <2>3 DEF z
<1>5. ASSUME NEW w \in Writers, RawSend(w)
      PROVE  /\ stream'[t].closed = stream[t].closed /\ stream'[t].closer = stream[t].closer
             /\ stream[t].pending = <<>> => stream'[t].pending = <<>>
  <2> DEFINE s == StreamOf[w]
  <2>1. PICK n : SetStream(s, [stream[s] EXCEPT !.canWrite = FALSE, !.accepted = @ + n])
    BY <1>5 DEF RawSend, CreditAfterWrte
  <2> DEFINE y == [stream[s] EXCEPT !.canWrite = FALSE, !.accepted = @ + n]
  <2>2. s \in Streams /\ stream[s] \in HostEnd
    BY FlowAssumption DEF TypeOK
  <2> HIDE DEF s
  <2>3. y.pending = stream[s].pending /\ y.closed = stream[s].closed /\ y.closer = stream[s].closer
    BY <2>2 DEF HostEnd
  <2>4. stream'[t] = IF t = s THEN y ELSE stream[t]
    BY <2>1, <2>2, SetStreamIs
  <2> QED
    BY <2>3, <2>4
<1>6. ASSUME NEW w \in Writers, AppendRound(w)
      PROVE  /\ stream'[t].closed = stream[t].closed /\ stream'[t].closer = stream[t].closer
             /\ t # StreamOf[w] => stream'[t].pending = stream[t].pending
             /\ writer[w].at = "append"
  <2> DEFINE s == StreamOf[w]
  <2>1. PICK m, p, n, x : Appends(w, m, p, n, x)
    BY <1>6, AppendIs
  <2>2. /\ s \in Streams /\ x \in HostEnd /\ SetStream(s, Flushed(s, x))
        /\ x.closed = stream[s].closed /\ x.closer = stream[s].closer
    BY <2>1, FlowAssumption DEF Appends
  <2>3. Flushed(s, x).closed = x.closed /\ Flushed(s, x).closer = x.closer
    BY <2>2, FlushedIs
  <2>4. stream'[t] = IF t = s THEN Flushed(s, x) ELSE stream[t]
    BY <2>2, SetStreamIs
  <2>5. writer[w].at = "append"
    BY <1>6, AppendIs
  <2> QED
    BY <2>2, <2>3, <2>4, <2>5 DEF s
<1>7. ASSUME NEW w \in Writers, CheckRound(w)
      PROVE  /\ stream'[t].closed = stream[t].closed /\ stream'[t].closer = stream[t].closer
             /\ stream[t].pending = <<>> => stream'[t].pending = <<>>
  <2> DEFINE s == StreamOf[w]
  <2>1. s \in Streams /\ stream[s] \in HostEnd /\ SetStream(s, Flushed(s, stream[s]))
    BY <1>7, FlowAssumption DEF CheckRound, TypeOK
  <2> HIDE DEF s
  <2> QED
    BY <1>2, <2>1
<1> QED
  BY <1>0, <1>1, <1>3, <1>4, <1>5, <1>6, <1>7 DEF Transfer, Appending

\* What is closed is being cleared, or has been and is empty.
Settled(s) ==
  /\ stream[s].closed /\ ~conn.closed
  /\ stream[s].closer \notin {"mark", "clear"} /\ handle # [at |-> "clear", stream |-> s]

\* And no writer is about to put bytes there.
Drained == \A s \in Streams : Settled(s) => stream[s].pending = <<>> /\ ~Appending(s)
ClosingInv == Clearing /\ Drained

\* Who enters a turn's second half finds the stream open.
LEMMA AppendingSame ==
  ASSUME TypeOK, NEW s \in Streams, [Next]_vars, Appending(s)'
  PROVE  Appending(s) \/ ~Closed(s)
<1>0. writer \in [Writers -> WriterState]
  BY DEF TypeOK
<1>1. PICK v \in Writers : StreamOf[v] = s /\ writer'[v].at = "append"
  BY DEF Appending
<1>2. CASE UNCHANGED writer
  BY <1>1, <1>2 DEF Appending
<1>3. CASE NotifyAll
  <2>1. writer'[v] = IF writer[v].at = "asleep" THEN [writer[v] EXCEPT !.at = "check"] ELSE writer[v]
    BY <1>0, <1>3 DEF NotifyAll
  <2>2. writer[v].at = "append"
    BY <1>0, <1>1, <2>1 DEF WriterState
  <2> QED
    BY <1>1, <2>2 DEF Appending
<1>4. ASSUME NEW w \in Writers, CheckRound(w) PROVE Appending(s) \/ ~Closed(s)
  <2>1. CASE w = v
    BY <1>1, <1>4, <2>1 DEF CheckRound
  <2>2. CASE w # v
    <3>1. writer'[v] = writer[v]
      BY <1>0, <1>4, <2>2 DEF CheckRound, GoTo
    <3> QED
      BY <1>1, <3>1 DEF Appending
  <2> QED
    BY <2>1, <2>2
<1>5. ASSUME NEW w \in Writers, NEW r, writer' = [writer EXCEPT ![w] = r], r.at # "append"
      PROVE  Appending(s)
  <2>1. v # w => writer'[v] = writer[v]
    BY <1>0, <1>5
  <2>2. v # w
    BY <1>0, <1>1, <1>5
  <2> QED
    BY <1>1, <2>1, <2>2 DEF Appending
<1>6. ASSUME NEW w \in Writers, NEW l, GoTo(w, l), l # "append" PROVE Appending(s)
  <2>1. [writer[w] EXCEPT !.at = l].at = l
    BY <1>0 DEF WriterState
  <2>2. writer' = [writer EXCEPT ![w] = [writer[w] EXCEPT !.at = l]]
    BY <1>6 DEF GoTo
  <2> QED
    BY <1>5, <1>6, <2>1, <2>2
<1>7. ASSUME NEW w \in Writers, StartWrite(w) \/ StartRawWrite(w) \/ Write(w), ~CheckRound(w)
      PROVE  Appending(s)
  <2>1. CASE LockStream(w) \/ FullRound(w) \/ RawCheck(w) \/ RawDoze(w)
    BY <1>6, <2>1 DEF LockStream, FullRound, RawCheck, RawDoze
  <2>2. CASE RawRetry(w) \/ ThrowRound(w)
    <3>1. Idle.at # "append"
      BY DEF Idle
    <3>2. GoTo(w, "check") \/ writer' = [writer EXCEPT ![w] = Idle]
      BY <2>2 DEF RawRetry, ThrowRound
    <3> QED
      BY <1>5, <1>6, <3>1, <3>2
  <2>3. CASE StartWrite(w) \/ StartRawWrite(w)
    <3>1. PICK l, n : l \in {"round", "check"} /\ writer' = [writer EXCEPT ![w] = [at |-> l, left |-> n]]
      BY <2>3 DEF StartWrite, StartRawWrite
    <3>2. [at |-> l, left |-> n].at # "append"
      BY <3>1
    <3> QED
      BY <1>5, <3>1, <3>2
  <2>4. CASE AppendRound(w) \/ RawSend(w)
    <3>0. PICK l \in {"round", "check"} : \E n :
             writer' = [writer EXCEPT ![w] = IF n = @.left THEN Idle ELSE [at |-> l, left |-> @.left - n]]
      BY <2>4 DEF AppendRound, RawSend
    <3>1. PICK n :
             writer' = [writer EXCEPT ![w] = IF n = @.left THEN Idle ELSE [at |-> l, left |-> @.left - n]]
      BY <3>0
    <3> DEFINE r == IF n = writer[w].left THEN Idle ELSE [at |-> l, left |-> writer[w].left - n]
    <3>2. writer' = [writer EXCEPT ![w] = r] /\ r.at # "append"
      BY <1>0, <3>1 DEF Idle
    <3> HIDE DEF r
    <3> QED
      BY <1>5, <3>2
  <2> QED
    BY <1>7, <2>1, <2>2, <2>3, <2>4 DEF Write
<1>8. \/ UNCHANGED writer \/ NotifyAll
      \/ \E w \in Writers : StartWrite(w) \/ StartRawWrite(w) \/ Write(w)
  BY DEF Next, vars, Device, DeviceAcks, DeviceWrites, DeviceCloses,
         DeviceSends, Read, CloseStream, FinishCloseStream, CloseStreamMark, CloseStreamClear,
         Send, SendExit, Handle, HandleLate, HandleOkay, HandleWrte, HandleStore, HandleClse,
         HandleClear, HandleExit, CloseBegin, FinishClose, CloseJoinSend, CloseMark, CloseJoinHandle
<1> QED
  BY <1>2, <1>3, <1>4, <1>7, <1>8

\* A step that closes nothing.
LEMMA ClosingKept ==
  ASSUME TypeOK, ClosingInv, [Next]_vars, UNCHANGED <<handle, conn>>,
         \A s \in Streams : /\ stream'[s].closed = stream[s].closed
                            /\ stream'[s].closer = stream[s].closer
                            /\ Settled(s) /\ ~Appending(s) /\ stream[s].pending = <<>>
                                 => stream'[s].pending = <<>>
  PROVE  ClosingInv'
<1>1. ASSUME NEW s \in Streams, Settled(s)' PROVE stream'[s].pending = <<>> /\ ~Appending(s)'
  <2>1. Settled(s)
    BY <1>1 DEF Settled
  <2>2. Closed(s)
    BY <2>1 DEF Settled, Closed
  <2> QED
    BY <2>1, <2>2, <1>1, AppendingSame DEF ClosingInv, Drained
<1>2. Clearing'
  <2>1. handle.at = "clear" => handle.stream \in Streams
    BY DEF TypeOK, HandleState
  <2> QED
    BY <2>1 DEF Clearing, ClosingInv
<1> QED
  BY <1>1, <1>2 DEF ClosingInv, Drained

\* Every step.
LEMMA ClosingStep ==
  ASSUME TypeOK, Locked, ClosingInv, [Next]_vars
  PROVE  ClosingInv'
<1>0. /\ stream \in [Streams -> HostEnd] /\ handle \in HandleState /\ conn \in ConnState
      /\ Clearing /\ Drained
  BY DEF TypeOK, ClosingInv
<1>a. ASSUME NEW s \in Streams,
             \/ Settled(s) /\ stream'[s].pending = stream[s].pending
             \/ Closed(s) /\ ~Appending(s) /\ stream'[s].pending = <<>>
      PROVE  stream'[s].pending = <<>> /\ ~Appending(s)'
  <2>1. stream'[s].pending = <<>> /\ ~Appending(s) /\ Closed(s)
    BY <1>0, <1>a DEF Drained, Settled, Closed
  <2> QED
    BY <2>1, AppendingSame
<1>b. ASSUME NEW s \in Streams, MayClear(s) PROVE ~Appending(s)
  BY <1>b, FlowAssumption DEF MayClear, Appending, Locked
<1>1. CASE (\E w \in Writers : Transfer(w)) \/ Send \/ HandleOkay
  <2>1. /\ UNCHANGED <<handle, conn>>
        /\ \A s \in Streams :
             /\ stream'[s].closed = stream[s].closed /\ stream'[s].closer = stream[s].closer
             /\ \/ stream[s].pending = <<>> => stream'[s].pending = <<>>
                \/ Appending(s)
    BY <1>1, Active
  <2> QED
    BY <2>1, ClosingKept
<1>2. CASE UNCHANGED <<stream, handle, conn>>
  BY <1>2, ClosingKept
<1>3. ASSUME NEW s \in Streams, NEW x, SetStream(s, x), x.closed = stream[s].closed,
             x.closer = stream[s].closer, x.pending = stream[s].pending, UNCHANGED <<handle, conn>>
      PROVE  ClosingInv'
  <2>1. \A t \in Streams : stream'[t] = IF t = s THEN x ELSE stream[t]
    BY <1>3, SetStreamIs
  <2> QED
    BY <1>3, <2>1, ClosingKept
<1>4. ASSUME NEW w \in Writers, StartWrite(w) \/ LockStream(w) \/ ThrowRound(w)
      PROVE  ClosingInv'
  <2>1. StreamOf[w] \in Streams
    BY FlowAssumption
  <2>2. PICK l : SetStream(StreamOf[w], [stream[StreamOf[w]] EXCEPT !.lock = l])
    BY <1>4 DEF StartWrite, LockStream, ThrowRound
  <2>3. UNCHANGED <<handle, conn>>
    BY <1>4 DEF StartWrite, LockStream, ThrowRound
  <2> QED
    BY <1>0, <1>3, <2>1, <2>2, <2>3 DEF HostEnd
<1>5. ASSUME NEW s \in Streams, Read(s) PROVE ClosingInv'
  <2>1. SetStream(s, [stream[s] EXCEPT !.ring = @ - 1]) /\ UNCHANGED <<handle, conn>>
    BY <1>5 DEF Read
  <2> QED
    BY <1>0, <1>3, <2>1 DEF HostEnd
<1>6. CASE HandleWrte \/ HandleExit
  <2>1. UNCHANGED <<stream, conn>> /\ handle.at = "read" /\ handle'.at \in {"store", "exited"}
    BY <1>0, <1>6 DEF HandleWrte, HandleExit, Reads, HandleState
  <2>2. \A s \in Streams : handle # [at |-> "clear", stream |-> s]
    BY <2>1
  <2>3. Drained'
    BY <1>a, <2>1, <2>2 DEF Drained, Settled
  <2> QED
    BY <1>0, <2>1, <2>3 DEF ClosingInv, Clearing
<1>7. CASE HandleStore
  <2> DEFINE s == handle.stream
  <2>1. PICK x \in {stream[s], [stream[s] EXCEPT !.ring = @ + 1]} : SetStream(s, x)
    BY <1>7 DEF HandleStore
  <2>2. /\ s \in Streams /\ handle.at = "store" /\ handle'.at = "read" /\ UNCHANGED conn
    BY <1>0, <1>7 DEF HandleStore, HandleState, Reading
  <2>3. x.closed = stream[s].closed /\ x.closer = stream[s].closer /\ x.pending = stream[s].pending
    BY <1>0, <2>1, <2>2 DEF HostEnd
  <2>4. \A t \in Streams : stream'[t] = IF t = s THEN x ELSE stream[t]
    BY <2>1, <2>2, SetStreamIs
  <2>5. \A t \in Streams : /\ stream'[t].closed = stream[t].closed
                           /\ stream'[t].closer = stream[t].closer
                           /\ stream'[t].pending = stream[t].pending
    BY <2>3, <2>4
  <2>6. \A t \in Streams : handle # [at |-> "clear", stream |-> t]
    BY <2>2
  <2>7. Drained'
    BY <1>a, <2>2, <2>5, <2>6 DEF Drained, Settled
  <2> QED
    BY <1>0, <2>2, <2>5, <2>7 DEF ClosingInv, Clearing
<1>8. CASE HandleClse
  <2> DEFINE s == First.stream
             x == [stream[s] EXCEPT !.closed = TRUE]
  <2>1. /\ s \in Streams /\ SetStream(s, x) /\ UNCHANGED conn
        /\ handle.at = "read" /\ handle' = [at |-> "clear", stream |-> s]
    BY <1>8, ReadsFlow DEF HandleClse, Reads
  <2> HIDE DEF s
  <2>2. x.closed = TRUE /\ x.closer = stream[s].closer /\ x.pending = stream[s].pending
    BY <1>0, <2>1 DEF HostEnd
  <2> HIDE DEF x
  <2>3. \A t \in Streams : stream'[t] = IF t = s THEN x ELSE stream[t]
    BY <2>1, SetStreamIs
  <2>4. \A t \in Streams : handle # [at |-> "clear", stream |-> t]
    BY <2>1
  <2>5. Drained'
    <3> SUFFICES ASSUME NEW t \in Streams, Settled(t)'
                 PROVE  stream'[t].pending = <<>> /\ ~Appending(t)'
      BY DEF Drained
    <3>1. t # s
      BY <2>1 DEF Settled
    <3>2. stream'[t] = stream[t]
      BY <2>3, <3>1
    <3>3. Settled(t)
      BY <2>1, <2>4, <3>2 DEF Settled
    <3> QED
      BY <1>a, <3>2, <3>3
  <2>6. Clearing'
    BY <1>0, <2>1, <2>2, <2>3 DEF Clearing
  <2> QED
    BY <2>5, <2>6 DEF ClosingInv
<1>9. CASE HandleClear
  <2> DEFINE s == handle.stream
             x == [Cleared(stream[s]) EXCEPT !.listed = FALSE]
  <2>1. /\ s \in Streams /\ SetStream(s, x) /\ UNCHANGED conn
        /\ handle.at = "clear" /\ handle'.at = "read" /\ MayClear(s)
    BY <1>0, <1>9 DEF HandleClear, HandleState, Reading
  <2>2. x.closed = stream[s].closed /\ x.closer = stream[s].closer /\ x.pending = <<>>
    BY <1>0, <2>1 DEF Cleared, HostEnd
  <2> HIDE DEF x
  <2>3. \A t \in Streams : stream'[t] = IF t = s THEN x ELSE stream[t]
    BY <2>1, SetStreamIs
  <2>4. \A t \in Streams : t # s => handle # [at |-> "clear", stream |-> t]
    OBVIOUS
  <2>7. stream[s].closed
    BY <1>0, <2>1 DEF Clearing
  <2> HIDE DEF s
  <2>5. Drained'
    <3> SUFFICES ASSUME NEW t \in Streams, Settled(t)'
                 PROVE  stream'[t].pending = <<>> /\ ~Appending(t)'
      BY DEF Drained
    <3>1. CASE t = s
      <4>1. Closed(s) /\ ~Appending(s) /\ stream'[s].pending = <<>>
        BY <1>b, <2>1, <2>2, <2>3, <2>7 DEF Closed
      <4> QED
        BY <1>a, <2>1, <3>1, <4>1
    <3>2. CASE t # s
      <4>1. Settled(t) /\ stream'[t].pending = stream[t].pending
        BY <2>1, <2>3, <2>4, <3>2 DEF Settled
      <4> QED
        BY <1>a, <4>1
    <3> QED
      BY <3>1, <3>2
  <2>6. Clearing'
    BY <1>0, <2>1, <2>2, <2>3 DEF Clearing
  <2> QED
    BY <2>5, <2>6 DEF ClosingInv
<1>10. ASSUME NEW s \in Streams, NEW x, SetStream(s, x), UNCHANGED <<handle, conn>>,
              stream[s].closed => x.closed, x.closer = "clear" => x.closed,
              x.closer \notin {"mark", "clear"} =>
                x.pending = <<>> /\ stream[s].closed /\ ~Appending(s)
       PROVE  ClosingInv'
  <2>1. \A t \in Streams : stream'[t] = IF t = s THEN x ELSE stream[t]
    BY <1>10, SetStreamIs
  <2>2. Drained'
    <3> SUFFICES ASSUME NEW t \in Streams, Settled(t)'
                 PROVE  stream'[t].pending = <<>> /\ ~Appending(t)'
      BY DEF Drained
    <3>1. CASE t = s
      <4>1. Closed(s) /\ ~Appending(s) /\ stream'[s].pending = <<>>
        BY <1>10, <2>1, <3>1 DEF Closed, Settled
      <4> QED
        BY <1>a, <3>1, <4>1
    <3>2. CASE t # s
      <4>1. Settled(t) /\ stream'[t].pending = stream[t].pending
        BY <1>10, <2>1, <3>2 DEF Settled
      <4> QED
        BY <1>a, <4>1
    <3> QED
      BY <3>1, <3>2
  <2>3. Clearing'
    <3>1. handle.at = "clear" => handle.stream \in Streams
      BY <1>0 DEF HandleState
    <3> QED
      BY <1>0, <1>10, <2>1, <3>1 DEF Clearing
  <2> QED
    BY <2>2, <2>3 DEF ClosingInv
<1>11. ASSUME NEW s \in Streams, CloseStream(s) PROVE ClosingInv'
  <2> DEFINE x == [stream[s] EXCEPT !.listed = FALSE, !.closer = "mark"]
  <2>1. SetStream(s, x) /\ UNCHANGED <<handle, conn>>
    BY <1>11 DEF CloseStream
  <2>2. x.closed = stream[s].closed /\ x.closer = "mark"
    BY <1>0 DEF HostEnd
  <2> HIDE DEF x
  <2> QED
    BY <1>10, <2>1, <2>2
<1>12. ASSUME NEW s \in Streams, CloseStreamMark(s) PROVE ClosingInv'
  <2> DEFINE x == [stream[s] EXCEPT !.closed = TRUE, !.closer = "clear"]
  <2>1. SetStream(s, x) /\ UNCHANGED <<handle, conn>>
    BY <1>12 DEF CloseStreamMark
  <2>2. x.closed = TRUE /\ x.closer = "clear"
    BY <1>0 DEF HostEnd
  <2> HIDE DEF x
  <2> QED
    BY <1>10, <2>1, <2>2
<1>13. ASSUME NEW s \in Streams, CloseStreamClear(s) PROVE ClosingInv'
  <2> DEFINE x == [Cleared(stream[s]) EXCEPT !.closer = "done"]
  <2>1. SetStream(s, x) /\ UNCHANGED <<handle, conn>> /\ stream[s].closed /\ ~Appending(s)
    BY <1>0, <1>13, <1>b DEF CloseStreamClear, Clearing
  <2>2. x.closed = stream[s].closed /\ x.closer = "done" /\ x.pending = <<>>
    BY <1>0 DEF Cleared, HostEnd
  <2> HIDE DEF x
  <2> QED
    BY <1>10, <2>1, <2>2
<1>14. ASSUME NEW c \in Closers, CloseBegin(c) PROVE ClosingInv'
  <2>1. UNCHANGED stream /\ conn'.closed = TRUE
    BY <1>0, <1>14 DEF CloseBegin, ConnState
  <2>2. handle' = handle \/ handle'.at = "closing"
    BY <1>0, <1>14 DEF CloseBegin, HandleState
  <2> QED
    BY <1>0, <2>1, <2>2 DEF ClosingInv, Clearing, Drained, Settled
<1>15. CASE FinishClose
  <2>1. conn.at # "open" /\ conn'.closed = conn.closed /\ UNCHANGED handle
    BY <1>0, <1>15 DEF FinishClose, CloseJoinSend, CloseMark, CloseJoinHandle, ConnState
  <2>2. conn'.closed
    BY <1>0, <2>1 DEF Clearing
  <2>3. \A s \in Streams : stream[s].closed => stream'[s].closed
    BY <1>0, <1>15 DEF FinishClose, CloseJoinSend, CloseMark, CloseJoinHandle, HostEnd
  <2>4. \A s \in Streams : stream'[s].closer = stream[s].closer
    BY <1>0, <1>15 DEF FinishClose, CloseJoinSend, CloseMark, CloseJoinHandle, HostEnd
  <2>5. handle.at = "clear" => handle.stream \in Streams
    BY <1>0 DEF HandleState
  <2> QED
    BY <1>0, <2>1, <2>2, <2>3, <2>4, <2>5 DEF ClosingInv, Clearing, Drained, Settled
<1>16. CASE SendExit
  <2>1. UNCHANGED <<stream, handle>> /\ conn'.closed = conn.closed /\ conn'.at = conn.at
    BY <1>0, <1>16 DEF SendExit, ConnState
  <2>2. Drained'
    BY <1>a, <2>1 DEF Drained, Settled
  <2> QED
    BY <1>0, <2>1, <2>2 DEF ClosingInv, Clearing
<1>17. ASSUME NEW w \in Writers, StartRawWrite(w) \/ RawCheck(w) \/ RawDoze(w) \/ RawRetry(w)
       PROVE  ClosingInv'
  BY <1>2, <1>17 DEF StartRawWrite, RawCheck, RawDoze, RawRetry
<1>18. ASSUME NEW s \in Streams, Device(s) PROVE ClosingInv'
  BY <1>2, <1>18 DEF Device, DeviceAcks, DeviceWrites, DeviceCloses, DeviceSends
<1>19. CASE HandleLate
  BY <1>2, <1>19 DEF HandleLate
<1>20. CASE UNCHANGED vars
  BY <1>2, <1>20 DEF vars
<1> QED
  BY <1>1, <1>4, <1>5, <1>6, <1>7, <1>8, <1>9, <1>11, <1>12, <1>13, <1>14, <1>15, <1>16, <1>17,
     <1>18, <1>19, <1>20 DEF Next, Write, Transfer, Handle, FinishCloseStream

\* The pending bytes of a sync stream stay empty.
LEMMA RawStep ==
  ASSUME TypeOK, Locked, Clearing, RawApart, [Next]_vars
  PROVE  RawApart'
<1>1. /\ use' = use
      /\ \A w \in Writers :
           /\ Raw(w) => writer'[w].at \notin {"lock", "round", "append"}
           /\ ~Raw(w) => writer'[w].at \notin {"check", "doze", "asleep", "raw"}
  BY RawWriters
<1>2. ASSUME NEW s \in Streams, use[s] = "sync" PROVE stream'[s].pending = <<>>
  <2>1. s \in Streams /\ stream[s].pending = <<>>
    BY <1>2 DEF RawApart
  <2>2. CASE \A t \in Streams : Quiet(t)
    BY <2>1, <2>2 DEF Quiet
  <2>3. CASE (\E w \in Writers : Transfer(w)) \/ Send \/ HandleOkay
    <3>1. ~Appending(s)
      BY <1>2 DEF Appending, RawApart, Raw
    <3> QED
      BY <2>1, <2>3, <3>1, Active
  <2> QED
    BY <2>2, <2>3, QuietOrNot
<1> QED
  BY <1>1, <1>2 DEF RawApart, Raw

-----------------------------------------------------------------------------
(* The order of the messages of a control stream.                          *)

\* Only accepted messages are moves, each of one pointer.
Named(x) ==
  \A k \in Nat, f, g \in Pointers :
    <<k, f>> \in x.moves => k \in 1..x.accepted /\ (<<k, g>> \in x.moves => f = g)
\* The messages of q are accepted ones, in an order that is allowed.
Ranked(x, q) ==
  /\ \A i \in DOMAIN q : q[i] \in 1..x.accepted
  /\ \A i, j \in DOMAIN q : i < j => Precedes(x, q[i], q[j])
\* Those of q may come before those of p.
Ahead(x, q, p) == \A i \in DOMAIN q, j \in DOMAIN p : Precedes(x, q[i], p[j])
\* A message that is not a move is pending, or what is pending was accepted after it.
Unpassed(x) ==
  \A k \in 1..x.accepted : ~IsMove(x, k) =>
    \/ \E i \in DOMAIN x.pending : x.pending[i] = k
    \/ \A i \in DOMAIN x.pending : k < x.pending[i]

\* A stream x of which the device has received r, with the WRTEs D under way.
Line(x, D, r) ==
  /\ Named(x) /\ Unpassed(x)
  /\ Ranked(x, r) /\ Ranked(x, x.pending) /\ Ahead(x, r, x.pending)
  /\ \A d \in D : Ranked(x, d) /\ Ahead(x, r, d) /\ Ahead(x, d, x.pending)

\* Pointers: of one pointer are one another's moves only.
LEMMA OfOne ==
  ASSUME NEW x \in HostEnd, Named(x), NEW a \in Nat, NEW b \in Nat, NEW c \in Nat
  PROVE  /\ SamePointer(x, a, b) => SamePointer(x, b, a) /\ IsMove(x, a) /\ IsMove(x, b)
         /\ SamePointer(x, a, b) /\ SamePointer(x, b, c) => SamePointer(x, a, c)
<1>1. SamePointer(x, a, b) => SamePointer(x, b, a) /\ IsMove(x, a) /\ IsMove(x, b)
  BY DEF SamePointer, IsMove
<1>2. ASSUME SamePointer(x, a, b), SamePointer(x, b, c) PROVE SamePointer(x, a, c)
  <2>1. PICK f \in Pointers : <<a, f>> \in x.moves /\ <<b, f>> \in x.moves
    BY <1>2 DEF SamePointer
  <2>2. PICK g \in Pointers : <<b, g>> \in x.moves /\ <<c, g>> \in x.moves
    BY <1>2 DEF SamePointer
  <2>3. f = g
    BY <2>1, <2>2 DEF Named
  <2> QED
    BY <2>1, <2>2, <2>3 DEF SamePointer
<1> QED
  BY <1>1, <1>2

\* What is not a move keeps its place.
LEMMA Stays ==
  ASSUME NEW x, NEW a \in Nat, NEW k \in Nat, ~IsMove(x, k)
  PROVE  (Precedes(x, a, k) => a < k) /\ (Precedes(x, k, a) => k < a)
<1>1. k < a => k \in k..a
  OBVIOUS
<1>2. a < k => k \in a..k
  OBVIOUS
<1> QED
  BY <1>1, <1>2 DEF Precedes

\* A message that is not a move and was accepted after a pending one is behind it.
LEMMA Behind ==
  ASSUME NEW x \in HostEnd, Ranked(x, x.pending), Unpassed(x), NEW h \in DOMAIN x.pending,
         NEW k \in 1..x.accepted, ~IsMove(x, k), x.pending[h] < k
  PROVE  \E y \in DOMAIN x.pending :
           /\ x.pending[y] = k /\ h < y
           /\ \A l \in DOMAIN x.pending : k < x.pending[l] => y < l
<1>1. DOMAIN x.pending = 1..Len(x.pending) /\ Len(x.pending) \in Nat /\ x.accepted \in Nat
  BY LenProperties DEF HostEnd
<1>2. \A i \in DOMAIN x.pending : x.pending[i] \in Nat
  BY <1>1 DEF Ranked
<1>3. k \in Nat
  BY <1>1
<1>4. PICK y \in DOMAIN x.pending : x.pending[y] = k
  <2>1. ~(k < x.pending[h])
    BY <1>2, <1>3
  <2> QED
    BY <2>1 DEF Unpassed
<1>5. \A l \in DOMAIN x.pending : /\ l < y => x.pending[l] < k
                                  /\ y < l => k < x.pending[l]
  BY <1>2, <1>3, <1>4, Stays DEF Ranked
<1>6. h < y
  <2>1. h # y
    BY <1>2, <1>3, <1>4
  <2>2. ~(y < h)
    BY <1>2, <1>3, <1>5
  <2> QED
    BY <1>1, <2>1, <2>2
<1>7. ASSUME NEW l \in DOMAIN x.pending, k < x.pending[l] PROVE y < l
  <2>1. l # y
    BY <1>3, <1>4, <1>7
  <2>2. ~(l < y)
    BY <1>2, <1>3, <1>5, <1>7
  <2> QED
    BY <1>1, <2>1, <2>2
<1> QED
  BY <1>4, <1>6, <1>7

\* More messages are accepted, the first of them a move of m or no move.
Grows(x, y, m, n) ==
  /\ n \in Nat \ {0} /\ y.accepted = x.accepted + n
  /\ y.moves = x.moves \cup {f \in {<<x.accepted + 1, m>>} : m \in Pointers}

\* Nothing changes for those accepted before.
LEMMA GrowsIs ==
  ASSUME NEW x \in HostEnd, NEW y \in HostEnd, NEW m, NEW n, Grows(x, y, m, n), Named(x)
  PROVE  /\ Named(y)
         /\ \A k \in 1..x.accepted : IsMove(y, k) <=> IsMove(x, k)
         /\ \A j, k \in 1..x.accepted : SamePointer(y, j, k) <=> SamePointer(x, j, k)
         /\ \A j, k \in 1..x.accepted : Precedes(x, j, k) => Precedes(y, j, k)
         /\ \A j, k \in 1..x.accepted : Supersedes(x, j, k) => Supersedes(y, j, k)
<1> DEFINE a == x.accepted
<1>0. a \in Nat /\ y.accepted = a + n /\ n \in Nat \ {0} /\ a + 1 \in Nat
  BY DEF HostEnd, Grows
<1>1. \A k \in Nat, f \in Pointers :
        <<k, f>> \in y.moves <=> <<k, f>> \in x.moves \/ (k = a + 1 /\ f = m)
  BY <1>0 DEF Grows
<1>2. \A k \in 1..a : k \in Nat /\ k # a + 1 /\ k \in 1..(a + n)
  BY <1>0
<1>3. a + 1 \in 1..(a + n) /\ a + 1 \notin 1..a
  BY <1>0
<1> HIDE DEF a
<1>4. Named(y)
  <2> SUFFICES ASSUME NEW k \in Nat, NEW f \in Pointers, NEW g \in Pointers, <<k, f>> \in y.moves
               PROVE  k \in 1..(a + n) /\ (<<k, g>> \in y.moves => f = g)
    BY <1>0 DEF Named
  <2>1. <<k, f>> \in x.moves => k \in 1..a /\ (<<k, g>> \in x.moves => f = g)
    BY DEF Named, a
  <2>2. <<k, g>> \in x.moves => k \in 1..a
    BY DEF Named, a
  <2> QED
    BY <1>1, <1>2, <1>3, <2>1, <2>2
<1>5. \A k \in 1..a : IsMove(y, k) <=> IsMove(x, k)
  BY <1>1, <1>2 DEF IsMove
<1>6. \A j, k \in 1..a : SamePointer(y, j, k) <=> SamePointer(x, j, k)
  BY <1>1, <1>2 DEF SamePointer
<1>7. \A j, k \in 1..a : \A i \in j..k : i \in 1..a
  BY <1>0
<1>8. \A j, k \in 1..a : Precedes(x, j, k) => Precedes(y, j, k)
  BY <1>5, <1>6, <1>7 DEF Precedes
<1>9. \A j, k \in 1..a : Supersedes(x, j, k) => Supersedes(y, j, k)
  BY <1>5, <1>6, <1>7 DEF Supersedes
<1> QED
  BY <1>4, <1>5, <1>6, <1>8, <1>9 DEF a

\* Also for their sequences.
LEMMA GrowsKeeps ==
  ASSUME NEW x \in HostEnd, NEW y \in HostEnd, NEW m, NEW n, Grows(x, y, m, n), Named(x)
  PROVE  /\ \A q : Ranked(x, q) => Ranked(y, q)
         /\ \A q, p : Ranked(x, q) /\ Ranked(x, p) /\ Ahead(x, q, p) => Ahead(y, q, p)
<1>1. \A j, k \in 1..x.accepted : Precedes(x, j, k) => Precedes(y, j, k)
  BY GrowsIs
<1>2. \A k \in 1..x.accepted : k \in 1..y.accepted
  BY DEF Grows, HostEnd
<1> QED
  BY <1>1, <1>2 DEF Ranked, Ahead

\* A place that stays is not that of a later move in the run of an earlier one.
LEMMA Apart ==
  ASSUME NEW x \in HostEnd, NEW m, NEW g \in Places(x, m), NEW h \in 1..g, h # g
  PROVE  /\ g \notin Again(x, h)
         /\ OneRun(x, h, g) => ~SamePointer(x, x.pending[h], x.pending[g])
<1>1. g \notin Again(x, h)
  BY DEF Places
<1>2. g \in h..Len(x.pending)
  <2>1. g \in 1..Len(x.pending) /\ Len(x.pending) \in Nat
    BY LenProperties DEF Places, HostEnd
  <2> QED
    BY <2>1
<1> QED
  BY <1>1, <1>2 DEF Again

\* Two moves that the compaction leaves are in an order that is allowed.
LEMMA MergedOrder ==
  ASSUME NEW x \in HostEnd, Named(x), Unpassed(x), Ranked(x, x.pending), NEW m,
         NEW g \in Places(x, m), NEW h \in Places(x, m), g < h
  PROVE  Precedes(x, x.pending[Latest(x, g)], x.pending[Latest(x, h)])
<1> DEFINE i == Latest(x, g)
           j == Latest(x, h)
           n == Len(x.pending)
           a == x.pending[i]
           b == x.pending[j]
<1>1. /\ n \in Nat /\ DOMAIN x.pending = 1..n /\ x.accepted \in Nat
      /\ g \in 1..n /\ h \in 1..n
  BY LenProperties DEF HostEnd, Places
<1>2. i \in Again(x, g) /\ j \in Again(x, h)
  BY <1>1, LatestIs
<1> SUFFICES Precedes(x, a, b)
  OBVIOUS
<1> HIDE DEF i, j
<1>3. /\ i \in g..n /\ (i = g \/ (OneRun(x, g, i) /\ SamePointer(x, x.pending[g], a)))
      /\ j \in h..n /\ (j = h \/ (OneRun(x, h, j) /\ SamePointer(x, x.pending[h], b)))
  BY <1>2 DEF Again
<1>4. i \in 1..n /\ j \in 1..n
  BY <1>1, <1>3
<1>5. \A k \in 1..n : x.pending[k] \in Nat /\ x.pending[k] \in 1..x.accepted
  BY <1>1 DEF Ranked
<1>8. a \in Nat /\ b \in Nat /\ a \in 1..x.accepted /\ b \in 1..x.accepted
  BY <1>4, <1>5
<1>6. CASE i < j
  BY <1>1, <1>4, <1>6 DEF Ranked
<1>7. CASE j <= i
  <2>1. i # g /\ g \in 1..h /\ g # h
    BY <1>1, <1>3, <1>7
  <2>2. /\ \A k \in g..i : IsMove(x, x.pending[k])
        /\ SamePointer(x, x.pending[g], a)
    BY <1>3, <2>1 DEF OneRun
  <2>3. OneRun(x, g, h)
    <3>1. \A k \in g..h : k \in g..i
      BY <1>1, <1>3, <1>7
    <3> QED
      BY <2>2, <3>1 DEF OneRun
  <2>4. ~SamePointer(x, x.pending[g], x.pending[h])
    BY <2>1, <2>3, Apart
  <2>5. ~SamePointer(x, a, b)
    <3> SUFFICES ASSUME SamePointer(x, a, b) PROVE FALSE
      OBVIOUS
    <3>1. SamePointer(x, x.pending[g], b)
      BY <1>1, <1>4, <1>5, <2>2, OfOne
    <3>2. CASE j = h
      BY <2>4, <3>1, <3>2
    <3>3. CASE SamePointer(x, x.pending[h], b)
      <4>1. SamePointer(x, b, x.pending[h])
        BY <1>1, <1>4, <1>5, <3>3, OfOne
      <4> QED
        BY <1>1, <1>4, <1>5, <2>4, <3>1, <4>1, OfOne
    <3> QED
      BY <1>3, <3>2, <3>3
  <2>6. j # i
    <3>1. IsMove(x, a)
      BY <1>1, <1>3, <2>2
    <3>2. SamePointer(x, a, a)
      BY <3>1 DEF IsMove, SamePointer
    <3> QED
      BY <2>5, <3>2
  <2>7. Precedes(x, b, a)
    BY <1>1, <1>4, <1>7, <2>6 DEF Ranked
  <2>8. CASE a < b
    BY <2>8 DEF Precedes
  <2>9. CASE b < a
    <3>1. ASSUME NEW k \in b..a, ~IsMove(x, k) PROVE FALSE
      <4>1. IsMove(x, a) /\ IsMove(x, b)
        <5>1. i \in g..i /\ j \in g..i
          BY <1>1, <1>3, <1>7
        <5> QED
          BY <2>2, <5>1
      <4>2. k \in 1..x.accepted /\ b < k /\ k < a
        <5>1. k # a /\ k # b
          BY <3>1, <4>1
        <5> QED
          BY <1>1, <1>8, <5>1
      <4>3. PICK y \in DOMAIN x.pending :
              x.pending[y] = k /\ j < y /\ \A l \in DOMAIN x.pending : k < x.pending[l] => y < l
        BY <1>1, <1>4, <3>1, <4>2, Behind
      <4>4. y < i
        BY <1>1, <1>4, <4>2, <4>3
      <4>5. y \in g..i
        BY <1>1, <1>3, <4>3, <4>4
      <4> QED
        BY <2>2, <3>1, <4>3, <4>5
    <3> QED
      BY <2>5, <2>9, <3>1 DEF Precedes
  <2> QED
    BY <1>8, <2>7, <2>8, <2>9 DEF Precedes
<1> QED
  BY <1>1, <1>3, <1>6, <1>7

\* A later move in the run is one that makes an earlier move of its pointer needless.
LEMMA LaterMove ==
  ASSUME NEW x \in HostEnd, Named(x), Unpassed(x), Ranked(x, x.pending),
         NEW h \in DOMAIN x.pending, NEW l \in DOMAIN x.pending, h < l,
         OneRun(x, h, l), SamePointer(x, x.pending[h], x.pending[l])
  PROVE  Supersedes(x, x.pending[l], x.pending[h])
<1> DEFINE e == x.pending[h]
           v == x.pending[l]
<1>1. /\ DOMAIN x.pending = 1..Len(x.pending) /\ Len(x.pending) \in Nat /\ x.accepted \in Nat
      /\ e \in Nat /\ v \in Nat /\ e \in 1..x.accepted /\ v \in 1..x.accepted
  BY LenProperties DEF HostEnd, Ranked
<1>2. Precedes(x, e, v)
  BY DEF Ranked
<1>3. SamePointer(x, e, v) /\ IsMove(x, e) /\ IsMove(x, v)
  BY <1>1, OfOne
<1>4. e < v
  BY <1>2, <1>3 DEF Precedes
<1>5. ASSUME NEW k \in e..v, ~IsMove(x, k) PROVE FALSE
  <2>1. k # e /\ k # v
    BY <1>3, <1>5
  <2>2. k \in 1..x.accepted /\ e < k /\ k < v
    BY <1>1, <2>1
  <2>3. PICK y \in DOMAIN x.pending :
          x.pending[y] = k /\ h < y /\ \A i \in DOMAIN x.pending : k < x.pending[i] => y < i
    BY <1>5, <2>2, Behind
  <2>4. y < l
    BY <2>2, <2>3
  <2>5. y \in h..l
    BY <1>1, <2>3, <2>4
  <2> QED
    BY <1>5, <2>3, <2>5 DEF OneRun
<1> QED
  BY <1>3, <1>4, <1>5 DEF Supersedes

\* What the compaction leaves when a move of m is written.
LEMMA MergedLine ==
  ASSUME NEW x \in HostEnd, Named(x), Unpassed(x), Ranked(x, x.pending), NEW m \in Pointers,
         NEW f \in Increasing(Places(x, m)), NEW p,
         p = [i \in DOMAIN f |-> x.pending[Latest(x, f[i])]]
  PROVE  /\ \A i \in DOMAIN p : \E l \in DOMAIN x.pending : p[i] = x.pending[l]
         /\ Ranked(x, p)
         /\ \A h \in DOMAIN x.pending :
              ~IsMove(x, x.pending[h]) => \E i \in DOMAIN p : p[i] = x.pending[h]
         /\ \A h \in DOMAIN x.pending :
              \/ Covers(x, p, x.pending[h])
              \/ OneRun(x, h, Len(x.pending)) /\ <<x.pending[h], m>> \in x.moves
<1> DEFINE n == Len(x.pending)
           c == Cardinality(Places(x, m))
<1>1. /\ n \in Nat /\ DOMAIN x.pending = 1..n /\ c \in Nat /\ Places(x, m) \subseteq 1..n
      /\ x.accepted \in Nat
  BY LenProperties, PlacesIs DEF HostEnd
<1>2. /\ DOMAIN f = 1..c /\ \A i \in 1..c : f[i] \in Places(x, m)
      /\ \A k \in Places(x, m) : \E i \in 1..c : f[i] = k
      /\ \A i, j \in 1..c : i < j => f[i] < f[j]
  BY DEF Increasing
<1>3. DOMAIN p = 1..c /\ \A i \in 1..c : p[i] = x.pending[Latest(x, f[i])]
  BY <1>2
<1> HIDE DEF n, c
<1>4. \A h \in 1..n : Latest(x, h) \in Again(x, h) /\ \A k \in Again(x, h) : k <= Latest(x, h)
  BY <1>1, LatestIs
<1>5. \A h \in 1..n : Latest(x, h) \in 1..n /\ Latest(x, h) >= h
  BY <1>1, <1>4 DEF Again, n
<1>6. \A k \in 1..n : x.pending[k] \in Nat /\ x.pending[k] \in 1..x.accepted
  BY <1>1 DEF Ranked
<1>7. \A i \in DOMAIN p : \E l \in DOMAIN x.pending : p[i] = x.pending[l]
  BY <1>1, <1>2, <1>3, <1>5
<1>8. Ranked(x, p)
  <2>1. \A i \in DOMAIN p : p[i] \in 1..x.accepted
    BY <1>1, <1>6, <1>7
  <2>2. ASSUME NEW i \in DOMAIN p, NEW j \in DOMAIN p, i < j PROVE Precedes(x, p[i], p[j])
    <3>1. f[i] \in Places(x, m) /\ f[j] \in Places(x, m) /\ f[i] < f[j]
      BY <1>2, <1>3, <2>2
    <3> QED
      BY <1>3, <3>1, MergedOrder
  <2> QED
    BY <2>1, <2>2 DEF Ranked
\* Places with moves from there on, among others the place itself.
<1>9. ASSUME NEW h \in 1..n, NEW j \in 1..n, h <= j, OneRun(x, h, j)
      PROVE  \A k \in h..j : IsMove(x, x.pending[k])
  BY <1>9 DEF OneRun
<1>10. ASSUME NEW h \in DOMAIN x.pending, ~IsMove(x, x.pending[h])
       PROVE  \E i \in DOMAIN p : p[i] = x.pending[h]
  <2>1. h \in 1..n
    BY <1>1
  <2>2. \A g \in 1..h : h \in Again(x, g) => g = h
    <3> SUFFICES ASSUME NEW g \in 1..h, h \in Again(x, g), g # h PROVE FALSE
      OBVIOUS
    <3>1. OneRun(x, g, h) /\ h \in g..h
      BY <1>1, <2>1 DEF Again
    <3> QED
      BY <1>10, <3>1 DEF OneRun
  <2>3. ~OneRun(x, h, n)
    <3>1. h \in h..n
      BY <1>1, <2>1
    <3> QED
      BY <1>10, <3>1 DEF OneRun
  <2>4. h \in Places(x, m)
    BY <2>2, <2>3 DEF Places, n
  <2>5. Latest(x, h) = h
    <3> SUFFICES ASSUME Latest(x, h) # h PROVE FALSE
      OBVIOUS
    <3>1. OneRun(x, h, Latest(x, h)) /\ h \in h..Latest(x, h)
      BY <1>1, <1>4, <1>5, <2>1 DEF Again
    <3> QED
      BY <1>10, <3>1 DEF OneRun
  <2> QED
    BY <1>2, <1>3, <2>4, <2>5
<1>11. ASSUME NEW h \in DOMAIN x.pending
       PROVE  \/ Covers(x, p, x.pending[h])
              \/ OneRun(x, h, n) /\ <<x.pending[h], m>> \in x.moves
  <2>1. h \in 1..n /\ h \in Again(x, h)
    BY <1>1 DEF Again, n
  \* The first place in the run with a move of the pointer.
  <2> DEFINE T == {g \in 1..n : g <= h /\ h \in Again(x, g)}
  <2>2. T \subseteq Nat /\ h \in T
    BY <1>1, <2>1
  <2>3. PICK g \in T : \A y \in T : ~ (<<y, g>> \in OpToRel(<, Nat))
    BY <2>2, NatLessThanWellFounded, WFMin
  <2>4. g \in 1..n /\ g <= h /\ h \in Again(x, g) /\ \A y \in T : ~ (y < g)
    BY <2>2, <2>3 DEF OpToRel
  <2>5. \A y \in 1..n : y < g => h \notin Again(x, y)
    <3> SUFFICES ASSUME NEW y \in 1..n, y < g, h \in Again(x, y) PROVE FALSE
      OBVIOUS
    <3>1. y \in T
      BY <1>1, <2>1, <2>4
    <3> QED
      BY <2>4, <3>1
  <2> HIDE DEF T
  <2>6. g = h \/ (OneRun(x, g, h) /\ SamePointer(x, x.pending[g], x.pending[h]))
    BY <2>4 DEF Again
  <2>7. \A y \in 1..g : g \in Again(x, y) => y = g
    <3> SUFFICES ASSUME NEW y \in 1..g, g \in Again(x, y), y # g PROVE FALSE
      OBVIOUS
    <3>1. /\ y \in 1..n /\ y < g
          /\ OneRun(x, y, g) /\ SamePointer(x, x.pending[y], x.pending[g])
      BY <1>1, <2>4 DEF Again
    <3>2. SamePointer(x, x.pending[y], x.pending[h])
      BY <1>6, <2>1, <2>4, <2>6, <3>1, OfOne
    <3>3. OneRun(x, y, h)
      <4> SUFFICES ASSUME NEW k \in y..h PROVE IsMove(x, x.pending[k])
        BY DEF OneRun
      <4>1. k \in y..g \/ k \in g..h
        BY <1>1, <2>1, <2>4, <3>1
      <4>2. g = h => k \in y..g
        BY <1>1, <2>1, <2>4, <3>1
      <4> QED
        BY <2>6, <3>1, <4>1, <4>2 DEF OneRun
    <3>4. h \in Again(x, y)
      BY <1>1, <2>1, <2>4, <3>1, <3>2, <3>3 DEF Again, n
    <3> QED
      BY <2>5, <3>1, <3>4
  <2>8. CASE OneRun(x, g, n) /\ <<x.pending[g], m>> \in x.moves
    <3>1. OneRun(x, h, n)
      <4>1. \A k \in h..n : k \in g..n
        BY <1>1, <2>1, <2>4
      <4> QED
        BY <2>8, <4>1 DEF OneRun
    <3>2. <<x.pending[h], m>> \in x.moves
      <4>1. CASE g = h
        BY <2>8, <4>1
      <4>2. CASE SamePointer(x, x.pending[g], x.pending[h])
        <5>1. PICK o \in Pointers : <<x.pending[g], o>> \in x.moves /\ <<x.pending[h], o>> \in x.moves
          BY <4>2 DEF SamePointer
        <5>2. o = m
          BY <1>6, <2>4, <2>8, <5>1 DEF Named
        <5> QED
          BY <5>1, <5>2
      <4> QED
        BY <2>6, <4>1, <4>2
    <3> QED
      BY <3>1, <3>2
  <2>9. CASE ~(OneRun(x, g, n) /\ <<x.pending[g], m>> \in x.moves)
    <3>1. g \in Places(x, m)
      BY <1>1, <2>4, <2>7, <2>9 DEF Places, n
    <3>2. PICK i \in DOMAIN p : p[i] = x.pending[Latest(x, g)]
      BY <1>2, <1>3, <3>1
    <3> DEFINE l == Latest(x, g)
    <3>3. /\ l \in 1..n /\ h <= l
          /\ l = g \/ (OneRun(x, g, l) /\ SamePointer(x, x.pending[g], x.pending[l]))
      BY <1>4, <1>5, <2>4 DEF Again
    <3> HIDE DEF l
    <3>4. CASE l = h
      BY <3>2, <3>4 DEF Covers, l
    <3>5. CASE h < l
      <4>1. l # g
        BY <1>1, <2>1, <2>4, <3>3, <3>5
      <4>2. OneRun(x, h, l)
        <5>1. \A k \in h..l : k \in g..l
          BY <1>1, <2>1, <2>4, <3>3
        <5> QED
          BY <3>3, <4>1, <5>1 DEF OneRun
      <4>3. SamePointer(x, x.pending[h], x.pending[l])
        <5>1. CASE g = h
          BY <3>3, <4>1, <5>1
        <5>2. CASE SamePointer(x, x.pending[g], x.pending[h])
          <6>1. SamePointer(x, x.pending[h], x.pending[g])
            BY <1>6, <2>1, <2>4, <5>2, OfOne
          <6> QED
            BY <1>6, <2>1, <2>4, <3>3, <4>1, <6>1, OfOne
        <5> QED
          BY <2>6, <5>1, <5>2
      <4>4. Supersedes(x, x.pending[l], x.pending[h])
        BY <1>1, <2>1, <3>3, <3>5, <4>2, <4>3, LaterMove
      <4> QED
        BY <3>2, <4>4 DEF Covers, l
    <3> QED
      BY <1>1, <2>1, <3>3, <3>4, <3>5
  <2> QED
    BY <2>8, <2>9
<1> QED
  BY <1>7, <1>8, <1>10, <1>11 DEF n

\* Every accepted message is received, under way or pending, or one that makes it needless is.
Full(x, D, r) == \A k \in 1..x.accepted : \E q \in D \cup {r, x.pending} : Covers(x, q, k)

\* What makes a message needless that makes another needless.
LEMMA Further ==
  ASSUME NEW x \in HostEnd, Named(x), NEW i \in Nat, NEW j \in Nat, NEW k \in Nat,
         Supersedes(x, i, j), Supersedes(x, j, k)
  PROVE  Supersedes(x, i, k)
<1>1. k < j /\ j < i /\ SamePointer(x, k, j) /\ SamePointer(x, j, i)
  BY DEF Supersedes
<1>2. SamePointer(x, k, i)
  BY <1>1, OfOne
<1>3. \A l \in k..i : l \in k..j \/ l \in j..i
  BY <1>1
<1>4. \A l \in k..i : IsMove(x, l)
  BY <1>3 DEF Supersedes
<1> QED
  BY <1>1, <1>2, <1>4 DEF Supersedes

\* What is pending before a message is added.
LEMMA BeforeLine ==
  ASSUME NEW x \in HostEnd, Named(x), Unpassed(x), Ranked(x, x.pending), NEW m,
         NEW p \in PendingBefore(x, m)
  PROVE  /\ p \in Seq(Nat)
         /\ \A i \in DOMAIN p : \E l \in DOMAIN x.pending : p[i] = x.pending[l]
         /\ Ranked(x, p)
         /\ \A h \in DOMAIN x.pending :
              ~IsMove(x, x.pending[h]) => \E i \in DOMAIN p : p[i] = x.pending[h]
         /\ \A h \in DOMAIN x.pending :
              \/ Covers(x, p, x.pending[h])
              \/ /\ OneRun(x, h, Len(x.pending)) /\ <<x.pending[h], m>> \in x.moves
                 /\ m \in Pointers
<1>1. p \in Seq(Nat)
  BY BeforeIs
<1>2. CASE p = x.pending
  BY <1>1, <1>2 DEF Covers
<1>3. CASE m \in Pointers /\ \E f \in Increasing(Places(x, m)) :
                                p = [i \in DOMAIN f |-> x.pending[Latest(x, f[i])]]
  <2>1. PICK f \in Increasing(Places(x, m)) :
          p = [i \in DOMAIN f |-> x.pending[Latest(x, f[i])]]
    BY <1>3
  <2>2. /\ \A i \in DOMAIN p : \E l \in DOMAIN x.pending : p[i] = x.pending[l]
        /\ Ranked(x, p)
        /\ \A h \in DOMAIN x.pending :
             ~IsMove(x, x.pending[h]) => \E i \in DOMAIN p : p[i] = x.pending[h]
        /\ \A h \in DOMAIN x.pending :
             \/ Covers(x, p, x.pending[h])
             \/ OneRun(x, h, Len(x.pending)) /\ <<x.pending[h], m>> \in x.moves
    BY <1>3, <2>1, MergedLine
  <2> HIDE DEF Covers, OneRun, IsMove
  <2> QED
    BY <1>1, <1>3, <2>2
<1>4. \/ p = x.pending
      \/ m \in Pointers /\ \E f \in Increasing(Places(x, m)) :
                             p = [i \in DOMAIN f |-> x.pending[Latest(x, f[i])]]
  BY BeforeIs
<1> QED
  BY <1>2, <1>3, <1>4

\* A message is added, and what is pending is compacted before.
LEMMA GrowLine ==
  ASSUME NEW x \in HostEnd, NEW y \in HostEnd, NEW m, NEW n, Grows(x, y, m, n),
         NEW p \in PendingBefore(x, m), y.pending = p \o Bytes(x.accepted, n),
         NEW D, NEW r, Line(x, D, r)
  PROVE  Line(y, D, r) /\ (Full(x, D, r) => Full(y, D, r))
<1> DEFINE a == x.accepted
           P == y.pending
           lp == Len(p)
<1>0. a \in Nat /\ n \in Nat \ {0} /\ y.accepted = a + n /\ n \in Nat
  BY DEF HostEnd, Grows
<1>1. Named(x) /\ Unpassed(x) /\ Ranked(x, x.pending) /\ Ranked(x, r) /\ Ahead(x, r, x.pending)
  BY DEF Line
<1>2. /\ p \in Seq(Nat)
      /\ \A i \in DOMAIN p : \E l \in DOMAIN x.pending : p[i] = x.pending[l]
      /\ Ranked(x, p)
      /\ \A h \in DOMAIN x.pending :
           ~IsMove(x, x.pending[h]) => \E i \in DOMAIN p : p[i] = x.pending[h]
      /\ \A h \in DOMAIN x.pending :
           \/ Covers(x, p, x.pending[h])
           \/ /\ OneRun(x, h, Len(x.pending)) /\ <<x.pending[h], m>> \in x.moves /\ m \in Pointers
  BY <1>1, BeforeLine
<1>3. lp \in Nat /\ DOMAIN p = 1..lp
  BY <1>2, LenProperties
<1>4. /\ DOMAIN P = 1..(lp + n) /\ P \in Seq(Nat)
      /\ \A i \in 1..lp : P[i] = p[i]
      /\ \A i \in 1..n : P[lp + i] = a + i
  <2>1. Bytes(a, n) \in Seq(Nat) /\ Len(Bytes(a, n)) = n /\ \A i \in 1..n : Bytes(a, n)[i] = a + i
    BY <1>0, BytesAt
  <2>2. P = p \o Bytes(a, n)
    OBVIOUS
  <2> DEFINE B == Bytes(a, n)
  <2> HIDE DEF P, lp, a, B
  <2>3. P \in Seq(Nat) /\ Len(P) = lp + n
        /\ \A i \in 1..(lp + n) : P[i] = IF i <= lp THEN p[i] ELSE B[i - lp]
    <3>1. B \in Seq(Nat) /\ Len(B) = n /\ Len(p) = lp /\ P = p \o B
      BY <2>1, <2>2 DEF B, lp
    <3> QED
      BY <1>2, <3>1, ConcatProperties
  <2>4. \A i \in 1..(lp + n) : P[i] = IF i <= lp THEN p[i] ELSE Bytes(a, n)[i - lp]
    BY <2>3 DEF B
  <2>5. \A i \in 1..lp : i \in 1..(lp + n) /\ i <= lp
    BY <1>0, <1>3
  <2>6. \A i \in 1..n : lp + i \in 1..(lp + n) /\ ~(lp + i <= lp) /\ (lp + i) - lp = i
    BY <1>0, <1>3
  <2> QED
    BY <2>1, <2>3, <2>4, <2>5, <2>6, LenProperties
<1> HIDE DEF a, P, lp
<1>5. \A i \in DOMAIN P : \/ i \in DOMAIN p /\ P[i] = p[i]
                          \/ i > lp /\ P[i] = a + (i - lp) /\ P[i] > a /\ P[i] \in 1..(a + n)
  <2> TAKE i \in DOMAIN P
  <2>1. CASE i <= lp
    BY <1>0, <1>3, <1>4, <2>1
  <2>2. CASE ~(i <= lp)
    <3>1. i - lp \in 1..n /\ lp + (i - lp) = i
      BY <1>0, <1>3, <1>4, <2>2
    <3>2. P[i] = a + (i - lp)
      BY <1>4, <3>1
    <3> QED
      BY <1>0, <1>3, <2>2, <3>1, <3>2
  <2> QED
    BY <2>1, <2>2
<1>6. /\ Named(y)
      /\ \A k \in 1..a : IsMove(y, k) <=> IsMove(x, k)
      /\ \A j, k \in 1..a : Precedes(x, j, k) => Precedes(y, j, k)
      /\ \A j, k \in 1..a : Supersedes(x, j, k) => Supersedes(y, j, k)
  BY <1>1, GrowsIs DEF a
<1>7. \A q : Ranked(x, q) => Ranked(y, q)
  BY <1>1, GrowsKeeps
<1>8. Ranked(y, P)
  <2>1. \A i \in DOMAIN p : p[i] \in 1..a
    BY <1>2 DEF Ranked, a
  <2>2. \A i \in DOMAIN P : P[i] \in 1..(a + n)
    BY <1>0, <1>5, <2>1
  <2>3. ASSUME NEW i \in DOMAIN P, NEW j \in DOMAIN P, i < j PROVE Precedes(y, P[i], P[j])
    <3>1. CASE i \in DOMAIN p /\ j \in DOMAIN p
      <4>1. Precedes(x, p[i], p[j])
        BY <1>2, <2>3, <3>1 DEF Ranked
      <4>2. P[i] = p[i] /\ P[j] = p[j]
        BY <1>3, <1>4, <3>1
      <4> QED
        BY <1>6, <2>1, <3>1, <4>1, <4>2
    <3>2. CASE j \notin DOMAIN p
      <4>1. P[j] > a /\ P[j] = a + (j - lp) /\ j > lp
        BY <1>5, <3>2
      <4>2. i \in DOMAIN p => P[i] \in 1..a
        BY <1>3, <1>4, <2>1
      <4>3. i \notin DOMAIN p => P[i] = a + (i - lp)
        BY <1>5
      <4>4. P[i] < P[j]
        <5>1. i \in Nat /\ j \in Nat /\ a \in Nat /\ lp \in Nat
          BY <1>0, <1>3, <1>4
        <5>2. CASE i \in DOMAIN p
          <6>1. P[i] \in 1..a
            BY <4>2, <5>2
          <6> QED
            BY <4>1, <5>1, <6>1
        <5>3. CASE i \notin DOMAIN p
          BY <2>3, <4>1, <4>3, <5>1, <5>3
        <5> QED
          BY <5>2, <5>3
      <4> QED
        BY <4>4 DEF Precedes
    <3>3. j \in DOMAIN p => i \in DOMAIN p
      BY <1>3, <1>4, <2>3
    <3> QED
      BY <3>1, <3>2, <3>3
  <2> QED
    BY <1>0, <2>2, <2>3 DEF Ranked
<1>9. ASSUME NEW q, Ranked(x, q), Ahead(x, q, x.pending) PROVE Ahead(y, q, P)
  <2> SUFFICES ASSUME NEW i \in DOMAIN q, NEW j \in DOMAIN P PROVE Precedes(y, q[i], P[j])
    BY DEF Ahead
  <2>1. q[i] \in 1..a
    BY <1>9 DEF Ranked, a
  <2>2. CASE j \in DOMAIN p
    <3>1. PICK l \in DOMAIN x.pending : p[j] = x.pending[l]
      BY <1>2, <2>2
    <3>2. Precedes(x, q[i], p[j]) /\ p[j] \in 1..a
      BY <1>1, <1>9, <3>1 DEF Ahead, Ranked, a
    <3>3. P[j] = p[j]
      BY <1>3, <1>4, <2>2
    <3> QED
      BY <1>6, <2>1, <3>2, <3>3
  <2>3. CASE j \notin DOMAIN p
    <3>1. P[j] > a /\ P[j] \in 1..(a + n)
      BY <1>5, <2>3
    <3>2. q[i] < P[j]
      BY <1>0, <2>1, <3>1
    <3> QED
      BY <3>2 DEF Precedes
  <2> QED
    BY <2>2, <2>3
<1>10. Unpassed(y)
  <2> SUFFICES ASSUME NEW k \in 1..(a + n), ~IsMove(y, k)
               PROVE  (\E i \in DOMAIN P : P[i] = k) \/ (\A i \in DOMAIN P : k < P[i])
    BY <1>0 DEF Unpassed, P
  <2>1. CASE k > a
    <3>1. k - a \in 1..n /\ a + (k - a) = k /\ lp + (k - a) \in 1..(lp + n)
      BY <1>0, <1>3, <2>1
    <3> QED
      BY <1>4, <3>1
  <2>2. CASE k <= a
    <3>1. k \in 1..a /\ ~IsMove(x, k)
      BY <1>0, <1>6, <2>2
    <3>2. CASE \E h \in DOMAIN x.pending : x.pending[h] = k
      <4>1. PICK i \in DOMAIN p : p[i] = k
        BY <1>2, <3>1, <3>2
      <4>2. i \in DOMAIN P /\ P[i] = k
        BY <1>0, <1>3, <1>4, <4>1
      <4> QED
        BY <4>2
    <3>3. CASE \A h \in DOMAIN x.pending : k < x.pending[h]
      <4>1. \A i \in DOMAIN p : k < p[i]
        BY <1>2, <3>3
      <4>2. \A i \in DOMAIN P : k < P[i]
        BY <1>0, <1>5, <2>2, <4>1
      <4> QED
        BY <4>2
    <3> QED
      BY <1>1, <3>1, <3>2, <3>3 DEF Unpassed, a
  <2> QED
    BY <1>0, <2>1, <2>2
<1>11. Line(y, D, r)
  <2>1. Ranked(y, r) /\ Ahead(y, r, P)
    BY <1>1, <1>7, <1>9
  <2>2. ASSUME NEW d \in D PROVE Ranked(y, d) /\ Ahead(y, r, d) /\ Ahead(y, d, P)
    <3>1. Ranked(x, d) /\ Ahead(x, r, d) /\ Ahead(x, d, x.pending)
      BY DEF Line
    <3> QED
      BY <1>1, <1>7, <1>9, <3>1, GrowsKeeps
  <2> QED
    BY <1>6, <1>8, <1>10, <2>1, <2>2 DEF Line, P
\* What was covered still is.
<1>12. ASSUME NEW q, NEW k \in 1..a, Covers(x, q, k), Ranked(x, q) PROVE Covers(y, q, k)
  <2>1. PICK i \in DOMAIN q : q[i] = k \/ Supersedes(x, q[i], k)
    BY <1>12 DEF Covers
  <2>2. q[i] \in 1..a
    BY <1>12 DEF Ranked, a
  <2> QED
    BY <1>6, <2>1, <2>2 DEF Covers
<1>13. ASSUME NEW k \in 1..a, Covers(x, x.pending, k) PROVE Covers(y, P, k)
  <2>1. PICK h \in DOMAIN x.pending : x.pending[h] = k \/ Supersedes(x, x.pending[h], k)
    BY <1>13 DEF Covers
  <2> DEFINE e == x.pending[h]
  <2>2. e \in 1..a /\ e \in Nat /\ k \in Nat
    BY <1>0, <1>1 DEF Ranked, a
  <2>3. CASE Covers(x, p, e)
    <3>1. PICK i \in DOMAIN p : p[i] = e \/ Supersedes(x, p[i], e)
      BY <2>3 DEF Covers
    <3>2. p[i] \in 1..a /\ p[i] \in Nat
      BY <1>0, <1>2 DEF Ranked, a
    <3>3. p[i] = k \/ Supersedes(x, p[i], k)
      <4>1. CASE p[i] = e
        BY <2>1, <4>1
      <4>2. CASE Supersedes(x, p[i], e)
        BY <1>1, <2>1, <2>2, <3>2, <4>2, Further
      <4> QED
        BY <3>1, <4>1, <4>2
    <3>4. Supersedes(x, p[i], k) => Supersedes(y, p[i], k)
      BY <1>6, <3>2
    <3>5. i \in DOMAIN P /\ P[i] = p[i]
      BY <1>0, <1>3, <1>4, <3>1
    <3> QED
      BY <3>3, <3>4, <3>5 DEF Covers
  <2>4. CASE OneRun(x, h, Len(x.pending)) /\ <<e, m>> \in x.moves /\ m \in Pointers
    <3> DEFINE v == a + 1
    <3>1. v \in Nat /\ e < v /\ v \in 1..(a + n)
      BY <1>0, <2>2
    <3>2. <<e, m>> \in y.moves /\ <<v, m>> \in y.moves
      BY <2>4 DEF Grows, a
    <3>3. ASSUME NEW l \in e..v PROVE IsMove(y, l)
      <4>1. CASE l = v
        BY <2>4, <3>2, <4>1 DEF IsMove
      <4>2. CASE l = e
        BY <2>4, <3>2, <4>2 DEF IsMove
      <4>3. CASE l # v /\ l # e
        <5>1. l \in 1..a /\ e < l
          BY <1>0, <2>2, <4>3
        <5> SUFFICES ASSUME ~IsMove(x, l) PROVE FALSE
          BY <1>6, <5>1
        <5>2. PICK z \in DOMAIN x.pending : x.pending[z] = l /\ h < z
          BY <1>1, <5>1, Behind DEF a
        <5>3. z \in h..Len(x.pending)
          <6>1. DOMAIN x.pending = 1..Len(x.pending) /\ Len(x.pending) \in Nat
            BY LenProperties DEF HostEnd
          <6> QED
            BY <5>2, <6>1
        <5> QED
          BY <2>4, <5>2, <5>3 DEF OneRun
      <4> QED
        BY <4>1, <4>2, <4>3
    <3>4. Supersedes(y, v, e)
      BY <2>4, <3>1, <3>2, <3>3 DEF Supersedes, SamePointer
    <3>5. v = k \/ Supersedes(y, v, k)
      <4>1. e = k \/ Supersedes(y, e, k)
        BY <1>6, <2>1, <2>2
      <4> HIDE DEF v, e
      <4> QED
        BY <1>6, <2>2, <3>1, <3>4, <4>1, Further
    <3>6. lp + 1 \in DOMAIN P /\ P[lp + 1] = v
      <4>1. 1 \in 1..n /\ lp + 1 \in 1..(lp + n)
        BY <1>0, <1>3
      <4> QED
        BY <1>4, <4>1
    <3> QED
      BY <3>5, <3>6 DEF Covers
  <2> QED
    BY <1>2, <2>3, <2>4
<1>14. ASSUME Full(x, D, r), NEW k \in 1..(a + n)
       PROVE  \E q \in D \cup {r, P} : Covers(y, q, k)
  <2>1. CASE k > a
    <3>1. k - a \in 1..n /\ a + (k - a) = k /\ lp + (k - a) \in 1..(lp + n)
      BY <1>0, <1>3, <2>1
    <3>2. Covers(y, P, k)
      BY <1>4, <3>1 DEF Covers
    <3> QED
      BY <3>2
  <2>2. CASE k <= a
    <3>1. k \in 1..a
      BY <1>0, <2>2
    <3>2. PICK q \in D \cup {r, x.pending} : Covers(x, q, k)
      BY <1>14, <3>1 DEF Full, a
    <3>3. CASE q = x.pending
      <4>1. Covers(y, P, k)
        BY <1>13, <3>1, <3>2, <3>3
      <4> QED
        BY <4>1
    <3>4. CASE q \in D \cup {r}
      <4>1. Ranked(x, q)
        BY <3>4 DEF Line
      <4>2. Covers(y, q, k)
        BY <1>12, <3>1, <3>2, <4>1
      <4> QED
        BY <3>4, <4>2
    <3> QED
      BY <3>2, <3>3, <3>4
  <2> QED
    BY <1>0, <2>1, <2>2
<1>15. Full(x, D, r) => Full(y, D, r)
  BY <1>0, <1>14 DEF Full, P
<1> QED
  BY <1>11, <1>15

\* Sequences that are cut: the first n members and the rest.
LEMMA CutAt ==
  ASSUME NEW p \in Seq(Nat), NEW n \in 0..Len(p)
  PROVE  /\ DOMAIN SubSeq(p, 1, n) = 1..n /\ \A i \in 1..n : SubSeq(p, 1, n)[i] = p[i]
         /\ DOMAIN Rest(p, n) = 1..(Len(p) - n)
         /\ \A i \in 1..(Len(p) - n) : Rest(p, n)[i] = p[n + i]
<1> DEFINE l == Len(p)
           u == SubSeq(p, 1, n)
           v == SubSeq(p, n + 1, l)
<1>1. l \in Nat /\ n \in Nat /\ \A i \in 1..l : p[i] \in Nat
  BY LenProperties, ElementOfSeq
<1> HIDE DEF l
<1>2. n <= l /\ 1 \in Int /\ n \in Int /\ n + 1 \in Int /\ l \in Int
  BY <1>1 DEF l
<1>3. (\A i \in 1..n : p[i] \in Nat) /\ (\A i \in n + 1 .. l : p[i] \in Nat)
  BY <1>1, <1>2
<1>4. /\ u \in Seq(Nat) /\ Len(u) = IF 1 <= n THEN n - 1 + 1 ELSE 0
      /\ \A i \in 1 .. n - 1 + 1 : u[i] = p[1 + i - 1]
  BY <1>2, <1>3, SubSeqProperties
<1>5. /\ v \in Seq(Nat) /\ Len(v) = IF n + 1 <= l THEN l - (n + 1) + 1 ELSE 0
      /\ \A i \in 1 .. l - (n + 1) + 1 : v[i] = p[n + 1 + i - 1]
  BY <1>2, <1>3, SubSeqProperties
<1> HIDE DEF u, v
<1>6. Len(u) = n /\ Len(v) = l - n
  BY <1>1, <1>2, <1>4, <1>5
<1>7. DOMAIN u = 1..n /\ DOMAIN v = 1..(l - n)
  BY <1>4, <1>5, <1>6, LenProperties
<1>8. \A i \in 1..n : u[i] = p[i]
  BY <1>1, <1>4
<1>9. \A i \in 1..(l - n) : v[i] = p[n + i]
  BY <1>1, <1>5
<1> QED
  BY <1>7, <1>8, <1>9 DEF u, v, l, Rest

\* What the moves decide.
LEMMA SameMoves ==
  ASSUME NEW x, NEW y, y.moves = x.moves
  PROVE  /\ \A k : IsMove(y, k) <=> IsMove(x, k)
         /\ \A j, k : Precedes(y, j, k) <=> Precedes(x, j, k)
         /\ \A j, k : Supersedes(y, j, k) <=> Supersedes(x, j, k)
         /\ \A q, k : Covers(y, q, k) <=> Covers(x, q, k)
  BY DEF IsMove, SamePointer, Precedes, Supersedes, Covers

\* A step that accepts and delivers nothing; it may drop what is pending or under way.
LEMMA LineLess ==
  ASSUME NEW x, NEW y, NEW D, NEW E, NEW r, Line(x, D, r),
         y.accepted = x.accepted, y.moves = x.moves,
         y.pending = x.pending \/ y.pending = <<>>, E \subseteq D
  PROVE  /\ Line(y, E, r)
         /\ y.pending = x.pending /\ D \subseteq E /\ Full(x, D, r) => Full(y, E, r)
<1>1. /\ \A k : IsMove(y, k) <=> IsMove(x, k)
      /\ \A j, k : Precedes(y, j, k) <=> Precedes(x, j, k)
      /\ \A q, k : Covers(y, q, k) <=> Covers(x, q, k)
  BY SameMoves
<1>2. /\ \A q : Ranked(x, q) => Ranked(y, q)
      /\ \A q, p : Ahead(x, q, p) => Ahead(y, q, p)
  BY <1>1 DEF Ranked, Ahead
<1>3. /\ Named(x) /\ Unpassed(x)
      /\ Ranked(x, r) /\ Ranked(x, x.pending) /\ Ahead(x, r, x.pending)
      /\ \A d \in D : Ranked(x, d) /\ Ahead(x, r, d) /\ Ahead(x, d, x.pending)
  BY DEF Line
<1>4. Named(y)
  BY <1>3 DEF Named
<1>5. CASE y.pending = x.pending
  <2>1. Unpassed(y)
    BY <1>1, <1>3, <1>5 DEF Unpassed
  <2>2. Line(y, E, r)
    BY <1>2, <1>3, <1>4, <1>5, <2>1 DEF Line
  <2>3. D \subseteq E /\ Full(x, D, r) => Full(y, E, r)
    BY <1>1, <1>5 DEF Full
  <2> QED
    BY <2>2, <2>3
<1>6. CASE y.pending = <<>>
  <2>1. DOMAIN y.pending = {}
    BY <1>6
  <2>2. Unpassed(y) /\ Ranked(y, y.pending) /\ \A q : Ahead(y, q, y.pending)
    BY <2>1 DEF Unpassed, Ranked, Ahead
  <2>3. Line(y, E, r)
    BY <1>2, <1>3, <1>4, <2>2 DEF Line
  <2>4. CASE y.pending = x.pending
    BY <1>5, <2>4
  <2> QED
    BY <2>3, <2>4
<1> QED
  BY <1>5, <1>6

\* A chunk c of what is pending goes into the queue, or is lost.
LEMMA CutLine ==
  ASSUME NEW x \in HostEnd, NEW n \in 0..Len(x.pending), NEW y, NEW r, Line(x, {}, r),
         y.accepted = x.accepted, y.moves = x.moves, y.pending = Rest(x.pending, n),
         NEW E, E \subseteq {SubSeq(x.pending, 1, n)}
  PROVE  /\ Line(y, E, r)
         /\ Full(x, {}, r) /\ E # {} => Full(y, E, r)
<1> DEFINE c == SubSeq(x.pending, 1, n)
           v == Rest(x.pending, n)
           l == Len(x.pending)
<1>1. /\ DOMAIN x.pending = 1..l /\ l \in Nat /\ n \in Nat /\ n <= l
      /\ x.pending \in Seq(Nat) /\ x.accepted \in Nat
  BY LenProperties DEF HostEnd
<1>2. /\ DOMAIN c = 1..n /\ \A i \in 1..n : c[i] = x.pending[i]
      /\ DOMAIN v = 1..(l - n) /\ \A i \in 1..(l - n) : v[i] = x.pending[n + i]
  BY <1>1, CutAt
<1> HIDE DEF c, v, l
<1>3. /\ Named(x) /\ Unpassed(x)
      /\ Ranked(x, r) /\ Ranked(x, x.pending) /\ Ahead(x, r, x.pending)
  BY DEF Line
<1>4. /\ \A k : IsMove(y, k) <=> IsMove(x, k)
      /\ \A j, k : Precedes(y, j, k) <=> Precedes(x, j, k)
      /\ \A q, k : Covers(y, q, k) <=> Covers(x, q, k)
  BY SameMoves
<1>5. /\ \A q : Ranked(x, q) => Ranked(y, q)
      /\ \A q, p : Ahead(x, q, p) => Ahead(y, q, p)
  BY <1>4 DEF Ranked, Ahead
<1>6. /\ \A i \in 1..n : i \in 1..l
      /\ \A i \in 1..(l - n) : n + i \in 1..l
      /\ \A i \in 1..n, j \in 1..(l - n) : i < n + j
      /\ \A i, j \in 1..(l - n) : i < j => n + i < n + j
  BY <1>1
<1>7. Ranked(x, c)
  BY <1>1, <1>2, <1>3, <1>6 DEF Ranked
<1>8. Ranked(x, v)
  BY <1>1, <1>2, <1>3, <1>6 DEF Ranked
<1>9. Ahead(x, r, c) /\ Ahead(x, r, v)
  BY <1>1, <1>2, <1>3, <1>6 DEF Ahead
<1>10. Ahead(x, c, v)
  BY <1>1, <1>2, <1>3, <1>6 DEF Ahead, Ranked
<1>11. Unpassed(y)
  <2> SUFFICES ASSUME NEW k \in 1..x.accepted, ~IsMove(x, k)
               PROVE  (\E i \in DOMAIN v : v[i] = k) \/ (\A i \in DOMAIN v : k < v[i])
    BY <1>4 DEF Unpassed, v
  <2>1. CASE \A i \in 1..l : k < x.pending[i]
    BY <1>2, <1>6, <2>1
  <2>2. ASSUME NEW h \in 1..l, x.pending[h] = k, h <= n PROVE \A i \in DOMAIN v : k < v[i]
    <3> SUFFICES ASSUME NEW i \in 1..(l - n) PROVE k < v[i]
      BY <1>2
    <3>1. n + i \in 1..l /\ h < n + i /\ v[i] = x.pending[n + i]
      BY <1>1, <1>2, <2>2
    <3>2. Precedes(x, k, v[i]) /\ v[i] \in 1..x.accepted
      BY <1>1, <1>3, <2>2, <3>1 DEF Ranked
    <3>3. v[i] \in Nat /\ k \in Nat
      BY <1>1, <3>2
    <3> QED
      BY <3>2, <3>3, Stays
  <2>3. ASSUME NEW h \in 1..l, x.pending[h] = k, h > n PROVE \E i \in DOMAIN v : v[i] = k
    <3>1. h - n \in 1..(l - n) /\ n + (h - n) = h
      BY <1>1, <2>3
    <3> QED
      BY <1>2, <2>3, <3>1
  <2>4. (\E h \in 1..l : x.pending[h] = k) \/ (\A i \in 1..l : k < x.pending[i])
    BY <1>1, <1>3 DEF Unpassed
  <2>5. \A h \in 1..l : h <= n \/ h > n
    BY <1>1
  <2> QED
    BY <2>1, <2>2, <2>3, <2>4, <2>5
<1>12. Named(y)
  BY <1>3 DEF Named
<1>13. Line(y, E, r)
  <2>1. \A d \in E : d = c
    BY DEF c
  <2> QED
    BY <1>3, <1>5, <1>7, <1>8, <1>9, <1>10, <1>11, <1>12, <2>1 DEF Line, v
<1>14. ASSUME Full(x, {}, r), c \in E PROVE Full(y, E, r)
  <2> SUFFICES ASSUME NEW k \in 1..x.accepted PROVE \E q \in E \cup {r, v} : Covers(y, q, k)
    BY DEF Full, v
  <2>1. PICK q \in {r, x.pending} : Covers(x, q, k)
    BY <1>14 DEF Full
  <2>2. CASE q = r
    BY <1>4, <2>1, <2>2
  <2>3. CASE q = x.pending
    <3>1. PICK h \in 1..l : x.pending[h] = k \/ Supersedes(x, x.pending[h], k)
      BY <1>1, <2>1, <2>3 DEF Covers
    <3>2. CASE h <= n
      <4>1. h \in DOMAIN c /\ c[h] = x.pending[h]
        BY <1>1, <1>2, <3>2
      <4>2. Covers(x, c, k)
        BY <3>1, <4>1 DEF Covers
      <4> QED
        BY <1>4, <1>14, <4>2
    <3>3. CASE h > n
      <4>1. h - n \in 1..(l - n) /\ n + (h - n) = h
        BY <1>1, <3>3
      <4>2. h - n \in DOMAIN v /\ v[h - n] = x.pending[h]
        BY <1>2, <4>1
      <4>3. Covers(x, v, k)
        BY <3>1, <4>2 DEF Covers
      <4> QED
        BY <1>4, <4>3
    <3> QED
      BY <1>1, <3>2, <3>3
  <2> QED
    BY <2>1, <2>2, <2>3
<1> QED
  BY <1>13, <1>14 DEF c

\* A flush.
LEMMA FlushLine ==
  ASSUME NEW s \in Streams, NEW x \in HostEnd, NEW q \in Seq(Messages), NEW r,
         x.canWrite => Queued(q, s) = {}, Line(x, Sending(q, s), r)
  PROVE  /\ Line(Flushed(s, x), Sending(FlushedQueue(s, x, q), s), r)
         /\ (x.canWrite => Len(q) <= QueueLimit) /\ Full(x, Sending(q, s), r)
              => Full(Flushed(s, x), Sending(FlushedQueue(s, x, q), s), r)
<1>1. CASE ~CanFlush(s, x)
  BY <1>1 DEF Flushed, FlushedQueue
<1>2. CASE CanFlush(s, x)
  <2> DEFINE n == Chunk(x)
             c == SubSeq(x.pending, 1, n)
             m == Wrte(s, c)
             y == Flushed(s, x)
             E == Sending(Enqueue(q, m), s)
  <2>1. x.canWrite /\ ~conn.closed /\ Queued(q, s) = {}
    BY <1>2 DEF CanFlush, Closed
  <2>2. Sending(q, s) = {}
    BY <2>1 DEF Sending
  <2>3. n \in 0..Len(x.pending) /\ c \in Seq(Nat) /\ Rest(x.pending, n) \in Seq(Nat)
    BY ChunkType, RestType DEF HostEnd
  <2>4. y.accepted = x.accepted /\ y.moves = x.moves
    BY FlushedIs
  <2>5. y.pending = Rest(x.pending, n) /\ FlushedQueue(s, x, q) = Enqueue(q, m)
    <3>1. y = [x EXCEPT !.canWrite = FALSE, !.pending = Rest(x.pending, n)]
            /\ FlushedQueue(s, x, q) = Enqueue(q, m)
      BY <1>2 DEF Flushed, FlushedQueue, CreditAfterWrte
    <3> HIDE DEF n, y, m
    <3> QED
      BY <2>3, <3>1 DEF HostEnd
  <2>6. m \in Messages /\ m.cmd = "WRTE" /\ m.stream = s /\ m.data = c
    <3> HIDE DEF c
    <3> QED
      BY <2>3, MessageType DEF Wrte
  <2> HIDE DEF n, c, m, y
  <2>7. E \subseteq {c}
    BY <2>2, <2>6, SendingEnqueue
  <2>8. Len(q) <= QueueLimit => E # {}
    <3>1. Len(q) \in Nat /\ QueueLimit \in Nat
      BY LenProperties, FlowAssumption
    <3>2. Len(q) <= QueueLimit => Enqueue(q, m) = Append(q, m)
      BY <2>1, <3>1 DEF Enqueue
    <3>3. Sending(Append(q, m), s) = Sending(q, s) \cup {c}
      BY <2>6, SendingAppend
    <3> QED
      BY <3>2, <3>3
  <2> HIDE DEF E
  <2>9. Line(y, E, r) /\ (Full(x, {}, r) /\ E # {} => Full(y, E, r))
    BY <2>2, <2>3, <2>4, <2>5, <2>7, CutLine DEF c
  <2> QED
    BY <2>1, <2>2, <2>5, <2>8, <2>9 DEF y, E
<1> QED
  BY <1>1, <1>2

\* The device receives what was under way.
LEMMA SendLine ==
  ASSUME NEW x, NEW r \in Seq(Nat), NEW d \in Seq(Nat), Line(x, {d}, r)
  PROVE  /\ Line(x, {}, r \o d)
         /\ Full(x, {d}, r) => Full(x, {}, r \o d)
<1> DEFINE z == r \o d
           k == Len(r)
           n == Len(d)
<1>1. /\ k \in Nat /\ n \in Nat /\ DOMAIN r = 1..k /\ DOMAIN d = 1..n
      /\ z \in Seq(Nat) /\ Len(z) = k + n
      /\ \A i \in 1..(k + n) : z[i] = IF i <= k THEN r[i] ELSE d[i - k]
  BY LenProperties, ConcatProperties
<1>2. DOMAIN z = 1..(k + n)
  BY <1>1, LenProperties
<1> HIDE DEF z, k, n
<1>3. \A i \in DOMAIN z : \/ i \in DOMAIN r /\ z[i] = r[i]
                          \/ i > k /\ i - k \in DOMAIN d /\ z[i] = d[i - k]
  BY <1>1, <1>2
<1>4. /\ \A i \in DOMAIN r : i \in DOMAIN z /\ z[i] = r[i]
      /\ \A i \in DOMAIN d : k + i \in DOMAIN z /\ z[k + i] = d[i]
  <2>1. \A i \in 1..k : i \in 1..(k + n) /\ i <= k
    BY <1>1
  <2>2. \A i \in 1..n : k + i \in 1..(k + n) /\ ~(k + i <= k) /\ (k + i) - k = i
    BY <1>1
  <2> QED
    BY <1>1, <1>2, <2>1, <2>2
<1>5. /\ Named(x) /\ Unpassed(x)
      /\ Ranked(x, r) /\ Ranked(x, x.pending) /\ Ahead(x, r, x.pending)
      /\ Ranked(x, d) /\ Ahead(x, r, d) /\ Ahead(x, d, x.pending)
  BY DEF Line
<1>6. Ranked(x, z)
  <2>1. \A i \in DOMAIN z : z[i] \in 1..x.accepted
    BY <1>3, <1>5 DEF Ranked
  <2>2. ASSUME NEW i \in DOMAIN z, NEW j \in DOMAIN z, i < j PROVE Precedes(x, z[i], z[j])
    <3>1. CASE j \in DOMAIN r /\ z[j] = r[j]
      <4>1. i \in DOMAIN r /\ z[i] = r[i]
        BY <1>1, <1>2, <1>4, <2>2, <3>1
      <4> QED
        BY <1>5, <2>2, <3>1, <4>1 DEF Ranked
    <3>2. CASE j > k /\ j - k \in DOMAIN d /\ z[j] = d[j - k]
      <4>1. CASE i \in DOMAIN r /\ z[i] = r[i]
        BY <1>5, <3>2, <4>1 DEF Ahead
      <4>2. CASE i > k /\ i - k \in DOMAIN d /\ z[i] = d[i - k]
        <5>1. i - k < j - k
          BY <1>1, <1>2, <2>2
        <5> QED
          BY <1>5, <3>2, <4>2, <5>1 DEF Ranked
      <4> QED
        BY <1>3, <4>1, <4>2
    <3> QED
      BY <1>3, <3>1, <3>2
  <2> QED
    BY <2>1, <2>2 DEF Ranked
<1>7. Ahead(x, z, x.pending)
  BY <1>3, <1>5 DEF Ahead
<1>8. Line(x, {}, z)
  BY <1>5, <1>6, <1>7 DEF Line
<1>9. ASSUME Full(x, {d}, r) PROVE Full(x, {}, z)
  <2> SUFFICES ASSUME NEW i \in 1..x.accepted PROVE \E q \in {z, x.pending} : Covers(x, q, i)
    BY DEF Full
  <2>1. PICK q \in {d, r, x.pending} : Covers(x, q, i)
    BY <1>9 DEF Full
  <2>2. CASE q = r \/ q = d
    <3>1. Covers(x, z, i)
      BY <1>4, <2>1, <2>2 DEF Covers
    <3> QED
      BY <3>1
  <2> QED
    BY <2>1, <2>2
<1> QED
  BY <1>8, <1>9 DEF z

\* The messages of stream t.
OneLine(t) == Line(stream[t], Sending(sendQueue, t), device[t].received)
AllThere(t) == Full(stream[t], Sending(sendQueue, t), device[t].received)
\* In the next state.
LEMMA LinePrimed ==
  ASSUME NEW t \in Streams
  PROVE  /\ Line(stream'[t], Sending(sendQueue', t), device'[t].received) => OneLine(t)'
         /\ Full(stream'[t], Sending(sendQueue', t), device'[t].received) => AllThere(t)'
  BY DEF OneLine, AllThere, Line, Full, Named, Unpassed, Ranked, Ahead, Precedes, Supersedes, Covers,
         SamePointer, IsMove, Sending, Queued, At

\* A step that moves the messages of t: what it makes of them, if the queue has room.
Moved(t) ==
  /\ OneLine(t)'
  /\ Open(t)' => Open(t)
  /\ (Queued(sendQueue, t) = {} => Len(sendQueue) <= QueueLimit) /\ Open(t)' /\ AllThere(t)
       => AllThere(t)'

\* A step that leaves them, or drops some as the stream is closed.
LEMMA LeftLine ==
  ASSUME NEW t \in Streams, OneLine(t),
         stream'[t].accepted = stream[t].accepted, stream'[t].moves = stream[t].moves,
         stream'[t].pending = stream[t].pending \/ stream'[t].pending = <<>>,
         Sending(sendQueue', t) \subseteq Sending(sendQueue, t),
         device'[t].received = device[t].received,
         Open(t)' => /\ Open(t) /\ stream'[t].pending = stream[t].pending
                     /\ Sending(sendQueue, t) \subseteq Sending(sendQueue', t)
  PROVE  Moved(t)
<1> DEFINE x == stream[t]
           y == stream'[t]
           D == Sending(sendQueue, t)
           E == Sending(sendQueue', t)
           r == device[t].received
<1>1. Line(x, D, r)
  BY DEF OneLine
<1>2. y.accepted = x.accepted /\ y.moves = x.moves /\ (y.pending = x.pending \/ y.pending = <<>>)
      /\ E \subseteq D
  OBVIOUS
<1> HIDE DEF x, y, D, E, r
<1>3. Line(y, E, r) /\ (y.pending = x.pending /\ D \subseteq E /\ Full(x, D, r) => Full(y, E, r))
  BY <1>1, <1>2, LineLess
<1>4. /\ Line(stream'[t], Sending(sendQueue', t), device'[t].received)
      /\ Open(t)' /\ AllThere(t) => Full(stream'[t], Sending(sendQueue', t), device'[t].received)
  BY <1>3 DEF x, y, D, E, r, AllThere
<1> QED
  BY <1>4, LinePrimed DEF Moved

\* A step that flushes t after making x of it.
LEMMA TakenLine ==
  ASSUME TypeOK, NEW t \in Streams, OneLine(t), NEW x \in HostEnd, NEW y,
         Line(x, Sending(sendQueue, t), device[t].received),
         AllThere(t) => Full(x, Sending(sendQueue, t), device[t].received),
         x.canWrite => Queued(sendQueue, t) = {},
         y.pending = Flushed(t, x).pending, y.moves = Flushed(t, x).moves,
         y.accepted = Flushed(t, x).accepted, y.closed = stream[t].closed,
         stream'[t] = y, sendQueue' = FlushedQueue(t, x, sendQueue), UNCHANGED <<device, conn>>
  PROVE  Moved(t)
<1> DEFINE D == Sending(sendQueue, t)
           E == Sending(sendQueue', t)
           r == device[t].received
           z == Flushed(t, x)
<1>0. sendQueue \in Seq(Messages)
  BY DEF TypeOK
<1>1. Line(z, E, r) /\ ((x.canWrite => Len(sendQueue) <= QueueLimit) /\ Full(x, D, r) => Full(z, E, r))
  BY <1>0, FlushLine
<1>2. Open(t)' => Open(t)
  BY DEF Open, Closed
<1> HIDE DEF z, E, r
<1>3. Line(y, E, r) /\ (Full(z, E, r) => Full(y, E, r))
  BY <1>1, LineLess DEF z
<1>4. Line(stream'[t], Sending(sendQueue', t), device'[t].received)
  BY <1>3 DEF E, r
<1>5. ASSUME Queued(sendQueue, t) = {} => Len(sendQueue) <= QueueLimit, AllThere(t)
      PROVE  Full(stream'[t], Sending(sendQueue', t), device'[t].received)
  <2>1. x.canWrite => Len(sendQueue) <= QueueLimit
    BY <1>5
  <2>2. Full(x, D, r)
    BY <1>5 DEF r
  <2>3. Full(y, E, r)
    BY <1>1, <1>3, <2>1, <2>2
  <2> QED
    BY <2>3 DEF E, r
<1> QED
  BY <1>2, <1>4, <1>5, LinePrimed DEF Moved

\* A writer's round in streamWrite.
LEMMA WriteLine ==
  ASSUME TypeOK, Locked, CreditOnce, RawApart, NEW t \in Streams, use[t] = "control", OneLine(t),
         NEW w \in Writers, Transfer(w)
  PROVE  Moved(t)
<1> DEFINE s == StreamOf[w]
           D == Sending(sendQueue, t)
           r == device[t].received
<1>0. /\ s \in Streams /\ stream[s] \in HostEnd /\ stream[t] \in HostEnd
      /\ sendQueue \in Seq(Messages)
  BY FlowAssumption DEF TypeOK
<1>1. stream[t].canWrite => Queued(sendQueue, t) = {}
  BY DEF CreditOnce, Exclusive
<1>2. UNCHANGED <<device, conn>>
  BY DEF Transfer, CheckRound, AppendRound, FullRound, RawSend
<1>3. Line(stream[t], D, r)
  BY DEF OneLine
<1>4. ~RawSend(w) \/ s # t
  BY DEF RawSend, RawApart, Raw
<1> HIDE DEF s, D, r
<1>5. ASSUME NEW x, SetStream(s, x), s # t, Sending(sendQueue', t) = Sending(sendQueue, t)
      PROVE  Moved(t)
  <2>1. stream'[t] = stream[t]
    BY <1>0, <1>5, SetStreamIs
  <2>2. Open(t)' => Open(t)
    BY <1>2, <2>1 DEF Open, Closed
  <2> QED
    BY <1>2, <1>5, <2>1, <2>2, LeftLine
<1>6. CASE CheckRound(w)
  <2>1. SetStream(s, Flushed(s, stream[s])) /\ sendQueue' = FlushedQueue(s, stream[s], sendQueue)
    BY <1>6 DEF CheckRound, s
  <2>2. CASE s = t
    <3>1. stream'[t] = Flushed(t, stream[t])
      BY <1>0, <2>1, <2>2, SetStreamIs
    <3>2. Flushed(t, stream[t]).closed = stream[t].closed
      BY <1>0, FlushedIs
    <3> QED
      BY <1>0, <1>1, <1>2, <1>3, <2>1, <2>2, <3>1, <3>2, TakenLine DEF D, r, AllThere
  <2>3. CASE s # t
    <3>1. Sending(sendQueue', t) = Sending(sendQueue, t)
      BY <1>0, <2>1, <2>3, FlushApart
    <3> QED
      BY <1>5, <2>1, <2>3, <3>1
  <2> QED
    BY <2>2, <2>3
<1>7. CASE FullRound(w)
  <2> DEFINE x == stream[s]
             z == Flushed(s, x)
             y == [z EXCEPT !.lock = NoOne]
  <2>1. SetStream(s, y) /\ sendQueue' = FlushedQueue(s, x, sendQueue)
    BY <1>7 DEF FullRound, LockWhileWaiting, s
  <2>2. z \in HostEnd /\ z.closed = x.closed
    BY <1>0, FlushedType, FlushedIs
  <2> HIDE DEF z
  <2>3. /\ y.pending = z.pending /\ y.moves = z.moves /\ y.accepted = z.accepted
        /\ y.closed = x.closed
    BY <2>2 DEF HostEnd
  <2> HIDE DEF y
  <2>4. CASE s = t
    <3>1. stream'[t] = y
      BY <1>0, <2>1, <2>4, SetStreamIs
    <3> QED
      BY <1>0, <1>1, <1>2, <1>3, <2>1, <2>3, <2>4, <3>1, TakenLine DEF D, r, AllThere, z
  <2>5. CASE s # t
    <3>1. Sending(sendQueue', t) = Sending(sendQueue, t)
      BY <1>0, <2>1, <2>5, FlushApart
    <3> QED
      BY <1>5, <2>1, <2>5, <3>1
  <2> QED
    BY <2>4, <2>5
<1>8. CASE AppendRound(w)
  <2>1. PICK m, p, n, x : Appends(w, m, p, n, x)
    BY <1>8, AppendIs
  <2>2. /\ x \in HostEnd /\ Grows(stream[s], x, m, n)
        /\ p \in PendingBefore(stream[s], m)
        /\ x.pending = p \o Bytes(stream[s].accepted, n)
        /\ x.canWrite = stream[s].canWrite /\ x.closed = stream[s].closed
        /\ SetStream(s, Flushed(s, x)) /\ sendQueue' = FlushedQueue(s, x, sendQueue)
    BY <2>1 DEF Appends, Grows, s
  <2>3. CASE s = t
    <3>1. Line(x, D, r) /\ (Full(stream[t], D, r) => Full(x, D, r))
      BY <1>0, <1>3, <2>2, <2>3, GrowLine
    <3>2. stream'[t] = Flushed(t, x)
      BY <1>0, <2>2, <2>3, SetStreamIs
    <3>3. Flushed(t, x).closed = stream[t].closed
      BY <2>2, <2>3, FlushedIs
    <3>4. x.canWrite => Queued(sendQueue, t) = {}
      BY <1>1, <2>2, <2>3
    <3>5. /\ Line(x, Sending(sendQueue, t), device[t].received)
          /\ AllThere(t) => Full(x, Sending(sendQueue, t), device[t].received)
      BY <3>1 DEF D, r, AllThere
    <3>6. sendQueue' = FlushedQueue(t, x, sendQueue)
      BY <2>2, <2>3
    <3> QED
      BY <1>2, <2>2, <3>2, <3>3, <3>4, <3>5, <3>6, TakenLine
  <2>4. CASE s # t
    <3>1. Sending(sendQueue', t) = Sending(sendQueue, t)
      BY <1>0, <2>2, <2>4, FlushApart
    <3> QED
      BY <1>5, <2>2, <2>4, <3>1
  <2> QED
    BY <2>3, <2>4
<1>9. CASE RawSend(w)
  <2> DEFINE n == Smaller(ChunkLimit, writer[w].left)
             m == Wrte(s, Bytes(stream[s].accepted, n))
             y == [stream[s] EXCEPT !.canWrite = FALSE, !.accepted = @ + n]
  <2>1. SetStream(s, y) /\ sendQueue' = Enqueue(sendQueue, m)
    BY <1>9 DEF RawSend, CreditAfterWrte, s
  <2>2. n \in Nat
    BY FlowAssumption DEF Smaller, WriterState, TypeOK
  <2> HIDE DEF n, y
  <2>3. m \in Messages /\ m.stream = s
    <3>1. Bytes(stream[s].accepted, n) \in Seq(Nat)
      BY <1>0, <2>2, BytesType DEF HostEnd
    <3> QED
      BY <1>0, <3>1, MessageType DEF Wrte
  <2> HIDE DEF m
  <2>4. Sending(sendQueue', t) = Sending(sendQueue, t)
    BY <1>0, <1>4, <1>9, <2>1, <2>3, SendingEnqueue
  <2> QED
    BY <1>4, <1>5, <1>9, <2>1, <2>4
<1> QED
  BY <1>6, <1>7, <1>8, <1>9 DEF Transfer

\* An OKAY gives the credit back, and the pending messages are flushed.
LEMMA OkayLine ==
  ASSUME TypeOK, CreditOnce, NEW t \in Streams, OneLine(t), HandleOkay
  PROVE  Moved(t)
<1> DEFINE s == First.stream
           x == [stream[s] EXCEPT !.canWrite = TRUE]
           q == FlushedQueue(s, x, sendQueue)
<1>1. /\ Reads({"OKAY"}) /\ SetStream(s, Flushed(s, x)) /\ sendQueue' = q
      /\ UNCHANGED <<device, conn>> /\ First.cmd = "OKAY"
  BY DEF HandleOkay, Reads
<1>2. s \in Streams /\ stream[s] \in HostEnd /\ sendQueue \in Seq(Messages)
  BY <1>1, ReadsFlow DEF TypeOK
<1>3. Queued(sendQueue, s) = {}
  <2>1. toHost \in Seq(Messages) /\ toHost # <<>> /\ First = Head(toHost)
    BY <1>1 DEF Reads, First, TypeOK
  <2>2. 1 \in Acked(toHost, s)
    BY <1>1, <2>1, AtTail DEF Acked
  <2> QED
    BY <1>2, <2>2 DEF CreditOnce, Exclusive
<1>4. /\ x \in HostEnd /\ x.pending = stream[s].pending /\ x.moves = stream[s].moves
      /\ x.accepted = stream[s].accepted /\ x.closed = stream[s].closed
  BY <1>2 DEF HostEnd
<1> HIDE DEF s, x, q
<1>5. Flushed(s, x).closed = stream[s].closed
  BY <1>2, <1>4, FlushedIs
<1>6. CASE s = t
  <2> DEFINE D == Sending(sendQueue, t)
             r == device[t].received
  <2>1. Line(stream[t], D, r)
    BY DEF OneLine
  <2> HIDE DEF D, r
  <2>2. Line(x, D, r) /\ (Full(stream[t], D, r) => Full(x, D, r))
    BY <1>4, <1>6, <2>1, LineLess
  <2>3. stream'[t] = Flushed(t, x)
    BY <1>1, <1>2, <1>6, SetStreamIs
  <2>4. /\ Line(x, Sending(sendQueue, t), device[t].received)
        /\ AllThere(t) => Full(x, Sending(sendQueue, t), device[t].received)
    BY <2>2 DEF D, r, AllThere
  <2>5. sendQueue' = FlushedQueue(t, x, sendQueue)
    BY <1>1, <1>6 DEF q
  <2> QED
    BY <1>1, <1>3, <1>4, <1>5, <1>6, <2>3, <2>4, <2>5, TakenLine
<1>7. CASE s # t
  <2>1. Sending(sendQueue', t) = Sending(sendQueue, t)
    BY <1>1, <1>2, <1>4, <1>7, FlushApart DEF q
  <2>2. stream'[t] = stream[t]
    BY <1>1, <1>2, <1>7, SetStreamIs
  <2>3. Open(t)' => Open(t)
    BY <1>1, <2>2 DEF Open, Closed
  <2> QED
    BY <1>1, <2>1, <2>2, <2>3, LeftLine
<1> QED
  BY <1>6, <1>7

\* The send thread brings the messages of a WRTE to the device.
LEMMA DeliveredLine ==
  ASSUME TypeOK, CreditOnce, Plain(sendQueue), NEW t \in Streams, OneLine(t), Send
  PROVE  Moved(t)
<1> DEFINE m == Head(sendQueue)
           s == m.stream
           d == [open |-> m.cmd # "CLSE", owes |-> device[s].owes \/ m.cmd = "WRTE",
                 credit |-> device[s].credit \/ m.cmd = "OKAY",
                 wrote |-> device[s].wrote, received |-> device[s].received \o m.data]
<1>0. sendQueue \in Seq(Messages) /\ device \in [Streams -> DeviceEnd]
  BY DEF TypeOK
<1>1. /\ sendQueue # <<>> /\ sendQueue' = Tail(sendQueue) /\ UNCHANGED <<stream, conn>>
      /\ ~device[s].open => UNCHANGED device
      /\ device[s].open => device' = [device EXCEPT ![s] = d]
  BY DEF Send
<1>2. m \in Messages /\ s \in Streams /\ m.data \in Seq(Nat)
  <2>1. m \in Messages
    BY <1>0, <1>1, HeadTailProperties
  <2> QED
    BY <2>1 DEF Messages
<1>3. m.cmd = "WRTE" \/ m.data = <<>>
  BY <1>0, <1>1, PlainTail
<1>4. d.received = device[s].received \o m.data
  OBVIOUS
<1>5. /\ Sending(sendQueue', t) \subseteq Sending(sendQueue, t)
      /\ m.cmd # "WRTE" \/ s # t => Sending(sendQueue', t) = Sending(sendQueue, t)
      /\ m.cmd = "WRTE" /\ s = t => Sending(sendQueue, t) = {m.data} /\ Sending(sendQueue', t) = {}
  <2>1. \A i, j \in Queued(sendQueue, t) : i = j
    BY DEF CreditOnce, Exclusive
  <2>2. m.cmd = "WRTE" /\ s = t => Queued(Tail(sendQueue), t) = {} /\ 1 \in Queued(sendQueue, t)
    BY <1>0, <1>1, <2>1, SingleTail, AtTail DEF Queued
  <2>3. /\ Sending(Tail(sendQueue), t) \subseteq Sending(sendQueue, t)
        /\ m.cmd = "WRTE" /\ s = t => m.data \in Sending(sendQueue, t)
        /\ m.cmd # "WRTE" \/ s # t => Sending(Tail(sendQueue), t) = Sending(sendQueue, t)
    BY <1>0, <1>1, SendingTail
  <2> HIDE DEF m, d
  <2>4. \A a, b \in Sending(sendQueue, t) : a = b
    BY <2>1 DEF Sending
  <2>5. /\ Sending(sendQueue', t) \subseteq Sending(sendQueue, t)
        /\ m.cmd # "WRTE" \/ s # t => Sending(sendQueue', t) = Sending(sendQueue, t)
    BY <1>1, <2>3
  <2>6. m.cmd = "WRTE" /\ s = t => Sending(sendQueue, t) = {m.data}
    BY <2>3, <2>4
  <2>7. m.cmd = "WRTE" /\ s = t => Sending(sendQueue', t) = {}
    BY <1>1, <2>2 DEF Sending
  <2> QED
    BY <2>5, <2>6, <2>7
<1> HIDE DEF m, s, d
<1>6. stream'[t] = stream[t] /\ (Closed(t)' <=> Closed(t))
  BY <1>1 DEF Closed
<1>7. device'[t].open => device[t].open
  BY <1>0, <1>1, <1>2
<1>8. Open(t)' => Open(t) /\ device[t].open /\ device'[t].open
  BY <1>6, <1>7 DEF Open
<1>9. CASE m.cmd = "WRTE" /\ s = t /\ device[s].open
  <2> DEFINE x == stream[t]
             r == device[t].received
  <2>1. device'[t].received = r \o m.data /\ r \in Seq(Nat)
    BY <1>0, <1>1, <1>2, <1>4, <1>9 DEF DeviceEnd
  <2>2. Line(x, {m.data}, r)
    BY <1>5, <1>9 DEF OneLine
  <2> HIDE DEF x, r
  <2>3. /\ Line(x, {}, r \o m.data)
        /\ Full(x, {m.data}, r) => Full(x, {}, r \o m.data)
    BY <1>2, <2>1, <2>2, SendLine
  <2>4. /\ Line(stream'[t], Sending(sendQueue', t), device'[t].received)
        /\ AllThere(t) => Full(stream'[t], Sending(sendQueue', t), device'[t].received)
    BY <1>5, <1>6, <1>9, <2>1, <2>3 DEF x, r, AllThere
  <2> QED
    BY <1>8, <2>4, LinePrimed DEF Moved
<1>10. CASE ~(m.cmd = "WRTE" /\ s = t /\ device[s].open)
  <2>1. device'[t].received = device[t].received
    <3>1. CASE s # t \/ ~device[s].open
      BY <1>0, <1>1, <1>2, <3>1
    <3>2. CASE s = t /\ device[s].open
      <4>1. device[t].received \in Seq(Nat) /\ m.data = <<>>
        BY <1>0, <1>3, <1>10, <3>2 DEF DeviceEnd
      <4>2. device'[t] = d
        BY <1>0, <1>1, <3>2
      <4> QED
        BY <1>4, <3>2, <4>1, <4>2, ConcatEmptySeq
    <3> QED
      BY <3>1, <3>2
  <2>2. Open(t)' => Sending(sendQueue', t) = Sending(sendQueue, t)
    BY <1>5, <1>8, <1>10
  <2> QED
    BY <1>5, <1>6, <1>8, <2>1, <2>2, LeftLine
<1> QED
  BY <1>9, <1>10

\* Every step.
LEMMA LineStep ==
  ASSUME TypeOK, Locked, CreditOnce, RawApart, Clearing, Plain(sendQueue), [Next]_vars,
         NEW t \in Streams, use[t] = "control", OneLine(t)
  PROVE  Moved(t)
<1>1. CASE \A s \in Streams : Quiet(s)
  <2>1. Quiet(t)
    BY <1>1
  <2>2. Open(t) => ~stream[t].closed
    BY DEF Open, Closed
  <2> QED
    BY <2>1, <2>2, LeftLine DEF Quiet
<1> QED
  BY <1>1, QuietOrNot, WriteLine, OkayLine, DeliveredLine

\* The messages of the control streams.
Ordering == \A t \in Streams : use[t] = "control" => OneLine(t)

\* The invariant behind the order of the bytes.
FlowInv == ClosingInv /\ RawApart /\ Plain(sendQueue) /\ Numbering /\ Ordering

\* Every step keeps the order.
LEMMA OrderingStep ==
  ASSUME TypeOK, Locked, CreditOnce, RawApart, Clearing, Plain(sendQueue), Ordering, [Next]_vars
  PROVE  Ordering'
<1>1. use' = use
  BY RawWriters
<1> SUFFICES ASSUME NEW t \in Streams, use[t] = "control" PROVE OneLine(t)'
  BY <1>1 DEF Ordering
<1>2. OneLine(t)
  BY DEF Ordering
<1>3. Moved(t)
  BY <1>2, LineStep
<1> QED
  BY <1>3 DEF Moved

\* Every step keeps the numbering and the order.
LEMMA FlowStep == TypeOK /\ Locked /\ CreditOnce /\ FlowInv /\ [Next]_vars => FlowInv'
<1> SUFFICES ASSUME TypeOK, Locked, CreditOnce, FlowInv, [Next]_vars PROVE FlowInv'
  OBVIOUS
<1>1. Clearing /\ ClosingInv /\ RawApart /\ Plain(sendQueue) /\ Numbering /\ Ordering
  BY DEF FlowInv, ClosingInv
<1>2. ClosingInv' /\ RawApart' /\ use' = use /\ Ordering'
  BY <1>1, ClosingStep, RawStep, RawWriters, OrderingStep
<1>3. CASE \E w \in Writers : Transfer(w)
  BY <1>1, <1>2, <1>3, WriteFlow DEF FlowInv, Plain
<1>4. CASE Send
  BY <1>1, <1>2, <1>4, SendFlow DEF FlowInv, Plain
<1>5. CASE HandleOkay
  BY <1>1, <1>2, <1>5, OkayFlow DEF FlowInv, Plain
<1>6. CASE /\ ~ \E w \in Writers : Transfer(w)
           /\ ~Send /\ ~HandleOkay
  <2>1. \A t \in Streams : Quiet(t)
    BY <1>1, <1>6, QuietOrNot
  <2> QED
    BY <1>1, <1>2, <1>6, <2>1, QuietFlow, QuietPlain DEF FlowInv, Plain
<1> QED
  BY <1>3, <1>4, <1>5, <1>6

\* Before the first step no byte has been accepted.
LEMMA InitFlow == Init => FlowInv
<1> SUFFICES ASSUME Init PROVE FlowInv
  OBVIOUS
<1>1. <<>> \in Seq(Nat) /\ Len(<<>>) = 0
  BY EmptySeq
<1>2. Bytes(0, 0) = <<>>
  <2>1. Bytes(0, 0) \in Seq(Nat) /\ Len(Bytes(0, 0)) = 0
    BY BytesAt
  <2> QED
    BY <2>1, EmptySeq
<1>3. ClosingInv
  <2>1. handle.at = "read" /\ conn.at = "open"
    BY DEF Init, Reading
  <2>2. \A s \in Streams : stream[s].closer = "none" /\ ~stream[s].closed
    BY DEF Init
  <2> QED
    BY <2>1, <2>2 DEF ClosingInv, Clearing, Drained, Settled
<1>4. RawApart
  <2>1. \A w \in Writers : writer[w].at = "idle"
    BY DEF Init, Idle
  <2>2. \A s \in Streams : use[s] = "sync" => stream[s].pending = <<>>
    BY DEF Init
  <2> QED
    BY <2>1, <2>2 DEF RawApart
<1>5. Plain(sendQueue)
  BY DEF Init, Plain
<1>6. ASSUME NEW s \in Streams
      PROVE  /\ Received(device[s].received)
             /\ Flow(s, stream[s], sendQueue, device[s].received, device[s].owes,
                     Acked(toHost, s), Closed(s))
  <2>1. device[s].received = <<>> /\ stream[s].pending = <<>> /\ stream[s].accepted = 0
    BY DEF Init
  <2>2. Sending(sendQueue, s) = {}
    BY SendingEmpty DEF Init
  <2>3. Base(stream[s]) = 0
    <3>1. Len(stream[s].pending) = 0
      BY <1>1, <2>1
    <3>2. stream[s].accepted = 0
      BY <2>1
    <3> QED
      BY <3>1, <3>2 DEF Base
  <2> QED
    BY <1>1, <1>2, <2>1, <2>2, <2>3 DEF Received, Flow
<1>7. ASSUME NEW s \in Streams PROVE OneLine(s)
  <2>1. /\ device[s].received = <<>> /\ stream[s].pending = <<>> /\ stream[s].accepted = 0
        /\ stream[s].moves = {}
    BY DEF Init
  <2>2. Sending(sendQueue, s) = {}
    BY SendingEmpty DEF Init
  <2>3. 1..0 = {} /\ DOMAIN (<<>>) = {}
    BY <1>1, LenProperties
  <2>4. /\ Named(stream[s]) /\ Unpassed(stream[s]) /\ Ranked(stream[s], <<>>)
        /\ Ahead(stream[s], <<>>, <<>>)
    BY <2>1, <2>3 DEF Named, Unpassed, Ranked, Ahead
  <2> QED
    BY <2>1, <2>2, <2>4 DEF OneLine, Line
<1> QED
  BY <1>3, <1>4, <1>5, <1>6, <1>7 DEF FlowInv, Numbering, Ordering

\* The invariant holds throughout.
LEMMA FlowCorrect == Spec => [](TypeOK /\ Locked /\ CreditOnce /\ FlowInv)
<1>1. Init => TypeOK /\ Locked /\ CreditOnce /\ FlowInv
  BY InitType, InitLocked, InitCredit, InitFlow
<1>2. TypeOK /\ Locked /\ CreditOnce /\ FlowInv /\ [Next]_vars
        => (TypeOK /\ Locked /\ CreditOnce /\ FlowInv)'
  BY TypeStep, LockedStep, CreditStep, FlowStep
<1> QED
  BY <1>1, <1>2, PTL DEF Spec

\* The invariant says what the device receives.
LEMMA InvInOrder == FlowInv => InOrder
<1> SUFFICES ASSUME FlowInv, NEW s \in Streams
             PROVE  IF use[s] = "control"
                      THEN \A i, j \in DOMAIN device[s].received :
                             i < j => Precedes(stream[s], device[s].received[i], device[s].received[j])
                      ELSE device[s].received = Bytes(0, Len(device[s].received))
  BY DEF InOrder
<1>1. CASE use[s] = "control"
  BY <1>1 DEF FlowInv, Ordering, OneLine, Line, Ranked
<1>2. CASE use[s] # "control"
  BY <1>2 DEF FlowInv, Numbering, Received
<1> QED
  BY <1>1, <1>2

\* The device receives a prefix of the accepted bytes, and the messages of a control stream in
\* an order in which only moves of different pointers change places: whoever writes, flushes,
\* merges or closes, also when writeToChannel drops messages because its queue is full.
THEOREM ReceivedInOrder == Spec => []InOrder
<1>1. FlowInv => InOrder
  BY InvInOrder
<1> QED
  BY <1>1, FlowCorrect, PTL

\* Nothing is left pending on a stream that is closed: no writer that was inside streamWrite at
\* that moment puts bytes where nobody will send or clear them.
THEOREM NothingHeld == Spec => []ClosedHoldsNothing
<1>1. FlowInv => ClosedHoldsNothing
  BY DEF FlowInv, ClosingInv, Drained, Settled, ClosedHoldsNothing
<1> QED
  BY <1>1, FlowCorrect, PTL

-----------------------------------------------------------------------------
(* The other messages of a stream.                                         *)

\* What a stream's other messages are bounded by: the device's credit is with the device, in an
\* OKAY that waits to be sent, in the payload that handleInLoop stores, or in a WRTE on its way to
\* it; and a stream is closed by one CLSE.
Storing(s) == handle = [at |-> "store", stream |-> s]

\* The device's credit is in one place.
Answers(s) ==
  Exclusive(device[s].credit, At(sendQueue, "OKAY", s), Storing(s), At(toHost, "WRTE", s))

\* A stream that nobody has begun to close has no CLSE.
Ends(s) ==
  /\ \A i, j \in At(sendQueue, "CLSE", s) : i = j
  /\ stream[s].closer = "none" => At(sendQueue, "CLSE", s) = {}

\* For every stream.
Shared == \A s \in Streams : Answers(s) /\ Ends(s)

\* What queueing a message means for the messages of a kind and a stream.
LEMMA EnqueueAny ==
  ASSUME NEW q \in Seq(Messages), NEW m \in Messages, NEW cmd, NEW s
  PROVE  /\ m.cmd # cmd \/ m.stream # s => At(Enqueue(q, m), cmd, s) = At(q, cmd, s)
         /\ At(q, cmd, s) = {} => \A i, j \in At(Enqueue(q, m), cmd, s) : i = j
<1> DEFINE p == Enqueue(q, m)
           a == Append(q, m)
<1>1. p = q \/ p = a
  BY EnqueueType
<1>2. At(a, cmd, s) = At(q, cmd, s) \cup {i \in {Len(q) + 1} : m.cmd = cmd /\ m.stream = s}
  BY AtAppend
<1> HIDE DEF p, a
<1>3. m.cmd # cmd \/ m.stream # s => At(p, cmd, s) = At(q, cmd, s)
  BY <1>1, <1>2
<1>4. At(q, cmd, s) = {} => \A i, j \in At(p, cmd, s) : i = j
  BY <1>1, <1>2
<1> QED
  BY <1>3, <1>4 DEF p

\* A flush queues a WRTE at most.
LEMMA FlushedAny ==
  ASSUME NEW s \in Streams, NEW x \in HostEnd, NEW q \in Seq(Messages), NEW cmd, cmd # "WRTE", NEW t
  PROVE  At(FlushedQueue(s, x, q), cmd, t) = At(q, cmd, t)
<1> DEFINE m == Wrte(s, SubSeq(x.pending, 1, Chunk(x)))
<1>1. m \in Messages /\ m.cmd = "WRTE"
  <2>1. SubSeq(x.pending, 1, Chunk(x)) \in Seq(Nat)
    BY ChunkType, RestType DEF HostEnd
  <2> QED
    BY <2>1, MessageType DEF Wrte
<1>2. FlushedQueue(s, x, q) = q \/ FlushedQueue(s, x, q) = Enqueue(q, m)
  BY DEF FlushedQueue
<1> HIDE DEF m
<1>3. At(Enqueue(q, m), cmd, t) = At(q, cmd, t)
  BY <1>1, EnqueueAny
<1> QED
  BY <1>2, <1>3

\* Writers queue nothing but WRTEs.
LEMMA WriteAny ==
  ASSUME TypeOK, Locked, (\E w \in Writers : Transfer(w)) \/ HandleOkay,
         NEW cmd, cmd # "WRTE", NEW t
  PROVE  At(sendQueue', cmd, t) = At(sendQueue, cmd, t)
<1>0. sendQueue \in Seq(Messages)
  BY DEF TypeOK
<1>1. ASSUME NEW w \in Writers, AppendRound(w)
      PROVE  At(sendQueue', cmd, t) = At(sendQueue, cmd, t)
  <2>1. PICK m, p, n, x : Appends(w, m, p, n, x)
    BY <1>1, AppendIs
  <2>2. StreamOf[w] \in Streams /\ x \in HostEnd
        /\ sendQueue' = FlushedQueue(StreamOf[w], x, sendQueue)
    BY <2>1, FlowAssumption DEF Appends
  <2> QED
    BY <1>0, <2>2, FlushedAny
<1>2. ASSUME NEW w \in Writers, CheckRound(w) \/ FullRound(w)
      PROVE  At(sendQueue', cmd, t) = At(sendQueue, cmd, t)
  <2>1. StreamOf[w] \in Streams /\ stream[StreamOf[w]] \in HostEnd
    BY FlowAssumption DEF TypeOK
  <2>2. sendQueue' = FlushedQueue(StreamOf[w], stream[StreamOf[w]], sendQueue)
    BY <1>2 DEF CheckRound, FullRound
  <2> QED
    BY <1>0, <2>1, <2>2, FlushedAny
<1>3. ASSUME NEW w \in Writers, RawSend(w)
      PROVE  At(sendQueue', cmd, t) = At(sendQueue, cmd, t)
  <2> DEFINE s == StreamOf[w]
             n == Smaller(ChunkLimit, writer[w].left)
             m == Wrte(s, Bytes(stream[s].accepted, n))
  <2>1. sendQueue' = Enqueue(sendQueue, m)
    BY <1>3 DEF RawSend
  <2>2. s \in Streams /\ stream[s] \in HostEnd /\ writer[w] \in WriterState
    BY FlowAssumption DEF TypeOK
  <2>3. n \in Nat
    BY <2>2, FlowAssumption DEF Smaller, WriterState
  <2> HIDE DEF n, s
  <2>4. m \in Messages /\ m.cmd = "WRTE"
    <3>1. Bytes(stream[s].accepted, n) \in Seq(Nat)
      BY <2>2, <2>3, BytesType DEF HostEnd
    <3> QED
      BY <2>2, <3>1, MessageType DEF Wrte
  <2> HIDE DEF m
  <2> QED
    BY <1>0, <2>1, <2>4, EnqueueAny
<1>4. CASE HandleOkay
  <2> DEFINE s == First.stream
             x == [stream[s] EXCEPT !.canWrite = TRUE]
  <2>1. s \in Streams /\ stream[s] \in HostEnd /\ sendQueue' = FlushedQueue(s, x, sendQueue)
    BY <1>4, ReadsFlow DEF HandleOkay, TypeOK
  <2> HIDE DEF s
  <2>2. x \in HostEnd
    BY <2>1 DEF HostEnd
  <2> HIDE DEF x
  <2> QED
    BY <1>0, <2>1, <2>2, FlushedAny
<1> QED
  BY <1>1, <1>2, <1>3, <1>4 DEF Transfer

\* A step that takes messages away.
LEMMA SharedLess ==
  ASSUME Shared,
         \A t \in Streams :
           /\ device'[t].credit = device[t].credit
           /\ At(sendQueue', "OKAY", t) = At(sendQueue, "OKAY", t) \/ At(sendQueue', "OKAY", t) = {}
           /\ Storing(t)' => Storing(t)
           /\ \A i, j \in At(toHost', "WRTE", t) : i = j
           /\ At(toHost, "WRTE", t) = {} => At(toHost', "WRTE", t) = {}
           /\ At(sendQueue', "CLSE", t) = At(sendQueue, "CLSE", t) \/ At(sendQueue', "CLSE", t) = {}
           /\ stream'[t].closer = "none" => stream[t].closer = "none"
  PROVE  Shared'
<1> SUFFICES ASSUME NEW t \in Streams PROVE Answers(t)' /\ Ends(t)'
  BY DEF Shared
<1>1. Answers(t) /\ Ends(t)
  BY DEF Shared
<1>2. Exclusive(device'[t].credit, At(sendQueue', "OKAY", t), Storing(t)', At(toHost', "WRTE", t))
  BY <1>1 DEF Answers, Exclusive
<1>3. Answers(t)'
  BY <1>2 DEF Answers, Exclusive, At
<1>4. /\ \A i, j \in At(sendQueue', "CLSE", t) : i = j
      /\ stream'[t].closer = "none" => At(sendQueue', "CLSE", t) = {}
  BY <1>1 DEF Ends
<1>5. Ends(t)'
  BY <1>4 DEF Ends, At
<1> QED
  BY <1>3, <1>5

\* A step that leaves the OKAYs, the CLSEs and what comes from the device.
LEMMA SharedSame ==
  ASSUME Shared, \A t \in Streams : /\ stream'[t].closer = stream[t].closer
                                    /\ device'[t].credit = device[t].credit,
         UNCHANGED <<handle, toHost>>,
         \A t : /\ At(sendQueue', "OKAY", t) = At(sendQueue, "OKAY", t)
                /\ At(sendQueue', "CLSE", t) = At(sendQueue, "CLSE", t)
  PROVE  Shared'
<1>1. \A t \in Streams : /\ \A i, j \in At(toHost, "WRTE", t) : i = j
                         /\ At(toHost', "WRTE", t) = At(toHost, "WRTE", t)
                         /\ Storing(t)' = Storing(t)
  BY DEF Shared, Answers, Exclusive, Storing
<1> QED
  BY <1>1, SharedLess

\* The send thread delivers an OKAY, a WRTE or a CLSE.
LEMMA SharedSend ==
  ASSUME TypeOK, Shared, Send
  PROVE  Shared'
<1> DEFINE m == Head(sendQueue)
           s == m.stream
           d == [open |-> m.cmd # "CLSE", owes |-> device[s].owes \/ m.cmd = "WRTE",
                 credit |-> device[s].credit \/ m.cmd = "OKAY",
                 wrote |-> device[s].wrote, received |-> device[s].received \o m.data]
<1>0. /\ sendQueue \in Seq(Messages) /\ toHost \in Seq(Messages)
      /\ device \in [Streams -> DeviceEnd] /\ stream \in [Streams -> HostEnd]
  BY DEF TypeOK
<1>1. /\ sendQueue # <<>> /\ sendQueue' = Tail(sendQueue) /\ UNCHANGED <<stream, handle>>
      /\ \/ UNCHANGED <<device, toHost>>
         \/ device' = [device EXCEPT ![s] = d] /\ m.cmd = "CLSE" /\ toHost' = Append(toHost, m)
         \/ device' = [device EXCEPT ![s] = d] /\ toHost' = toHost
  BY DEF Send
<1>2. m \in Messages /\ s \in Streams
  <2>1. m \in Messages
    BY <1>0, <1>1, HeadTailProperties
  <2> QED
    BY <2>1 DEF Messages
<1>3. d.credit = (device[s].credit \/ m.cmd = "OKAY")
  OBVIOUS
<1> SUFFICES ASSUME NEW t \in Streams PROVE Answers(t)' /\ Ends(t)'
  BY DEF Shared
<1>4. Answers(t) /\ Ends(t)
  BY DEF Shared
<1>5. At(toHost', "WRTE", t) = At(toHost, "WRTE", t)
  <2>1. m.cmd = "CLSE" => At(Append(toHost, m), "WRTE", t) = At(toHost, "WRTE", t)
    <3> HIDE DEF m
    <3>1. At(Append(toHost, m), "WRTE", t) =
            At(toHost, "WRTE", t) \cup {i \in {Len(toHost) + 1} : m.cmd = "WRTE" /\ m.stream = t}
      BY <1>0, <1>2, AtAppend
    <3> QED
      BY <3>1
  <2> HIDE DEF m, d
  <2> QED
    BY <1>1, <2>1
<1>6. ASSUME NEW cmd, \A i, j \in At(sendQueue, cmd, t) : i = j
      PROVE  /\ \A i, j \in At(sendQueue', cmd, t) : i = j
             /\ At(sendQueue, cmd, t) = {} => At(sendQueue', cmd, t) = {}
             /\ m.cmd = cmd /\ s = t => At(sendQueue', cmd, t) = {} /\ At(sendQueue, cmd, t) # {}
  BY <1>0, <1>1, <1>6, SingleTail, AtTail
<1>7. Ends(t)'
  <2>1. /\ \A i, j \in At(sendQueue', "CLSE", t) : i = j
        /\ At(sendQueue, "CLSE", t) = {} => At(sendQueue', "CLSE", t) = {}
    BY <1>4, <1>6 DEF Ends
  <2>2. stream'[t].closer = "none" => At(sendQueue', "CLSE", t) = {}
    BY <1>1, <1>4, <2>1 DEF Ends
  <2> QED
    BY <2>1, <2>2 DEF Ends, At
<1>8. device'[t].credit = device[t].credit \/ (m.cmd = "OKAY" /\ s = t)
  <2>1. device[t].credit \in BOOLEAN
    BY <1>0 DEF DeviceEnd
  <2> HIDE DEF m, d
  <2> QED
    BY <1>0, <1>1, <1>2, <1>3, <2>1
<1>9. Exclusive(device'[t].credit, At(sendQueue', "OKAY", t), Storing(t), At(toHost, "WRTE", t))
  <2>1. /\ \A i, j \in At(sendQueue', "OKAY", t) : i = j
        /\ At(sendQueue, "OKAY", t) = {} => At(sendQueue', "OKAY", t) = {}
        /\ m.cmd = "OKAY" /\ s = t =>
             At(sendQueue', "OKAY", t) = {} /\ At(sendQueue, "OKAY", t) # {}
    BY <1>4, <1>6 DEF Answers, Exclusive
  <2> HIDE DEF m, s, d
  <2> QED
    BY <1>4, <1>8, <2>1 DEF Answers, Exclusive
<1>10. Answers(t)'
  <2>1. Storing(t)' = Storing(t)
    BY <1>1 DEF Storing
  <2> QED
    BY <1>5, <1>9, <2>1 DEF Answers, Exclusive, At
<1> QED
  BY <1>7, <1>10

\* The device acknowledges, spends its credit on a WRTE, or closes.
LEMMA SharedDevice ==
  ASSUME TypeOK, Shared, NEW s \in Streams, Device(s)
  PROVE  Shared'
<1>0. /\ toHost \in Seq(Messages) /\ device \in [Streams -> DeviceEnd]
  BY DEF TypeOK
<1>1. UNCHANGED <<stream, sendQueue, handle>>
  BY DEF Device, DeviceAcks, DeviceWrites, DeviceCloses, DeviceSends
<1>2. /\ Okay(s) \in Messages /\ Okay(s).cmd # "WRTE" /\ Clse(s) \in Messages /\ Clse(s).cmd # "WRTE"
      /\ Wrte(s, <<>>) \in Messages /\ Wrte(s, <<>>).cmd = "WRTE" /\ Wrte(s, <<>>).stream = s
  BY MessageType, EmptySeq DEF Okay, Wrte, Clse
<1>3. ASSUME NEW m \in Messages, toHost' = Append(toHost, m), m.cmd # "WRTE",
             NEW d, device' = [device EXCEPT ![s] = d], d.credit = device[s].credit
      PROVE  Shared'
  <2>1. \A t : At(toHost', "WRTE", t) = At(toHost, "WRTE", t)
    <3> SUFFICES ASSUME NEW t PROVE At(toHost', "WRTE", t) = At(toHost, "WRTE", t)
      OBVIOUS
    <3>1. At(toHost', "WRTE", t) =
            At(toHost, "WRTE", t) \cup {i \in {Len(toHost) + 1} : m.cmd = "WRTE" /\ m.stream = t}
      BY <1>0, <1>3, AtAppend
    <3> QED
      BY <1>3, <3>1
  <2>2. \A t \in Streams : device'[t].credit = device[t].credit
    BY <1>0, <1>3
  <2>3. \A t \in Streams : /\ \A i, j \in At(toHost', "WRTE", t) : i = j
                           /\ Storing(t)' = Storing(t)
    BY <1>1, <2>1 DEF Shared, Answers, Exclusive, Storing
  <2> QED
    BY <1>1, <2>1, <2>2, <2>3, SharedLess
<1>4. CASE DeviceAcks(s)
  <2>1. toHost' = Append(toHost, Okay(s)) /\ device' = [device EXCEPT ![s] = [device[s] EXCEPT !.owes = FALSE]]
    BY <1>4 DEF DeviceAcks, DeviceSends
  <2>2. [device[s] EXCEPT !.owes = FALSE].credit = device[s].credit
    BY <1>0 DEF DeviceEnd
  <2> QED
    BY <1>2, <1>3, <2>1, <2>2
<1>5. CASE DeviceCloses(s)
  <2>1. toHost' = Append(toHost, Clse(s)) /\ device' = [device EXCEPT ![s] = [device[s] EXCEPT !.open = FALSE]]
    BY <1>5 DEF DeviceCloses, DeviceSends
  <2>2. [device[s] EXCEPT !.open = FALSE].credit = device[s].credit
    BY <1>0 DEF DeviceEnd
  <2> QED
    BY <1>2, <1>3, <2>1, <2>2
<1>6. CASE DeviceWrites(s)
  <2> DEFINE m == Wrte(s, <<>>)
             d == [device[s] EXCEPT !.credit = FALSE, !.wrote = @ + 1]
  <2>1. toHost' = Append(toHost, m) /\ device' = [device EXCEPT ![s] = d] /\ device[s].credit
    BY <1>6 DEF DeviceWrites, DeviceSends
  <2>2. d.credit = FALSE
    BY <1>0 DEF DeviceEnd
  <2> HIDE DEF d
  <2> SUFFICES ASSUME NEW t \in Streams PROVE Answers(t)' /\ Ends(t)'
    BY DEF Shared
  <2>3. Answers(t) /\ Ends(t)
    BY DEF Shared
  <2>4. Ends(t)'
    BY <1>1, <2>3 DEF Ends, At
  <2>5. At(toHost', "WRTE", t) =
          At(toHost, "WRTE", t) \cup {i \in {Len(toHost) + 1} : m.cmd = "WRTE" /\ m.stream = t}
    BY <1>0, <1>2, <2>1, AtAppend
  <2> HIDE DEF m
  <2>6. Exclusive(device'[t].credit, At(sendQueue, "OKAY", t), Storing(t), At(toHost', "WRTE", t))
    <3>1. CASE t = s
      <4>1. device'[t].credit = FALSE
        BY <1>0, <2>1, <2>2, <3>1
      <4>2. At(toHost, "WRTE", t) = {} /\ At(sendQueue, "OKAY", t) = {} /\ ~Storing(t)
        BY <2>1, <2>3, <3>1 DEF Answers, Exclusive
      <4>3. \A i, j \in At(toHost', "WRTE", t) : i = j
        BY <2>5, <4>2
      <4> QED
        BY <4>1, <4>2, <4>3 DEF Exclusive
    <3>2. CASE t # s
      <4>1. device'[t] = device[t]
        BY <1>0, <2>1, <3>2
      <4>2. At(toHost', "WRTE", t) = At(toHost, "WRTE", t)
        BY <1>2, <2>5, <3>2 DEF m
      <4> QED
        BY <2>3, <4>1, <4>2 DEF Answers
    <3> QED
      BY <3>1, <3>2
  <2>7. Answers(t)'
    BY <1>1, <2>6 DEF Answers, Exclusive, At, Storing
  <2> QED
    BY <2>4, <2>7
<1> QED
  BY <1>4, <1>5, <1>6 DEF Device

\* Reading a message takes a WRTE of its stream at most.
LEMMA ReadsShared ==
  ASSUME TypeOK, Shared, NEW cmds, Reads(cmds)
  PROVE  /\ First.stream \in Streams /\ handle.at = "read"
         /\ \A t \in Streams :
              /\ \A i, j \in At(toHost', "WRTE", t) : i = j
              /\ At(toHost, "WRTE", t) = {} => At(toHost', "WRTE", t) = {}
              /\ First.cmd = "WRTE" /\ First.stream = t =>
                   At(toHost', "WRTE", t) = {} /\ At(toHost, "WRTE", t) # {}
<1>1. toHost \in Seq(Messages) /\ toHost # <<>> /\ toHost' = Tail(toHost) /\ handle.at = "read"
  BY DEF Reads, TypeOK
<1>2. First.stream \in Streams
  BY ReadsFlow
<1>3. \A t \in Streams : \A i, j \in At(toHost, "WRTE", t) : i = j
  BY DEF Shared, Answers, Exclusive
<1> QED
  BY <1>1, <1>2, <1>3, SingleTail, AtTail DEF First

\* The receive loop stores a payload, acknowledges it, or answers a CLSE.
LEMMA SharedHandle ==
  ASSUME TypeOK, Locked, Shared, Handle
  PROVE  Shared'
<1>0. stream \in [Streams -> HostEnd] /\ sendQueue \in Seq(Messages)
  BY DEF TypeOK
<1>1. ASSUME NEW cmds, Reads(cmds), UNCHANGED device,
             \A t \in Streams : /\ stream'[t].closer = stream[t].closer
                                /\ Storing(t)' => Storing(t)
                                /\ At(sendQueue', "OKAY", t) = At(sendQueue, "OKAY", t)
                                /\ At(sendQueue', "CLSE", t) = At(sendQueue, "CLSE", t)
      PROVE  Shared'
  <2>1. \A t \in Streams : /\ \A i, j \in At(toHost', "WRTE", t) : i = j
                           /\ At(toHost, "WRTE", t) = {} => At(toHost', "WRTE", t) = {}
    BY <1>1, ReadsShared
  <2> QED
    BY <1>1, <2>1, SharedLess
<1>2. CASE HandleLate
  BY <1>1, <1>2 DEF HandleLate, Storing
<1>3. CASE HandleOkay
  <2>1. Reads({"OKAY"}) /\ UNCHANGED <<handle, device>>
    BY <1>3 DEF HandleOkay
  <2>2. \A t \in Streams : stream'[t].closer = stream[t].closer
    BY <1>3, Active
  <2>3. \A t \in Streams : /\ At(sendQueue', "OKAY", t) = At(sendQueue, "OKAY", t)
                           /\ At(sendQueue', "CLSE", t) = At(sendQueue, "CLSE", t)
                           /\ Storing(t)' => Storing(t)
    BY <1>3, <2>1, WriteAny DEF Storing
  <2> QED
    BY <1>1, <2>1, <2>2, <2>3
<1>4. CASE HandleWrte
  <2>1. /\ Reads({"WRTE"}) /\ First.cmd = "WRTE" /\ handle' = [at |-> "store", stream |-> First.stream]
        /\ UNCHANGED <<stream, sendQueue, device>>
    BY <1>4 DEF HandleWrte, Reads
  <2> SUFFICES ASSUME NEW t \in Streams PROVE Answers(t)' /\ Ends(t)'
    BY DEF Shared
  <2>2. Answers(t) /\ Ends(t)
    BY DEF Shared
  <2>3. Ends(t)'
    BY <2>1, <2>2 DEF Ends, At
  <2>4. /\ handle.at = "read"
        /\ \A i, j \in At(toHost', "WRTE", t) : i = j
        /\ At(toHost, "WRTE", t) = {} => At(toHost', "WRTE", t) = {}
        /\ First.stream = t => At(toHost', "WRTE", t) = {} /\ At(toHost, "WRTE", t) # {}
    BY <2>1, ReadsShared
  <2>5. Storing(t)' => First.stream = t
    BY <2>1 DEF Storing
  <2>6. Exclusive(device[t].credit, At(sendQueue, "OKAY", t), Storing(t)', At(toHost', "WRTE", t))
    BY <2>2, <2>4, <2>5 DEF Answers, Exclusive
  <2>7. Answers(t)'
    BY <2>1, <2>6 DEF Answers, Exclusive, At
  <2> QED
    BY <2>3, <2>7
<1>5. CASE HandleStore
  <2> DEFINE s == handle.stream
             m == Okay(s)
  <2>1. /\ s \in Streams /\ handle.at = "store" /\ handle' = Reading /\ UNCHANGED <<device, toHost>>
        /\ sendQueue' \in {sendQueue, Enqueue(sendQueue, m)}
    BY <1>5 DEF HandleStore, TypeOK, HandleState
  <2>2. \A t \in Streams : stream'[t].closer = stream[t].closer
    <3>1. PICK x \in {stream[s], [stream[s] EXCEPT !.ring = @ + 1]} : SetStream(s, x)
      BY <1>5 DEF HandleStore
    <3>2. x.closer = stream[s].closer
      BY <1>0, <2>1, <3>1 DEF HostEnd
    <3>3. \A t \in Streams : stream'[t] = IF t = s THEN x ELSE stream[t]
      BY <2>1, <3>1, SetStreamIs
    <3> QED
      BY <3>2, <3>3
  <2>3. m \in Messages /\ m.cmd = "OKAY" /\ m.stream = s
    BY <2>1, MessageType, EmptySeq DEF Okay
  <2>4. handle = [at |-> "store", stream |-> s]
    BY <2>1 DEF TypeOK, HandleState
  <2> HIDE DEF m, s
  <2> SUFFICES ASSUME NEW t \in Streams PROVE Answers(t)' /\ Ends(t)'
    BY DEF Shared
  <2>5. Answers(t) /\ Ends(t)
    BY DEF Shared
  <2>6. At(sendQueue', "CLSE", t) = At(sendQueue, "CLSE", t)
    BY <1>0, <2>1, <2>3, EnqueueAny
  <2>7. Ends(t)'
    BY <2>2, <2>5, <2>6 DEF Ends, At
  <2>8. Storing(t)' = FALSE
    BY <2>1 DEF Storing, Reading
  <2>9. Exclusive(device[t].credit, At(sendQueue', "OKAY", t), FALSE, At(toHost, "WRTE", t))
    <3>1. CASE t = s
      <4>1. Storing(t)
        BY <2>4, <3>1 DEF Storing
      <4>2. ~device[t].credit /\ At(sendQueue, "OKAY", t) = {} /\ At(toHost, "WRTE", t) = {}
        BY <2>5, <4>1 DEF Answers, Exclusive
      <4>3. \A i, j \in At(sendQueue', "OKAY", t) : i = j
        BY <1>0, <2>1, <2>3, <4>2, EnqueueAny
      <4> QED
        BY <4>2, <4>3 DEF Exclusive
    <3>2. CASE t # s
      <4>1. At(sendQueue', "OKAY", t) = At(sendQueue, "OKAY", t)
        BY <1>0, <2>1, <2>3, <3>2, EnqueueAny
      <4> QED
        BY <2>5, <4>1 DEF Answers, Exclusive
    <3> QED
      BY <3>1, <3>2
  <2>10. Answers(t)'
    BY <2>1, <2>8, <2>9 DEF Answers, Exclusive, At
  <2> QED
    BY <2>7, <2>10
<1>6. CASE HandleClse
  <2>1. /\ Reads({"CLSE"}) /\ SetStream(First.stream, [stream[First.stream] EXCEPT !.closed = TRUE])
        /\ handle' = [at |-> "clear", stream |-> First.stream] /\ UNCHANGED <<sendQueue, device>>
    BY <1>6 DEF HandleClse
  <2>2. First.stream \in Streams
    BY <2>1, ReadsFlow
  <2> HIDE DEF First
  <2>3. [stream[First.stream] EXCEPT !.closed = TRUE].closer = stream[First.stream].closer
    BY <1>0, <2>2 DEF HostEnd
  <2>4. \A t \in Streams : stream'[t] = IF t = First.stream THEN [stream[First.stream] EXCEPT !.closed = TRUE]
                                                             ELSE stream[t]
    BY <2>1, <2>2, SetStreamIs
  <2>5. \A t \in Streams : stream'[t].closer = stream[t].closer
    BY <2>3, <2>4
  <2>6. \A t \in Streams : ~Storing(t)'
    BY <2>1 DEF Storing
  <2> QED
    BY <1>1, <2>1, <2>5, <2>6
<1>7. CASE HandleClear
  <2> DEFINE s == handle.stream
             x == [Cleared(stream[s]) EXCEPT !.listed = FALSE]
  <2>1. s \in Streams /\ SetStream(s, x) /\ handle' = Reading /\ UNCHANGED <<sendQueue, device, toHost>>
    BY <1>7 DEF HandleClear, TypeOK, HandleState
  <2>2. x.closer = stream[s].closer
    BY <1>0, <2>1 DEF Cleared, HostEnd
  <2> HIDE DEF x
  <2>3. \A t \in Streams : stream'[t] = IF t = s THEN x ELSE stream[t]
    BY <2>1, SetStreamIs
  <2>4. \A t \in Streams : stream'[t].closer = stream[t].closer /\ ~Storing(t)'
    BY <2>1, <2>2, <2>3 DEF Storing, Reading
  <2>5. \A t \in Streams : \A i, j \in At(toHost', "WRTE", t) : i = j
    BY <2>1 DEF Shared, Answers, Exclusive
  <2> QED
    BY <2>1, <2>4, <2>5, SharedLess
<1>8. CASE HandleExit
  <2>1. UNCHANGED <<stream, sendQueue, device, toHost>> /\ handle'.at = "exited"
    BY <1>8 DEF HandleExit, TypeOK, HandleState
  <2>2. \A t \in Streams : ~Storing(t)'
    BY <2>1 DEF Storing
  <2>3. \A t \in Streams : \A i, j \in At(toHost', "WRTE", t) : i = j
    BY <2>1 DEF Shared, Answers, Exclusive
  <2> QED
    BY <2>1, <2>2, <2>3, SharedLess
<1> QED
  BY <1>2, <1>3, <1>4, <1>5, <1>6, <1>7, <1>8 DEF Handle

\* Reading, and closing a stream or the connection.
LEMMA SharedClose ==
  ASSUME TypeOK, Locked, Shared,
         \/ \E s \in Streams : Read(s) \/ CloseStream(s) \/ FinishCloseStream(s)
         \/ \E c \in Closers : CloseBegin(c)
         \/ FinishClose
  PROVE  Shared'
<1>0. /\ sendQueue \in Seq(Messages) /\ stream \in [Streams -> HostEnd]
      /\ \A t \in Streams : \A i, j \in At(toHost, "WRTE", t) : i = j
  BY DEF TypeOK, Shared, Answers, Exclusive
<1>1. ASSUME NEW s \in Streams, Read(s) PROVE Shared'
  <2> DEFINE x == [stream[s] EXCEPT !.ring = @ - 1]
  <2>1. SetStream(s, x) /\ UNCHANGED <<handle, device, toHost, sendQueue>>
    BY <1>1 DEF Read
  <2>2. x.closer = stream[s].closer
    BY <1>0 DEF HostEnd
  <2> HIDE DEF x
  <2>3. \A t \in Streams : stream'[t].closer = stream[t].closer
    BY <2>1, <2>2, SetStreamIs
  <2> QED
    BY <2>1, <2>3, SharedSame
<1>2. ASSUME NEW s \in Streams, NEW x, SetStream(s, x), x.closer # "none",
             UNCHANGED <<sendQueue, handle, device, toHost>>
      PROVE  Shared'
  <2>1. \A t \in Streams : stream'[t] = IF t = s THEN x ELSE stream[t]
    BY <1>2, SetStreamIs
  <2>2. \A t \in Streams : /\ stream'[t].closer = "none" => stream[t].closer = "none"
                           /\ Storing(t)' = Storing(t)
    BY <1>2, <2>1 DEF Storing
  <2> QED
    BY <1>0, <1>2, <2>2, SharedLess
<1>3. ASSUME NEW s \in Streams, FinishCloseStream(s) PROVE Shared'
  <2>1. /\ [stream[s] EXCEPT !.closed = TRUE, !.closer = "clear"].closer = "clear"
        /\ [Cleared(stream[s]) EXCEPT !.closer = "done"].closer = "done"
    BY <1>0 DEF Cleared, HostEnd
  <2> QED
    BY <1>2, <1>3, <2>1 DEF FinishCloseStream, CloseStreamMark, CloseStreamClear
<1>4. ASSUME NEW s \in Streams, CloseStream(s) PROVE Shared'
  <2> DEFINE x == [stream[s] EXCEPT !.listed = FALSE, !.closer = "mark"]
             m == Clse(s)
  <2>1. /\ stream[s].closer = "none" /\ SetStream(s, x)
        /\ sendQueue' = Enqueue(sendQueue, m) /\ UNCHANGED <<handle, device, toHost>>
    BY <1>4 DEF CloseStream
  <2>2. m \in Messages /\ m.cmd = "CLSE" /\ m.stream = s /\ x.closer = "mark"
    BY <1>0, MessageType, EmptySeq DEF Clse, HostEnd
  <2> HIDE DEF m, x
  <2>3. \A t \in Streams : stream'[t] = IF t = s THEN x ELSE stream[t]
    BY <2>1, SetStreamIs
  <2> SUFFICES ASSUME NEW t \in Streams PROVE Answers(t)' /\ Ends(t)'
    BY DEF Shared
  <2>4. Answers(t) /\ Ends(t)
    BY DEF Shared
  <2>5. At(sendQueue', "OKAY", t) = At(sendQueue, "OKAY", t)
    BY <1>0, <2>1, <2>2, EnqueueAny
  <2>6. Answers(t)'
    BY <2>1, <2>4, <2>5 DEF Answers, Exclusive, At, Storing
  <2>7. /\ \A i, j \in At(sendQueue', "CLSE", t) : i = j
        /\ stream'[t].closer = "none" => At(sendQueue', "CLSE", t) = {}
    <3>1. CASE t = s
      <4>1. At(sendQueue, "CLSE", t) = {}
        BY <2>1, <2>4, <3>1 DEF Ends
      <4>2. \A i, j \in At(sendQueue', "CLSE", t) : i = j
        BY <1>0, <2>1, <2>2, <4>1, EnqueueAny
      <4> QED
        BY <2>2, <2>3, <3>1, <4>2
    <3>2. CASE t # s
      <4>1. At(sendQueue', "CLSE", t) = At(sendQueue, "CLSE", t)
        BY <1>0, <2>1, <2>2, <3>2, EnqueueAny
      <4> QED
        BY <2>3, <2>4, <3>2, <4>1 DEF Ends
    <3> QED
      BY <3>1, <3>2
  <2> QED
    BY <2>6, <2>7 DEF Ends, At
<1>5. ASSUME NEW c \in Closers, CloseBegin(c) PROVE Shared'
  <2>1. UNCHANGED <<stream, sendQueue, device>> /\ toHost' = <<>>
    BY <1>5 DEF CloseBegin
  <2>2. \A t \in Streams : Storing(t)' => Storing(t)
    <3>1. handle' = handle \/ handle'.at = "closing"
      BY <1>5 DEF CloseBegin, TypeOK, HandleState
    <3> QED
      BY <3>1 DEF Storing
  <2>3. \A t : At(toHost', "WRTE", t) = {}
    BY <2>1, AtEmpty
  <2> QED
    BY <2>1, <2>2, <2>3, SharedLess
<1>6. CASE FinishClose
  <2>1. UNCHANGED <<handle, device, toHost>> /\ (sendQueue' = sendQueue \/ sendQueue' = <<>>)
    BY <1>6 DEF FinishClose, CloseJoinSend, CloseMark, CloseJoinHandle
  <2>2. \A t \in Streams : stream'[t].closer = stream[t].closer
    BY <1>0, <1>6 DEF FinishClose, CloseJoinSend, CloseMark, CloseJoinHandle, HostEnd
  <2>3. \A t : /\ At(sendQueue', "OKAY", t) = At(sendQueue, "OKAY", t) \/ At(sendQueue', "OKAY", t) = {}
               /\ At(sendQueue', "CLSE", t) = At(sendQueue, "CLSE", t) \/ At(sendQueue', "CLSE", t) = {}
    BY <2>1, AtEmpty
  <2>4. \A t \in Streams : Storing(t)' = Storing(t)
    BY <2>1 DEF Storing
  <2> QED
    BY <1>0, <2>1, <2>2, <2>3, <2>4, SharedLess
<1> QED
  BY <1>1, <1>3, <1>4, <1>5, <1>6

\* Every step.
LEMMA SharedStep ==
  ASSUME TypeOK, Locked, Shared, [Next]_vars
  PROVE  Shared'
<1>1. CASE UNCHANGED vars
  BY <1>1, SharedSame DEF vars
<1>2. ASSUME NEW w \in Writers, StartWrite(w) \/ StartRawWrite(w) \/ Write(w) PROVE Shared'
  <2>1. UNCHANGED <<handle, device, toHost>>
    BY <1>2 DEF Write, StartWrite, StartRawWrite, LockStream, CheckRound, AppendRound, FullRound,
                ThrowRound, RawCheck, RawDoze, RawRetry, RawSend
  <2>2. CASE Transfer(w)
    <3>1. \A t \in Streams : stream'[t].closer = stream[t].closer
      BY <2>2, Active
    <3>2. \A t : /\ At(sendQueue', "OKAY", t) = At(sendQueue, "OKAY", t)
                 /\ At(sendQueue', "CLSE", t) = At(sendQueue, "CLSE", t)
      BY <2>2, WriteAny
    <3> QED
      BY <2>1, <3>1, <3>2, SharedSame
  <2>3. CASE StartRawWrite(w) \/ RawCheck(w) \/ RawDoze(w) \/ RawRetry(w)
    <3>1. UNCHANGED <<stream, sendQueue>>
      BY <2>3 DEF StartRawWrite, RawCheck, RawDoze, RawRetry
    <3> QED
      BY <2>1, <3>1, SharedSame
  <2>4. CASE StartWrite(w) \/ LockStream(w) \/ ThrowRound(w)
    <3>1. StreamOf[w] \in Streams /\ stream[StreamOf[w]] \in HostEnd /\ UNCHANGED sendQueue
      BY <2>4, FlowAssumption DEF TypeOK, StartWrite, LockStream, ThrowRound
    <3>2. PICK l : SetStream(StreamOf[w], [stream[StreamOf[w]] EXCEPT !.lock = l])
      BY <2>4 DEF StartWrite, LockStream, ThrowRound
    <3>3. [stream[StreamOf[w]] EXCEPT !.lock = l].closer = stream[StreamOf[w]].closer
      BY <3>1 DEF HostEnd
    <3>4. \A t \in Streams : stream'[t].closer = stream[t].closer
      BY <3>1, <3>2, <3>3, SetStreamIs
    <3> QED
      BY <2>1, <3>1, <3>4, SharedSame
  <2> QED
    BY <1>2, <2>2, <2>3, <2>4 DEF Write, Transfer
<1>3. CASE SendExit
  BY <1>3, SharedSame DEF SendExit
<1> QED
  BY <1>1, <1>2, <1>3, SharedSend, SharedDevice, SharedHandle, SharedClose DEF Next

\* Before the first step every queue is empty.
LEMMA InitShared == Init => Shared
<1> SUFFICES ASSUME Init, NEW t \in Streams PROVE Answers(t) /\ Ends(t)
  BY DEF Shared
<1>1. \A cmd : At(sendQueue, cmd, t) = {} /\ At(toHost, cmd, t) = {}
  BY AtEmpty DEF Init
<1>2. ~Storing(t)
  BY DEF Init, Storing, Reading
<1> QED
  BY <1>1, <1>2 DEF Answers, Ends, Exclusive

-----------------------------------------------------------------------------
(* The send queue has room.                                                *)

\* The messages that the send queue can hold.
Commands == {"WRTE", "OKAY", "CLSE"}

\* A queue with at most one message of a kind for each stream.
LEMMA QueueBound ==
  ASSUME IsFiniteSet(Streams), NEW q \in Seq(Messages),
         \A cmd \in Commands, s \in Streams : \A i, j \in At(q, cmd, s) : i = j
  PROVE  Len(q) <= 3 * Cardinality(Streams)
<1> DEFINE n == Len(q)
           T == Commands \X Streams
           f == [i \in 1..n |-> <<q[i].cmd, q[i].stream>>]
<1>1. n \in Nat /\ DOMAIN q = 1..n /\ \A i \in 1..n : q[i] \in Messages
  BY LenProperties, ElementOfSeq
<1>2. \A i \in 1..n : q[i].cmd \in Commands /\ q[i].stream \in Streams
  BY <1>1 DEF Messages, Commands
<1>3. f \in Injection(1..n, T)
  <2>1. f \in [1..n -> T]
    BY <1>2
  <2>2. ASSUME NEW i \in 1..n, NEW j \in 1..n, f[i] = f[j] PROVE i = j
    <3>1. q[i].cmd = q[j].cmd /\ q[i].stream = q[j].stream
      BY <2>2
    <3>2. i \in At(q, q[i].cmd, q[i].stream) /\ j \in At(q, q[i].cmd, q[i].stream)
      BY <1>1, <3>1 DEF At
    <3> QED
      BY <1>2, <3>2
  <2> QED
    BY <2>1, <2>2 DEF Injection, IsInjective
<1>4. IsFiniteSet(Commands) /\ Cardinality(Commands) = 3
  <2>1. IsFiniteSet({"WRTE"}) /\ Cardinality({"WRTE"}) = 1
    BY FS_Singleton
  <2>2. IsFiniteSet({"WRTE"} \cup {"OKAY"}) /\ Cardinality({"WRTE"} \cup {"OKAY"}) = 2
    <3>1. "OKAY" \notin {"WRTE"}
      OBVIOUS
    <3>2. /\ IsFiniteSet({"WRTE"} \cup {"OKAY"})
          /\ Cardinality({"WRTE"} \cup {"OKAY"}) = Cardinality({"WRTE"}) + 1
      BY <2>1, <3>1, FS_AddElement, Zenon
    <3> QED
      BY <2>1, <3>2
  <2>3. /\ IsFiniteSet(({"WRTE"} \cup {"OKAY"}) \cup {"CLSE"})
        /\ Cardinality(({"WRTE"} \cup {"OKAY"}) \cup {"CLSE"}) = 3
    <3>1. "CLSE" \notin {"WRTE"} \cup {"OKAY"}
      OBVIOUS
    <3>2. /\ IsFiniteSet(({"WRTE"} \cup {"OKAY"}) \cup {"CLSE"})
          /\ Cardinality(({"WRTE"} \cup {"OKAY"}) \cup {"CLSE"})
               = Cardinality({"WRTE"} \cup {"OKAY"}) + 1
      BY <2>2, <3>1, FS_AddElement, Zenon
    <3> QED
      BY <2>2, <3>2
  <2>4. ({"WRTE"} \cup {"OKAY"}) \cup {"CLSE"} = Commands
    BY DEF Commands
  <2> QED
    BY <2>3, <2>4
<1>5. IsFiniteSet(T) /\ Cardinality(T) = 3 * Cardinality(Streams)
  BY <1>4, FS_Product
<1>6. Cardinality(1..n) = n
  <2>1. 1 \in Int /\ n \in Int
    BY <1>1
  <2>2. Cardinality(1..n) = IF 1 > n THEN 0 ELSE n - 1 + 1
    BY <2>1, FS_Interval
  <2> HIDE DEF n
  <2> QED
    BY <1>1, <2>2
<1> HIDE DEF f, T
<1>7. Cardinality(1..n) <= Cardinality(T)
  BY <1>3, <1>5, FS_Injection
<1> QED
  BY <1>5, <1>6, <1>7 DEF n

\* The queue takes what all streams together can have in it.
FewStreams == IsFiniteSet(Streams) /\ 3 * Cardinality(Streams) <= QueueLimit + 1

\* The queue has room for a WRTE of a stream that has none in it.
LEMMA RoomToWrite ==
  ASSUME FewStreams, TypeOK, CreditOnce, Shared, NEW s \in Streams, Queued(sendQueue, s) = {}
  PROVE  Len(sendQueue) <= QueueLimit
<1> DEFINE m == Wrte(s, <<>>)
           q == Append(sendQueue, m)
<1>1. m \in Messages /\ m.cmd = "WRTE" /\ m.stream = s /\ sendQueue \in Seq(Messages)
  BY MessageType, EmptySeq DEF Wrte, TypeOK
<1> HIDE DEF m
<1>2. q \in Seq(Messages) /\ Len(q) = Len(sendQueue) + 1 /\ Len(sendQueue) \in Nat
  BY <1>1, AppendProperties, LenProperties
<1>3. \A cmd, t : At(q, cmd, t) = At(sendQueue, cmd, t)
                                  \cup {i \in {Len(sendQueue) + 1} : m.cmd = cmd /\ m.stream = t}
  BY <1>1, AtAppend
<1> HIDE DEF q
<1>4. ASSUME NEW cmd \in Commands, NEW t \in Streams
      PROVE  \A i, j \in At(q, cmd, t) : i = j
  <2>1. \A i, j \in At(sendQueue, cmd, t) : i = j
    BY DEF CreditOnce, Shared, Answers, Ends, Exclusive, Queued, Commands
  <2>2. cmd = "WRTE" /\ t = s => At(sendQueue, cmd, t) = {}
    BY DEF Queued
  <2> QED
    BY <1>1, <1>3, <2>1, <2>2
<1>5. Len(q) <= 3 * Cardinality(Streams)
  BY <1>2, <1>4, QueueBound DEF FewStreams
<1>6. Cardinality(Streams) \in Nat /\ QueueLimit \in Nat
  BY FS_CardinalityType, FlowAssumption DEF FewStreams
<1> QED
  BY <1>2, <1>5, <1>6 DEF FewStreams

-----------------------------------------------------------------------------
(* The credit is kept.                                                     *)

\* An open stream's credit is held, or is spent on a WRTE that is in the queue.
Kept == \A s \in Streams : Open(s) => Holding(s) \/ Queued(sendQueue, s) # {}

\* A WRTE that has room is in the queue.
LEMMA EnqueueRoom ==
  ASSUME NEW q \in Seq(Messages), NEW s \in Streams, NEW m \in Messages,
         m.cmd = "WRTE", m.stream = s, ~conn.closed, Len(q) <= QueueLimit
  PROVE  Queued(Enqueue(q, m), s) # {}
<1>1. Len(q) \in Nat /\ QueueLimit \in Nat
  BY LenProperties, FlowAssumption
<1>2. Enqueue(q, m) = Append(q, m)
  BY <1>1 DEF Enqueue
<1>3. Queued(Append(q, m), s) =
        Queued(q, s) \cup {i \in {Len(q) + 1} : m.cmd = "WRTE" /\ m.stream = s}
  BY AtAppend DEF Queued
<1> QED
  BY <1>2, <1>3

\* A flush that finds room turns a credit into a WRTE in the queue.
LEMMA FlushSpends ==
  ASSUME NEW s \in Streams, NEW x \in HostEnd, NEW q \in Seq(Messages), NEW D, NEW K,
         x.canWrite => Len(q) <= QueueLimit,
         Held(x.canWrite, D, K) \/ Queued(q, s) # {}
  PROVE  /\ Held(Flushed(s, x).canWrite, D, K) \/ Queued(FlushedQueue(s, x, q), s) # {}
         /\ Flushed(s, x).canWrite => x.canWrite /\ FlushedQueue(s, x, q) = q
<1> DEFINE m == Wrte(s, SubSeq(x.pending, 1, Chunk(x)))
<1>1. m \in Messages /\ m.cmd = "WRTE" /\ m.stream = s
  <2>1. SubSeq(x.pending, 1, Chunk(x)) \in Seq(Nat)
    BY ChunkType, RestType DEF HostEnd
  <2> QED
    BY <2>1, MessageType DEF Wrte
<1>2. CASE CanFlush(s, x)
  <2>1. /\ x.canWrite /\ ~conn.closed /\ Flushed(s, x).canWrite = FALSE
        /\ FlushedQueue(s, x, q) = Enqueue(q, m)
    <3>1. Flushed(s, x) = [x EXCEPT !.canWrite = FALSE, !.pending = Rest(@, Chunk(x))]
      BY <1>2 DEF Flushed, CreditAfterWrte
    <3>2. Flushed(s, x).canWrite = FALSE
      BY <3>1 DEF HostEnd
    <3> QED
      BY <1>2, <3>2 DEF CanFlush, FlushedQueue, Closed
  <2> HIDE DEF m
  <2> QED
    BY <1>1, <2>1, EnqueueRoom
<1>3. CASE ~CanFlush(s, x)
  BY <1>3 DEF Flushed, FlushedQueue
<1> QED
  BY <1>2, <1>3

\* A step that writes to stream s alone.
LEMMA KeptAt ==
  ASSUME TypeOK, Kept, NEW s \in Streams, NEW x, SetStream(s, x), UNCHANGED <<device, conn>>,
         x.closed = stream[s].closed,
         Open(s) => Held(x.canWrite, device[s].owes, Acked(toHost', s)) \/ Queued(sendQueue', s) # {},
         \A t \in Streams : t # s => /\ Queued(sendQueue', t) = Queued(sendQueue, t)
                                     /\ Acked(toHost, t) # {} => Acked(toHost', t) # {}
  PROVE  Kept'
<1> SUFFICES ASSUME NEW t \in Streams, Open(t)'
             PROVE  \/ Held(stream'[t].canWrite, device'[t].owes, Acked(toHost', t))
                    \/ Queued(sendQueue', t) # {}
  BY DEF Kept, Holding, Held, Queued, Acked, At
<1>1. stream'[t] = IF t = s THEN x ELSE stream[t]
  BY SetStreamIs
<1>2. Open(t)
  BY <1>1 DEF Open, Closed
<1>3. CASE t = s
  BY <1>1, <1>2, <1>3
<1>4. CASE t # s
  BY <1>1, <1>2, <1>4 DEF Kept, Holding, Held
<1> QED
  BY <1>3, <1>4

\* A writer's round in streamWrite, and a write of a sync service.
LEMMA KeptWrite ==
  ASSUME FewStreams, TypeOK, Locked, CreditOnce, Shared, Kept, NEW w \in Writers, Transfer(w)
  PROVE  Kept'
<1> DEFINE s == StreamOf[w]
           D == device[s].owes
           K == Acked(toHost, s)
<1>0. s \in Streams /\ stream[s] \in HostEnd /\ writer[w] \in WriterState
      /\ sendQueue \in Seq(Messages) /\ D \in BOOLEAN
  BY FlowAssumption DEF TypeOK, DeviceEnd
<1>1. stream[s].canWrite => Len(sendQueue) <= QueueLimit
  <2>1. Exclusive(stream[s].canWrite, Queued(sendQueue, s), D, K)
    BY <1>0 DEF CreditOnce
  <2>2. stream[s].canWrite => Queued(sendQueue, s) = {}
    BY <2>1 DEF Exclusive
  <2> HIDE DEF s
  <2> QED
    BY <1>0, <2>2, RoomToWrite
<1>2. Open(s) => Held(stream[s].canWrite, D, K) \/ Queued(sendQueue, s) # {}
  BY <1>0 DEF Kept, Holding
<1>3. UNCHANGED <<device, toHost, conn>>
  BY DEF Transfer, CheckRound, AppendRound, FullRound, RawSend
<1>4. Acked(toHost', s) = K /\ \A t \in Streams : Acked(toHost', t) = Acked(toHost, t)
  BY <1>3
<1> HIDE DEF s, D, K
<1>5. ASSUME NEW x, SetStream(s, x), x.closed = stream[s].closed,
             Open(s) => Held(x.canWrite, D, K) \/ Queued(sendQueue', s) # {},
             \A t \in Streams : t # s => Queued(sendQueue', t) = Queued(sendQueue, t)
      PROVE  Kept'
  <2>1. Open(s) => Held(x.canWrite, device[s].owes, Acked(toHost', s)) \/ Queued(sendQueue', s) # {}
    BY <1>4, <1>5 DEF D
  <2> QED
    BY <1>0, <1>3, <1>4, <1>5, <2>1, KeptAt
<1>9. CASE AppendRound(w)
  <2>1. PICK m, p, n, x : Appends(w, m, p, n, x)
    BY <1>9, AppendIs
  <2>2. /\ x \in HostEnd /\ x.canWrite = stream[s].canWrite /\ x.closed = stream[s].closed
        /\ SetStream(s, Flushed(s, x)) /\ sendQueue' = FlushedQueue(s, x, sendQueue)
    BY <2>1 DEF Appends, s
  <2>3. Open(s) => Held(Flushed(s, x).canWrite, D, K) \/ Queued(FlushedQueue(s, x, sendQueue), s) # {}
    BY <1>0, <1>1, <1>2, <2>2, FlushSpends
  <2>4. \A t \in Streams : t # s => Queued(FlushedQueue(s, x, sendQueue), t) = Queued(sendQueue, t)
    BY <1>0, <2>2, FlushKeeps
  <2>5. Flushed(s, x).closed = stream[s].closed
    BY <1>0, <2>2, FlushApart
  <2> QED
    BY <1>5, <2>2, <2>3, <2>4, <2>5
<1>12. CASE CheckRound(w)
  <2>2. SetStream(s, Flushed(s, stream[s])) /\ sendQueue' = FlushedQueue(s, stream[s], sendQueue)
    BY <1>12 DEF CheckRound, s
  <2>3. Open(s) => \/ Held(Flushed(s, stream[s]).canWrite, D, K)
                   \/ Queued(FlushedQueue(s, stream[s], sendQueue), s) # {}
    BY <1>0, <1>1, <1>2, FlushSpends
  <2>4. \A t \in Streams :
           t # s => Queued(FlushedQueue(s, stream[s], sendQueue), t) = Queued(sendQueue, t)
    BY <1>0, FlushKeeps
  <2>5. Flushed(s, stream[s]).closed = stream[s].closed
    BY <1>0, FlushApart
  <2> QED
    BY <1>5, <2>2, <2>3, <2>4, <2>5
<1>10. CASE FullRound(w)
  <2> DEFINE x == Flushed(s, stream[s])
             y == [x EXCEPT !.lock = NoOne]
             q == FlushedQueue(s, stream[s], sendQueue)
  <2>1. SetStream(s, y) /\ sendQueue' = q
    BY <1>10 DEF FullRound, LockWhileWaiting, s
  <2>2. x \in HostEnd /\ x.closed = stream[s].closed
    BY <1>0, FlushedType, FlushApart
  <2>3. \A t \in Streams : t # s => Queued(q, t) = Queued(sendQueue, t)
    BY <1>0, FlushKeeps
  <2>4. Open(s) => Held(x.canWrite, D, K) \/ Queued(q, s) # {}
    BY <1>0, <1>1, <1>2, FlushSpends
  <2> HIDE DEF x, q
  <2>5. y.canWrite = x.canWrite /\ y.closed = x.closed
    BY <2>2 DEF HostEnd
  <2> HIDE DEF y
  <2> QED
    BY <1>5, <2>1, <2>2, <2>3, <2>4, <2>5
<1>11. CASE RawSend(w)
  <2> DEFINE n == Smaller(ChunkLimit, writer[w].left)
             m == Wrte(s, Bytes(stream[s].accepted, n))
             y == [stream[s] EXCEPT !.canWrite = FALSE, !.accepted = @ + n]
  <2>1. /\ SetStream(s, y) /\ sendQueue' = Enqueue(sendQueue, m) /\ ~conn.closed /\ stream[s].canWrite
    BY <1>11 DEF RawSend, CreditAfterWrte, s, Closed
  <2>2. n \in Nat
    BY <1>0, FlowAssumption DEF Smaller, WriterState
  <2> HIDE DEF n
  <2>3. m \in Messages /\ m.cmd = "WRTE" /\ m.stream = s
    <3>1. Bytes(stream[s].accepted, n) \in Seq(Nat)
      BY <1>0, <2>2, BytesType DEF HostEnd
    <3> QED
      BY <1>0, <3>1, MessageType DEF Wrte
  <2>4. y.closed = stream[s].closed
    BY <1>0 DEF HostEnd
  <2> HIDE DEF m, y
  <2>5. Queued(sendQueue', s) # {}
    BY <1>0, <1>1, <2>1, <2>3, EnqueueRoom
  <2>6. \A t \in Streams : t # s => Queued(sendQueue', t) = Queued(sendQueue, t)
    BY <1>0, <2>1, <2>3, EnqueueAt
  <2> QED
    BY <1>5, <2>1, <2>4, <2>5, <2>6
<1> QED
  BY <1>9, <1>10, <1>11, <1>12 DEF Transfer

\* An OKAY gives the credit back, and the pending bytes are flushed.
LEMMA KeptOkay ==
  ASSUME FewStreams, TypeOK, CreditOnce, Shared, Kept, HandleOkay
  PROVE  Kept'
<1> DEFINE s == First.stream
           x == [stream[s] EXCEPT !.canWrite = TRUE]
           D == device[s].owes
           L == Acked(toHost', s)
           q == FlushedQueue(s, x, sendQueue)
<1>1. /\ Reads({"OKAY"}) /\ SetStream(s, Flushed(s, x)) /\ sendQueue' = q
      /\ UNCHANGED <<device, conn>> /\ First.cmd = "OKAY"
  BY DEF HandleOkay, Reads
<1>2. s \in Streams /\ stream[s] \in HostEnd /\ sendQueue \in Seq(Messages)
  BY <1>1, ReadsFlow DEF TypeOK
<1>3. Queued(sendQueue, s) = {}
  <2>1. toHost \in Seq(Messages) /\ toHost # <<>> /\ First = Head(toHost)
    BY <1>1 DEF Reads, First, TypeOK
  <2>2. 1 \in Acked(toHost, s)
    BY <1>1, <2>1, AtTail DEF Acked
  <2> QED
    BY <1>2, <2>2 DEF CreditOnce, Exclusive
<1>4. \A t \in Streams : t # s => (Acked(toHost, t) # {} => Acked(toHost', t) # {})
  BY <1>1, ReadsFlow
<1> HIDE DEF s
<1>5. Len(sendQueue) <= QueueLimit
  BY <1>2, <1>3, RoomToWrite
<1>6. x \in HostEnd /\ x.canWrite = TRUE /\ x.closed = stream[s].closed
  BY <1>2 DEF HostEnd
<1> HIDE DEF x, D, L
<1>7. /\ Held(Flushed(s, x).canWrite, D, L) \/ Queued(q, s) # {}
      /\ \A t \in Streams : t # s => Queued(q, t) = Queued(sendQueue, t)
      /\ Flushed(s, x).closed = stream[s].closed
  <2>1. Held(x.canWrite, D, L)
    BY <1>6 DEF Held
  <2>2. Held(Flushed(s, x).canWrite, D, L) \/ Queued(q, s) # {}
    BY <1>2, <1>5, <1>6, <2>1, FlushSpends
  <2>3. Flushed(s, x).closed = stream[s].closed
    BY <1>2, <1>6, FlushApart
  <2>4. \A t \in Streams : t # s => Queued(q, t) = Queued(sendQueue, t)
    <3> SUFFICES ASSUME NEW t \in Streams, t # s PROVE Queued(q, t) = Queued(sendQueue, t)
      OBVIOUS
    <3>1. TRUE \in BOOLEAN
      OBVIOUS
    <3> QED
      BY <1>2, <1>6, <3>1, FlushKeeps
  <2> QED
    BY <2>2, <2>3, <2>4
<1> HIDE DEF q
<1>8. Held(Flushed(s, x).canWrite, device[s].owes, Acked(toHost', s)) \/ Queued(sendQueue', s) # {}
  BY <1>1, <1>7 DEF D, L
<1> QED
  BY <1>1, <1>2, <1>4, <1>7, <1>8, KeptAt

\* The WRTE that leaves the queue takes the credit to the device.
LEMMA KeptSend ==
  ASSUME TypeOK, Kept, Send
  PROVE  Kept'
<1> DEFINE m == Head(sendQueue)
           s == m.stream
           d == [open |-> m.cmd # "CLSE", owes |-> device[s].owes \/ m.cmd = "WRTE",
                 credit |-> device[s].credit \/ m.cmd = "OKAY",
                 wrote |-> device[s].wrote, received |-> device[s].received \o m.data]
<1>0. /\ sendQueue \in Seq(Messages) /\ toHost \in Seq(Messages)
      /\ device \in [Streams -> DeviceEnd] /\ stream \in [Streams -> HostEnd]
  BY DEF TypeOK
<1>1. /\ sendQueue # <<>> /\ sendQueue' = Tail(sendQueue) /\ UNCHANGED <<stream, conn>>
      /\ ~device[s].open => UNCHANGED <<device, toHost>>
      /\ device[s].open => /\ device' = [device EXCEPT ![s] = d]
                           /\ toHost' = IF m.cmd = "CLSE" THEN Append(toHost, m) ELSE toHost
  BY DEF Send
<1>2. m \in Messages /\ s \in Streams
  <2>1. m \in Messages
    BY <1>0, <1>1, HeadTailProperties
  <2> QED
    BY <2>1 DEF Messages
<1>3. d.owes = (device[s].owes \/ m.cmd = "WRTE") /\ d.open = (m.cmd # "CLSE")
  OBVIOUS
<1> SUFFICES ASSUME NEW t \in Streams, Open(t)'
             PROVE  \/ Held(stream'[t].canWrite, device'[t].owes, Acked(toHost', t))
                    \/ Queued(sendQueue', t) # {}
  BY DEF Kept, Holding, Held, Queued, Acked, At
<1>4. Acked(toHost', t) = Acked(toHost, t)
  <2>1. m.cmd = "CLSE" => Acked(Append(toHost, m), t) = Acked(toHost, t)
    <3> HIDE DEF m
    <3> QED
      BY <1>0, <1>2, AckedAppend
  <2> HIDE DEF m, d
  <2> QED
    BY <1>1, <2>1
<1>5. m.cmd # "WRTE" \/ s # t => (Queued(sendQueue, t) # {} => Queued(sendQueue', t) # {})
  <2>1. m.cmd # "WRTE" \/ s # t => Sending(Tail(sendQueue), t) = Sending(sendQueue, t)
    BY <1>0, <1>1, SendingTail
  <2> HIDE DEF m, s
  <2>2. Queued(sendQueue, t) # {} => Sending(sendQueue, t) # {}
    BY DEF Sending
  <2>3. Sending(Tail(sendQueue), t) # {} => Queued(sendQueue', t) # {}
    BY <1>1 DEF Sending
  <2> QED
    BY <2>1, <2>2, <2>3
<1> HIDE DEF m, s, d
<1>6. device'[t].open /\ ~Closed(t)
  BY <1>1 DEF Open, Closed
<1>7. CASE t = s
  <2>1. device[s].open /\ device'[t] = d
    BY <1>0, <1>1, <1>2, <1>6, <1>7
  <2>2. CASE m.cmd = "WRTE"
    BY <1>3, <2>1, <2>2 DEF Held
  <2>3. CASE m.cmd # "WRTE"
    <3>1. Open(t)
      BY <1>6, <1>7, <2>1 DEF Open
    <3>2. Held(stream[t].canWrite, device[t].owes, Acked(toHost, t)) \/ Queued(sendQueue, t) # {}
      BY <3>1 DEF Kept, Holding
    <3>3. device[t].owes => device'[t].owes
      BY <1>3, <1>7, <2>1
    <3> QED
      BY <1>1, <1>4, <1>5, <2>3, <3>2, <3>3 DEF Held
  <2> QED
    BY <2>2, <2>3
<1>8. CASE t # s
  <2>1. device'[t] = device[t]
    BY <1>0, <1>1, <1>8
  <2>2. Open(t)
    BY <1>6, <2>1 DEF Open
  <2> QED
    BY <1>1, <1>4, <1>5, <1>8, <2>1, <2>2 DEF Kept, Holding
<1> QED
  BY <1>7, <1>8

\* No other step takes a credit.
LEMMA KeptQuiet ==
  ASSUME Kept, \A t \in Streams : Quiet(t)
  PROVE  Kept'
<1> SUFFICES ASSUME NEW t \in Streams, Open(t)'
             PROVE  Holding(t)' \/ Queued(sendQueue', t) # {}
  BY DEF Kept, Queued, At
<1>1. /\ Open(t) /\ Sending(sendQueue, t) \subseteq Sending(sendQueue', t)
      /\ Holding(t) => Holding(t)'
  BY DEF Quiet
<1>2. Holding(t) \/ Queued(sendQueue, t) # {}
  BY <1>1 DEF Kept
<1>3. Queued(sendQueue, t) # {} => Sending(sendQueue', t) # {}
  BY <1>1 DEF Sending
<1>4. Queued(sendQueue, t) # {} => Queued(sendQueue', t) # {}
  BY <1>3 DEF Sending
<1> QED
  BY <1>1, <1>2, <1>4

\* Every step.
LEMMA KeptStep ==
  ASSUME FewStreams, TypeOK, Locked, CreditOnce, Shared, Clearing, Kept, [Next]_vars
  PROVE  Kept'
  BY QuietOrNot, KeptQuiet, KeptWrite, KeptSend, KeptOkay

\* No accepted message of a control stream is missing.
Complete == \A t \in Streams : use[t] = "control" /\ Open(t) => AllThere(t)

\* Every step.
LEMMA CompleteStep ==
  ASSUME FewStreams, TypeOK, Locked, CreditOnce, FlowInv, Shared, Complete, [Next]_vars
  PROVE  Complete'
<1>1. Clearing /\ RawApart /\ Plain(sendQueue) /\ Ordering
  BY DEF FlowInv, ClosingInv
<1>2. use' = use
  BY <1>1, RawWriters
<1> SUFFICES ASSUME NEW t \in Streams, use[t] = "control", Open(t)' PROVE AllThere(t)'
  BY <1>2 DEF Complete
<1>3. OneLine(t)
  BY <1>1 DEF Ordering
<1>4. Moved(t)
  BY <1>1, <1>3, LineStep
<1>5. Open(t) /\ AllThere(t)
  BY <1>4 DEF Moved, Complete
<1>6. Queued(sendQueue, t) = {} => Len(sendQueue) <= QueueLimit
  BY RoomToWrite
<1> QED
  BY <1>4, <1>5, <1>6 DEF Moved

\* The invariant behind the credit.
FullInv == TypeOK /\ Locked /\ CreditOnce /\ FlowInv /\ Shared /\ Kept /\ Complete

\* The invariant holds throughout.
LEMMA FullCorrect == ASSUME FewStreams PROVE Spec => []FullInv
<1>1. Init => FullInv
  <2> SUFFICES ASSUME Init PROVE FullInv
    OBVIOUS
  <2>1. Kept
    BY DEF Init, Kept, Holding, Held
  <2>2. Complete
    BY DEF Init, Complete, AllThere, Full
  <2> QED
    BY <2>1, <2>2, InitType, InitLocked, InitCredit, InitFlow, InitShared DEF FullInv
<1>2. FullInv /\ [Next]_vars => FullInv'
  <2> SUFFICES ASSUME FullInv, [Next]_vars PROVE FullInv'
    OBVIOUS
  <2>1. TypeOK /\ Locked /\ CreditOnce /\ FlowInv /\ Shared /\ Kept /\ Complete /\ Clearing
    BY DEF FullInv, FlowInv, ClosingInv
  <2>2. TypeOK' /\ Locked' /\ CreditOnce' /\ FlowInv'
    BY <2>1, TypeStep, LockedStep, CreditStep, FlowStep
  <2>3. Shared' /\ Kept' /\ Complete'
    BY <2>1, SharedStep, KeptStep, CompleteStep
  <2> QED
    BY <2>2, <2>3 DEF FullInv
<1> QED
  BY <1>1, <1>2, PTL DEF Spec

\* The credit of an open stream is never lost: the OKAY that the device owes for it, or the WRTE
\* that takes it there, is not dropped by writeToChannel, as long as its queue takes one message
\* of each kind for every stream.
THEOREM CreditStays == ASSUME FewStreams PROVE Spec => []CreditKept
<1>1. FullInv => CreditKept
  <2> SUFFICES ASSUME FullInv, NEW s \in Streams, Open(s) PROVE Credits(s) # {}
    BY DEF CreditKept
  <2>1. Holding(s) \/ Queued(sendQueue, s) # {}
    BY DEF FullInv, Kept
  <2>2. CASE stream[s].canWrite
    BY <2>2 DEF Credits
  <2>3. CASE device[s].owes
    BY <2>3 DEF Credits
  <2>4. CASE Acked(toHost, s) # {}
    BY <2>4 DEF Credits, Acked
  <2>5. CASE Queued(sendQueue, s) # {}
    BY <2>5 DEF Credits, Queued
  <2> QED
    BY <2>1, <2>2, <2>3, <2>4, <2>5 DEF Holding, Held
<1> QED
  BY <1>1, FullCorrect, PTL

\* The payload that waits.
LEMMA WaitingIs ==
  ASSUME TypeOK, CreditOnce, NEW s \in Streams
  PROVE  Waiting(s) \in Seq(Nat) /\ Sending(sendQueue, s) \subseteq {Waiting(s)}
<1>1. \A i, j \in Queued(sendQueue, s) : i = j
  BY DEF CreditOnce, Exclusive
<1>2. CASE Queued(sendQueue, s) = {}
  BY <1>2, EmptySeq DEF Waiting, Queued, Sending
<1>3. CASE Queued(sendQueue, s) # {}
  <2> DEFINE i == CHOOSE j \in Queued(sendQueue, s) : TRUE
  <2>1. i \in Queued(sendQueue, s) /\ Waiting(s) = sendQueue[i].data
    BY <1>3 DEF Waiting, Queued
  <2>2. sendQueue \in Seq(Messages) /\ i \in DOMAIN sendQueue
    BY <2>1 DEF Queued, At, TypeOK
  <2> HIDE DEF i
  <2>3. sendQueue[i] \in Messages
    BY <2>2, LenProperties
  <2>4. Waiting(s) \in Seq(Nat)
    BY <2>1, <2>3 DEF Messages
  <2>5. Sending(sendQueue, s) \subseteq {Waiting(s)}
    BY <1>1, <2>1 DEF Sending
  <2> QED
    BY <2>4, <2>5
<1> QED
  BY <1>2, <1>3

\* The members of two sequences are those of their concatenation.
LEMMA Joined ==
  ASSUME NEW r \in Seq(Nat), NEW d \in Seq(Nat)
  PROVE  /\ r \o d \in Seq(Nat)
         /\ \A q \in {r, d} : \A i \in DOMAIN q : \E j \in DOMAIN (r \o d) : (r \o d)[j] = q[i]
<1> DEFINE a == r \o d
           n == Len(r)
           m == Len(d)
<1>1. /\ n \in Nat /\ m \in Nat /\ DOMAIN r = 1..n /\ DOMAIN d = 1..m
  BY LenProperties
<1>2. /\ a \in Seq(Nat) /\ Len(a) = n + m
      /\ \A j \in 1 .. n + m : a[j] = IF j <= n THEN r[j] ELSE d[j - n]
  BY ConcatProperties
<1>3. DOMAIN a = 1 .. n + m
  BY <1>2, LenProperties
<1> HIDE DEF a, n, m
<1>4. \A i \in 1..n : i \in 1 .. n + m /\ i <= n
  BY <1>1
<1>5. \A i \in 1..n : a[i] = r[i]
  BY <1>2, <1>4
<1>6. \A i \in 1..m : n + i \in 1 .. n + m /\ ~(n + i <= n) /\ (n + i) - n = i
  BY <1>1
<1>7. \A i \in 1..m : a[n + i] = d[i]
  BY <1>2, <1>6
<1>8. \A q \in {r, d} : \A i \in DOMAIN q : \E j \in DOMAIN a : a[j] = q[i]
  BY <1>1, <1>3, <1>4, <1>5, <1>6, <1>7
<1> QED
  BY <1>2, <1>8 DEF a

\* The messages of an open control stream.
LEMMA MessagesAccounted ==
  ASSUME FullInv, NEW s \in Streams, use[s] = "control", Open(s), NEW k \in 1..stream[s].accepted
  PROVE  Covers(stream[s], device[s].received \o Waiting(s) \o stream[s].pending, k)
<1> DEFINE x == stream[s]
           r == device[s].received
           d == Waiting(s)
           all == r \o d \o x.pending
<1>1. TypeOK /\ CreditOnce /\ AllThere(s)
  BY DEF FullInv, Complete
<1>2. r \in Seq(Nat) /\ x.pending \in Seq(Nat)
  BY <1>1 DEF TypeOK, DeviceEnd, HostEnd
<1>3. d \in Seq(Nat) /\ Sending(sendQueue, s) \subseteq {d}
  BY <1>1, WaitingIs
<1>4. \E q \in Sending(sendQueue, s) \cup {r, x.pending} : Covers(x, q, k)
  BY <1>1 DEF AllThere, Full
<1> HIDE DEF d, r, x
<1>5. PICK q \in {r, d, x.pending} : Covers(x, q, k)
  BY <1>3, <1>4
<1>6. PICK i \in DOMAIN q : q[i] = k \/ Supersedes(x, q[i], k)
  BY <1>5 DEF Covers
<1>7. PICK j \in DOMAIN all : all[j] = q[i]
  <2> DEFINE a == r \o d
  <2>1. /\ a \in Seq(Nat)
        /\ \A c \in {r, d} : \A h \in DOMAIN c : \E j \in DOMAIN a : a[j] = c[h]
    BY <1>2, <1>3, Joined
  <2> HIDE DEF a
  <2>2. \A c \in {a, x.pending} : \A h \in DOMAIN c :
          \E j \in DOMAIN (a \o x.pending) : (a \o x.pending)[j] = c[h]
    BY <1>2, <2>1, Joined
  <2>3. \E j \in DOMAIN (a \o x.pending) : (a \o x.pending)[j] = q[i]
    <3>1. CASE q = x.pending
      BY <1>6, <2>2, <3>1
    <3>2. CASE q \in {r, d}
      <4>1. PICK h \in DOMAIN a : a[h] = q[i]
        BY <1>6, <2>1, <3>2
      <4>2. \E j \in DOMAIN (a \o x.pending) : (a \o x.pending)[j] = a[h]
        BY <2>2
      <4> QED
        BY <4>1, <4>2
    <3> QED
      BY <1>5, <3>1, <3>2
  <2> QED
    BY <2>3 DEF a
<1> HIDE DEF all
<1>8. Covers(x, all, k)
  BY <1>6, <1>7 DEF Covers
<1> QED
  BY <1>8 DEF all, d, r, x

\* The bytes of another open stream.
LEMMA AllBytes ==
  ASSUME FullInv, NEW s \in Streams, use[s] # "control", Open(s)
  PROVE  device[s].received \o Waiting(s) \o stream[s].pending = Bytes(0, stream[s].accepted)
<1> DEFINE r == device[s].received
           k == Len(r)
           x == stream[s]
           l == Len(x.pending)
           b == Base(x)
           D == device[s].owes
           K == Acked(toHost, s)
<1>1. TypeOK /\ CreditOnce /\ Numbering /\ Kept /\ ~Closed(s)
  BY DEF FullInv, FlowInv, Open
<1>2. /\ Received(r) /\ Flow(s, x, sendQueue, r, D, K, Closed(s))
      /\ Exclusive(x.canWrite, Queued(sendQueue, s), D, K)
      /\ Held(x.canWrite, D, K) \/ Queued(sendQueue, s) # {}
      /\ r \in Seq(Nat) /\ x \in HostEnd
  BY <1>1 DEF Numbering, CreditOnce, Kept, Holding, TypeOK, DeviceEnd
<1> HIDE DEF D, K
<1>3. /\ k \in Nat /\ l \in Nat /\ x.accepted \in Nat /\ r = Bytes(0, k)
      /\ l <= x.accepted /\ x.pending = Bytes(b, l) /\ b = x.accepted - l
  BY <1>2, LenProperties DEF Received, Flow, HostEnd, Base
<1> HIDE DEF x, r, k, l, b
<1>4. ASSUME NEW n \in Nat, Waiting(s) = Bytes(k, n), b = k + n
      PROVE  r \o Waiting(s) \o x.pending = Bytes(0, x.accepted)
  <2>1. 0 + k = k /\ k + n \in Nat /\ 0 + (k + n) = b /\ (k + n) + l = x.accepted /\ 0 \in Nat
    BY <1>3, <1>4
  <2>2. Bytes(0, k) \o Bytes(0 + k, n) = Bytes(0, k + n)
    BY <1>3, BytesConcat
  <2>3. Bytes(0, k + n) \o Bytes(0 + (k + n), l) = Bytes(0, (k + n) + l)
    BY <1>3, <2>1, BytesConcat
  <2>4. r \o Waiting(s) = Bytes(0, k + n)
    BY <1>3, <1>4, <2>1, <2>2
  <2> QED
    BY <1>3, <2>1, <2>3, <2>4
<1>5. CASE Queued(sendQueue, s) = {}
  <2>1. Waiting(s) = <<>> /\ b = k
    BY <1>1, <1>2, <1>5 DEF Waiting, Queued, Flow, k, b
  <2>2. Bytes(k, 0) \in Seq(Nat) /\ Len(Bytes(k, 0)) = 0
    BY <1>3, BytesAt
  <2>3. Bytes(k, 0) = <<>>
    BY <2>2, EmptySeq
  <2>4. 0 \in Nat /\ b = k + 0
    BY <1>3, <2>1
  <2> QED
    BY <1>4, <2>1, <2>3, <2>4 DEF r, x
<1>6. CASE Queued(sendQueue, s) # {}
  <2> DEFINE i == CHOOSE j \in Queued(sendQueue, s) : TRUE
             d == sendQueue[i].data
  <2>1. i \in Queued(sendQueue, s) /\ Waiting(s) = d
    BY <1>6 DEF Waiting, Queued
  <2>2. d \in Sending(sendQueue, s) /\ d \in Seq(Nat)
    <3>1. sendQueue \in Seq(Messages) /\ i \in DOMAIN sendQueue
      BY <1>1, <2>1 DEF Queued, At, TypeOK
    <3>2. sendQueue[i] \in Messages
      BY <3>1, LenProperties
    <3> QED
      BY <2>1, <3>2 DEF Sending, Messages
  <2> HIDE DEF d, i
  <2>3. d = Bytes(k, Len(d)) /\ b = k + Len(d) /\ Len(d) \in Nat
    BY <1>1, <1>2, <2>2, LenProperties DEF Flow, k, b
  <2> QED
    BY <1>4, <2>1, <2>3 DEF r, x
<1> QED
  BY <1>5, <1>6

\* With the credit kept nothing is missing: the bytes that are received, those of the WRTE that
\* waits and the pending ones are the accepted ones; of the messages of a control stream only
\* moves are missing, each because of a later one of its pointer.
THEOREM AllAccounted == ASSUME FewStreams PROVE Spec => []BytesAccounted
<1>1. FullInv => Lossless
  BY MessagesAccounted, AllBytes DEF Lossless
<1>2. FullInv => InOrder /\ ClosedHoldsNothing
  <2>1. FullInv => InOrder
    BY InvInOrder DEF FullInv
  <2>2. FullInv => ClosedHoldsNothing
    BY DEF FullInv, FlowInv, ClosingInv, Drained, Settled, ClosedHoldsNothing
  <2> QED
    BY <2>1, <2>2
<1>3. FullInv => BytesAccounted
  BY <1>1, <1>2 DEF BytesAccounted
<1> QED
  BY <1>3, FullCorrect, PTL

=============================================================================
