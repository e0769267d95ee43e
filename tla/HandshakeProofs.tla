-------------------------- MODULE HandshakeProofs --------------------------
(***************************************************************************)
(* What Handshake promises, proved for any number of retries and addresses *)
(* and any length of the exchange:                                         *)
(*                                                                         *)
(*   TypeCorrect      TypeOK                                               *)
(*   ToldTheTruth     ResultTrue                                           *)
(*   NumberOnce       ClosedOnce                                           *)
(*                                                                         *)
(* They rest on one inductive invariant, IInv: which channel there is at   *)
(* each place of connect (There), who has the number of the socket         *)
(* (Owner), what the device can still answer (Order), and what is known    *)
(* when connect decides on its result (Told).                              *)
(***************************************************************************)
EXTENDS Handshake, SequenceTheorems, TLAPS

Alive == table \in {"listed", "unlisted"}
Reading == {"refuse", "sign", "signed", "key", "confirm", "failed", "late", "connected", "assign"}

(* Which channel connect, close and the receive loop find.                 *)
There ==
  /\ ~Alive => at \in {"idle", "over"} /\ channel = "none"
  /\ table \in {"none", "failed"} => at = "idle" /\ closer = "none"
  /\ table = "none" => attempt.retry <= Retries
  /\ table = "destroyed" => closer = "done"
  /\ table = "listed" => closer = "none"
  /\ Alive =>
       /\ at \in {"idle", "hello", "first", "upgrade", "release", "delete"} => channel = "tcp"
       /\ at = "forget" => channel = "deleted"
       /\ at = "tls" => channel = "none"
       /\ at = "upgraded" => channel = "tls"
       /\ at \in Reading => channel \in {"tcp", "tls"}
       /\ at \in {"broken", "over"} => channel \in {"tcp", "tls", "none"}
  /\ loop.at # "none" => at \in {"assign", "over"} /\ (Alive => channel \in {"tcp", "tls"})
  /\ at = "assign" => loop.at # "none"
  /\ closer \in {"tls", "tls shut"} => channel = "tls"

(* Who has the number of the socket.                                       *)
Owner ==
  /\ table \in {"none", "failed"} =>
       /\ \A c \in {"tcp", "tls"} : ~chan[c].closed /\ ~chan[c].fd
       /\ sock.closes = 0 /\ ~sock.open /\ ~sock.moved
  /\ table \notin {"none", "failed"} => sock.open \/ sock.closes > 0
  /\ chan["tls"].closed => channel = "tls" \/ table = "destroyed"
  /\ chan["tls"].fd => sock.moved
  /\ sock.moved => chan["tcp"].closed /\ ~chan["tcp"].fd
  /\ channel = "tls" \/ at \in {"delete", "forget", "tls"} => sock.moved
  /\ sock.moved /\ channel = "tcp" => at = "delete"
  /\ ~sock.moved => sock.closes <= 1 /\ (chan["tcp"].fd => sock.closes = 0)
  /\ sock.open =>
       /\ Alive
       /\ \/ channel = "tcp" /\ chan["tcp"].fd
          \/ chan["tls"].fd /\ (channel = "tls" \/ at \in {"delete", "forget", "tls", "broken"})
  /\ at # "over" /\ (chan["tcp"].fd \/ chan["tls"].fd) => sock.open
  /\ chan["tcp"].closed /\ chan["tcp"].fd => closer = "tcp shut"
  /\ chan["tls"].closed /\ chan["tls"].fd => closer = "tls shut"
  /\ channel = "tcp" /\ ~chan["tcp"].closed => chan["tcp"].fd
  /\ channel = "tls" /\ ~chan["tls"].closed => chan["tls"].fd

(* Only the first answer can ask for an upgrade.                           *)
Order ==
  /\ at \in {"idle", "hello"} => asked = <<>> /\ wire = <<>>
  /\ at = "first" => \/ asked = <<"CNXN">> /\ wire = <<>>
                     \/ asked = <<>> /\ Len(wire) = 1
  /\ at \notin {"idle", "hello", "first", "over"} =>
       /\ \A i \in 1..Len(asked) : asked[i] # "CNXN"
       /\ \A i \in 1..Len(wire) : wire[i] # "STLS"

(* What is known when connect decides.                                     *)
Told ==
  /\ got = "CNXN" => device.online
  /\ \A i \in 1..Len(wire) : wire[i] = "CNXN" => device.online
  /\ at \in {"connected", "assign"} => got = "CNXN"
  /\ at \in {"idle", "hello", "first"} => got = "nothing"
  /\ at \notin {"assign", "over", "delete"} /\ channel \in {"tcp", "tls"} =>
       (chan[channel].closed => closer # "none")
  /\ at = "failed" => ~device.up \/ chan[channel].closed

(* TypeOK in four parts.                                                   *)
Control ==
  /\ at \in {"idle", "hello", "first", "refuse", "sign", "signed", "key", "confirm", "failed", "late",
            "connected", "assign", "upgrade", "release", "delete", "forget", "tls", "upgraded", "broken",
            "over"}
  /\ result \in {1, 0, -1, -3, -4, -5, -6, -7} /\ (at = "over" <=> result # 1)
Names ==
  /\ attempt \in [retry : 1..(Retries + 1), address : 1..Addresses]
  /\ table \in {"none", "failed", "listed", "unlisted", "destroyed"}
  /\ closed \in BOOLEAN
  /\ closer \in {"none", "begin", "channel", "tcp", "tls", "deleted", "tcp shut", "tls shut", "join",
     "done"}
  /\ channel \in {"none", "tcp", "tls", "deleted"}
  /\ loop \in [at : {"none", "running", "reading", "polling", "deaf", "ended"}, joinable : BOOLEAN]
Medium ==
  /\ chan \in [{"tcp", "tls"} -> [closed : BOOLEAN, fd : BOOLEAN]]
  /\ sock \in [open : BOOLEAN, closes : Nat, moved : BOOLEAN]
Far ==
  /\ got \in {"nothing", "CNXN", "AUTH", "STLS", "OTHER"}
  /\ wire \in Seq({"CNXN", "AUTH", "STLS", "OTHER"})
  /\ asked \in Seq({"CNXN", "SIGNATURE", "KEY", "TLS"})
  /\ device \in [up : BOOLEAN, online : BOOLEAN, tls : BOOLEAN, partial : BOOLEAN]

IInv == Control /\ Names /\ Medium /\ Far /\ There /\ Owner /\ Order /\ Told /\ ResultTrue

(* The definitions under which tuples of variables are named are always expanded. *)
USE DEF application, closing, medium, far

Messages == {"CNXN", "AUTH", "STLS", "OTHER"}
Requests == {"CNXN", "SIGNATURE", "KEY", "TLS"}
Ready == [closed |-> TRUE, fd |-> FALSE]
Sockets == [open : BOOLEAN, closes : Nat, moved : BOOLEAN]
NumberClosed(s) == [s EXCEPT !.open = FALSE, !.closes = @ + 1]

-----------------------------------------------------------------------------
(* Sequences.                                                              *)

LEMMA HeadAndTail ==
  ASSUME NEW S, NEW q \in Seq(S), q # <<>>
  PROVE  /\ Head(q) \in S /\ Tail(q) \in Seq(S)
         /\ Len(q) \in Nat \ {0} /\ Len(Tail(q)) = Len(q) - 1
         /\ Head(q) = q[1] /\ \A i \in 1..Len(Tail(q)) : Tail(q)[i] = q[i + 1]
  BY HeadTailProperties

LEMMA Appended ==
  ASSUME NEW S, NEW q \in Seq(S), NEW x \in S
  PROVE  /\ Append(q, x) \in Seq(S) /\ Len(Append(q, x)) = Len(q) + 1 /\ Len(q) \in Nat
         /\ \A i \in 1..Len(Append(q, x)) : Append(q, x)[i] = (IF i = Len(q) + 1 THEN x ELSE q[i])
  BY AppendProperties, LenProperties

-----------------------------------------------------------------------------
(* Helpers of the actions.                                                 *)

\* The receive loop goes on: nothing changes but its place.
Turns == LoopReads \/ LoopPolls \/ LoopTurns

LEMMA Turning ==
  ASSUME Names, Turns
  PROVE  /\ loop' \in [at : {"running", "reading", "polling", "deaf"}, joinable : BOOLEAN]
         /\ loop.at # "none" /\ loop'.at # "none"
         /\ UNCHANGED <<application, at, result, got, closing, medium, far>>
<1>1. CASE LoopReads
  BY <1>1 DEF Names, LoopReads
<1>2. CASE LoopPolls
  BY <1>2 DEF Names, LoopPolls
<1>3. CASE LoopTurns
  BY <1>3 DEF Names, LoopTurns, Blocked
<1> QED
  BY <1>1, <1>2, <1>3 DEF Turns

\* What a message that connect reads says, and what is left.
LEMMA Taking ==
  ASSUME Far, Told, wire # <<>>, Takes
  PROVE  /\ got' = Head(wire) /\ got' \in Messages /\ wire' \in Seq(Messages)
         /\ got' = "CNXN" => device.online
         /\ \A i \in 1..Len(wire') : wire'[i] = "CNXN" => device.online
         /\ (\A i \in 1..Len(wire) : wire[i] # "STLS") =>
              got' # "STLS" /\ \A i \in 1..Len(wire') : wire'[i] # "STLS"
         /\ Len(wire) = 1 => Len(wire') = 0
<1>1. wire \in Seq(Messages)
  BY DEF Far, Messages
<1>2. got' = wire[1] /\ wire' = Tail(wire) /\ got' = Head(wire)
  BY <1>1, HeadAndTail DEF Takes
<1>3. Len(wire) \in Nat \ {0} /\ Len(wire') = Len(wire) - 1
  BY <1>1, <1>2, HeadAndTail
<1>4. \A i \in 1..Len(wire') : i + 1 \in 1..Len(wire) /\ wire'[i] = wire[i + 1]
  BY <1>1, <1>2, <1>3, HeadAndTail
<1>5. got' \in Messages /\ wire' \in Seq(Messages)
  BY <1>1, <1>2, HeadAndTail
<1>6. 1 \in 1..Len(wire)
  BY <1>3
<1>7. \A i \in 1..Len(wire) : wire[i] = "CNXN" => device.online
  BY DEF Told
<1> QED
  BY <1>2, <1>3, <1>4, <1>5, <1>6, <1>7

\* close() of the channel by connect, the receive loop or the destructor.
LEMMA Closing ==
  ASSUME Medium, Names, Owner, ConnectCloses, channel # "deleted"
  PROVE  \/ UNCHANGED <<chan, sock>> /\ (channel # "none" => chan[channel].closed)
         \/ /\ channel \in {"tcp", "tls"} /\ ~chan[channel].closed /\ chan[channel].fd
            /\ chan' = [chan EXCEPT ![channel] = Ready]
            /\ sock' = [open |-> FALSE, closes |-> sock.closes + 1, moved |-> sock.moved]
  BY DEF Medium, Names, Owner, ConnectCloses, Shut, Ready

\* While connect is at work, and while the receive loop runs, there is a channel where they look.
LEMMA Has ==
  ASSUME Control, Names, There
  PROVE  /\ at \notin {"idle", "over", "forget", "tls", "broken"} => channel \in {"tcp", "tls"}
         /\ loop.at # "none" /\ table # "destroyed" => channel \in {"tcp", "tls"}
         /\ channel = "deleted" => at = "forget"
         /\ at \notin {"idle", "over"} => Alive
  BY DEF Control, Names, There, Alive, Reading

\* What the device has yet to answer when connect asks, and when it answers.
LEMMA Sending ==
  ASSUME Far, NEW r \in Requests, asked' = Append(asked, r)
  PROVE  /\ asked' \in Seq(Requests)
         /\ (\A i \in 1..Len(asked) : asked[i] # "CNXN") /\ r # "CNXN" =>
              \A i \in 1..Len(asked') : asked'[i] # "CNXN"
<1>1. asked \in Seq(Requests)
  BY DEF Far, Requests
<1>2. /\ asked' \in Seq(Requests) /\ Len(asked') = Len(asked) + 1 /\ Len(asked) \in Nat
      /\ \A i \in 1..Len(asked') : asked'[i] = (IF i = Len(asked) + 1 THEN r ELSE asked[i])
  BY <1>1, Appended
<1> QED
  BY <1>2

LEMMA Answering ==
  ASSUME Far, Told, asked # <<>>, NEW m \in Answers(Head(asked)),
         wire' = Append(wire, m), asked' = Tail(asked)
  PROVE  /\ wire' \in Seq(Messages) /\ asked' \in Seq(Requests)
         /\ \A i \in 1..Len(wire') : wire'[i] = "CNXN" => device.online \/ m = "CNXN"
         /\ (\A i \in 1..Len(asked) : asked[i] # "CNXN") /\ (\A i \in 1..Len(wire) : wire[i] # "STLS") =>
              /\ \A i \in 1..Len(asked') : asked'[i] # "CNXN"
              /\ \A i \in 1..Len(wire') : wire'[i] # "STLS"
         /\ Len(asked) = 1 /\ wire = <<>> => asked' = <<>> /\ Len(wire') = 1
<1>1. asked \in Seq(Requests) /\ wire \in Seq(Messages)
  BY DEF Far, Requests, Messages
<1>2. /\ Head(asked) = asked[1] /\ Head(asked) \in Requests /\ asked' \in Seq(Requests)
      /\ Len(asked) \in Nat \ {0} /\ Len(asked') = Len(asked) - 1
      /\ \A i \in 1..Len(asked') : asked'[i] = asked[i + 1]
  BY <1>1, HeadAndTail
<1>3. m \in Messages /\ (m = "STLS" => asked[1] = "CNXN")
  BY <1>2 DEF Answers, Messages, Requests
<1>4. /\ wire' \in Seq(Messages) /\ Len(wire') = Len(wire) + 1 /\ Len(wire) \in Nat
      /\ \A i \in 1..Len(wire') : wire'[i] = (IF i = Len(wire) + 1 THEN m ELSE wire[i])
  BY <1>1, <1>3, Appended
<1>5. \A i \in 1..Len(wire') : wire'[i] = "CNXN" => device.online \/ m = "CNXN"
  BY <1>4 DEF Told
<1>6. \A i \in 1..Len(asked') : i + 1 \in 1..Len(asked)
  BY <1>2
<1>7. 1 \in 1..Len(asked)
  BY <1>2
<1>8. Len(asked) = 1 /\ wire = <<>> => asked' = <<>> /\ Len(wire') = 1
  BY <1>2, <1>4, EmptySeq
<1> QED
  BY <1>2, <1>3, <1>4, <1>5, <1>6, <1>7, <1>8

\* The types after that.
LEMMA ClosingMedium ==
  ASSUME Medium, Names, Owner, ConnectCloses, channel # "deleted"
  PROVE  Medium'
<1>1. CASE UNCHANGED <<chan, sock>>
  BY <1>1 DEF Medium
<1>2. CASE ~UNCHANGED <<chan, sock>>
  <2>1. channel \in {"tcp", "tls"} /\ chan' = [chan EXCEPT ![channel] = Ready]
    BY <1>2, Closing
  <2>2. sock' = [open |-> FALSE, closes |-> sock.closes + 1, moved |-> sock.moved]
    BY <1>2, Closing
  <2>3. Ready \in [closed : BOOLEAN, fd : BOOLEAN]
    BY DEF Ready
  <2>4. chan' \in [{"tcp", "tls"} -> [closed : BOOLEAN, fd : BOOLEAN]]
    BY <2>1, <2>3 DEF Medium
  <2>5. sock.closes + 1 \in Nat /\ sock.moved \in BOOLEAN
    BY DEF Medium
  <2> QED
    BY <2>2, <2>4, <2>5 DEF Medium
<1> QED
  BY <1>1, <1>2

\* A channel that is closed for good by one that finds it open.
LEMMA OwnerClosed ==
  ASSUME Control, Names, Medium, There, Owner, channel \in {"tcp", "tls"},
         ~chan[channel].closed,
         chan' = [chan EXCEPT ![channel] = Ready],
         sock' = [open |-> FALSE, closes |-> sock.closes + 1, moved |-> sock.moved],
         UNCHANGED <<channel, table, closer>>, at' = "over" \/ at' = at, at \notin {"delete", "forget",
     "tls"}
  PROVE  Owner'
<1>1. CASE channel = "tcp"
  <2>1. chan'["tcp"].closed /\ ~chan'["tcp"].fd /\ chan'["tls"] = chan["tls"]
    BY <1>1 DEF Medium, Ready
  <2>2. ~sock'.open /\ sock'.moved = sock.moved /\ sock'.closes \in Nat /\ sock'.closes > 0
    BY DEF Medium
  <2>3. chan["tcp"].fd /\ ~chan["tls"].fd /\ ~sock.moved /\ sock.closes = 0
    BY <1>1 DEF Owner, There, Alive, Medium
  <2>5. sock'.closes = 1 /\ sock'.closes <= 1
    BY <2>3
  <2>4. ~chan["tls"].closed /\ table \notin {"none", "failed", "destroyed"}
    BY <1>1 DEF Owner, There, Alive, Names
  <2> QED
    BY <1>1, <2>1, <2>2, <2>3, <2>4, <2>5 DEF Owner, Alive
<1>2. CASE channel = "tls"
  <2>1. chan'["tls"].closed /\ ~chan'["tls"].fd /\ chan'["tcp"] = chan["tcp"]
    BY <1>2 DEF Medium, Ready
  <2>2. ~sock'.open /\ sock'.moved = sock.moved /\ sock'.closes \in Nat /\ sock'.closes > 0
    BY DEF Medium
  <2>3. sock.moved /\ chan["tcp"].closed /\ ~chan["tcp"].fd /\ chan["tls"].fd
    BY <1>2 DEF Owner
  <2>4. table \notin {"none", "failed", "destroyed"}
    BY <1>2 DEF There, Alive, Names
  <2> QED
    BY <1>2, <2>1, <2>2, <2>3, <2>4 DEF Owner, Alive
<1> QED
  BY <1>1, <1>2

\* connect ends and closes its channel.
LEMMA OwnerClosing ==
  ASSUME IInv, ConnectCloses, at' = "over", UNCHANGED <<channel, table, closer>>,
         at \notin {"delete", "forget", "tls", "broken"}, at \notin {"idle", "over"}
  PROVE  Owner'
<1>1. channel \in {"tcp", "tls"} /\ Alive
  BY Has DEF IInv
<1>2. CASE UNCHANGED <<chan, sock>>
  BY <1>1, <1>2 DEF IInv, Owner, Alive
<1>3. CASE ~UNCHANGED <<chan, sock>>
  <2>1. /\ ~chan[channel].closed /\ chan' = [chan EXCEPT ![channel] = Ready]
        /\ sock' = [open |-> FALSE, closes |-> sock.closes + 1, moved |-> sock.moved]
    BY <1>1, <1>3, Closing DEF IInv
  <2> QED
    BY <1>1, <2>1, OwnerClosed DEF IInv
<1> QED
  BY <1>2, <1>3
-----------------------------------------------------------------------------
(* Steps that close a channel or its socket.                               *)

\* Adb::close marks the channel it found.
LEMMA CloseMarksMedium ==
  ASSUME IInv, CloseMarks
  PROVE  Medium'
<1>1. CASE UNCHANGED <<chan, sock>>
  BY <1>1 DEF IInv, Medium
<1>2. CASE ~UNCHANGED <<chan, sock>>
  <2>1. closer \in {"tcp", "tls"} /\ chan' = [chan EXCEPT ![closer].closed = TRUE] /\ sock' = sock
    BY <1>2 DEF CloseMarks, Marks
  <2> QED
    BY <2>1 DEF IInv, Medium
<1> QED
  BY <1>1, <1>2

LEMMA CloseMarksOwner ==
  ASSUME IInv, CloseMarks
  PROVE  Owner'
<1> USE DEF Alive
<1>1. UNCHANGED <<at, channel, table, sock>> /\ closer \in {"tcp", "tls", "deleted"}
  BY DEF CloseMarks, Marks
<1>2. CASE UNCHANGED chan
  BY <1>1, <1>2 DEF IInv, Owner
<1>3. CASE ~UNCHANGED chan /\ closer = "tcp"
  <2>1. /\ ~chan["tcp"].closed /\ closer' = "tcp shut"
        /\ chan' = [chan EXCEPT !["tcp"].closed = TRUE]
    BY <1>3 DEF CloseMarks, Marks
  <2>2. chan'["tcp"].closed /\ chan'["tcp"].fd = chan["tcp"].fd /\ chan'["tls"] = chan["tls"]
    BY <2>1 DEF IInv, Medium
  <2>3. table \notin {"none", "failed"}
    BY <1>3 DEF IInv, There
  <2>4. chan["tls"].closed /\ chan["tls"].fd => FALSE
    BY <1>3 DEF IInv, Owner
  <2> QED
    BY <1>1, <1>3, <2>1, <2>2, <2>3, <2>4 DEF IInv, Owner
<1>4. CASE ~UNCHANGED chan /\ closer = "tls"
  <2>1. /\ ~chan["tls"].closed /\ closer' = "tls shut"
        /\ chan' = [chan EXCEPT !["tls"].closed = TRUE]
    BY <1>4 DEF CloseMarks, Marks
  <2>2. chan'["tls"].closed /\ chan'["tls"].fd = chan["tls"].fd /\ chan'["tcp"] = chan["tcp"]
    BY <2>1 DEF IInv, Medium
  <2>3. table \notin {"none", "failed"} /\ channel = "tls"
    BY <1>4 DEF IInv, There
  <2>4. chan["tcp"].closed /\ chan["tcp"].fd => FALSE
    BY <1>4 DEF IInv, Owner
  <2> QED
    BY <1>1, <1>4, <2>1, <2>2, <2>3, <2>4 DEF IInv, Owner
<1>5. closer = "deleted" => UNCHANGED chan
  BY DEF CloseMarks
<1> QED
  BY <1>1, <1>2, <1>3, <1>4, <1>5

\* What CloseShuts and Broken do to one channel and its socket.
LEMMA Shutting ==
  ASSUME NEW s, s \in Sockets
  PROVE  /\ NumberClosed(s) \in Sockets /\ s.closes \in Nat
         /\ ~NumberClosed(s).open /\ NumberClosed(s).moved = s.moved
         /\ NumberClosed(s).closes = s.closes + 1
<1>1. s.closes \in Nat /\ s.closes + 1 \in Nat
  BY DEF Sockets
<1>2. NumberClosed(s) \in Sockets
  BY <1>1 DEF Sockets, NumberClosed
<1>3. ~NumberClosed(s).open /\ NumberClosed(s).moved = s.moved
  BY DEF Sockets, NumberClosed
<1>4. NumberClosed(s).closes = s.closes + 1
  BY DEF Sockets, NumberClosed
<1> QED
  BY <1>1, <1>2, <1>3, <1>4

\* Adb::close shuts the channel it marked.
LEMMA CloseShutsMedium ==
  ASSUME IInv, CloseShuts
  PROVE  Medium'
<1>1. PICK c \in {"tcp", "tls"} : sock' = Shut(c, sock) /\ chan' = [chan EXCEPT ![c] = Ready]
  BY DEF CloseShuts, Ready
<1>2. sock' \in {sock, NumberClosed(sock)}
  BY <1>1 DEF Shut, NumberClosed
<1>3. sock' \in Sockets
  BY <1>2, Shutting DEF IInv, Medium, Sockets
<1>4. chan' \in [{"tcp", "tls"} -> [closed : BOOLEAN, fd : BOOLEAN]]
  BY <1>1 DEF IInv, Medium, Ready
<1> QED
  BY <1>3, <1>4 DEF Medium, Sockets

LEMMA CloseShutsOwner ==
  ASSUME IInv, CloseShuts
  PROVE  Owner'
<1> USE DEF Alive
<1>1. UNCHANGED <<at, channel, table>> /\ closer' = "join"
  BY DEF CloseShuts
<1>2. CASE closer = "tcp shut"
  <2>1. /\ chan' = [chan EXCEPT !["tcp"] = Ready]
        /\ sock' = IF chan["tcp"].fd THEN [sock EXCEPT !.open = FALSE, !.closes = @ + 1] ELSE sock
    BY <1>2 DEF CloseShuts, Shut, Ready
  <2>2. chan'["tcp"].closed /\ ~chan'["tcp"].fd /\ chan'["tls"] = chan["tls"]
    BY <2>1 DEF IInv, Medium, Ready
  <2>3. table \notin {"none", "failed"}
    BY <1>2 DEF IInv, There
  <2>4. chan["tls"].closed /\ chan["tls"].fd => FALSE
    BY <1>2 DEF IInv, Owner
  <2>5. CASE chan["tcp"].fd
    <3>1. sock'.moved = sock.moved /\ ~sock'.open /\ sock'.closes = sock.closes + 1
      BY <2>1, <2>5 DEF IInv, Medium
    <3>2. ~sock.moved /\ sock.closes = 0
      BY <2>5 DEF IInv, Owner
    <3>3. sock'.closes = 1 /\ sock'.closes <= 1 /\ sock'.closes > 0
      BY <3>1, <3>2
    <3>4. ~chan["tls"].fd
      BY <3>2 DEF IInv, Owner
    <3> QED
      BY <1>1, <1>2, <2>2, <2>3, <2>4, <3>1, <3>2, <3>3, <3>4 DEF IInv, Owner
  <2>6. CASE ~chan["tcp"].fd
    <3>1. sock' = sock
      BY <2>1, <2>6
    <3> QED
      BY <1>1, <1>2, <2>2, <2>3, <2>4, <2>6, <3>1 DEF IInv, Owner
  <2> QED
    BY <2>5, <2>6
<1>3. CASE closer = "tls shut"
  <2>1. /\ chan' = [chan EXCEPT !["tls"] = Ready]
        /\ sock' = IF chan["tls"].fd THEN [sock EXCEPT !.open = FALSE, !.closes = @ + 1] ELSE sock
    BY <1>3 DEF CloseShuts, Shut, Ready
  <2>2. chan'["tls"].closed /\ ~chan'["tls"].fd /\ chan'["tcp"] = chan["tcp"]
    BY <2>1 DEF IInv, Medium, Ready
  <2>3. table \notin {"none", "failed"} /\ channel = "tls"
    BY <1>3 DEF IInv, There
  <2>4. sock.moved /\ ~chan["tcp"].fd
    BY <2>3 DEF IInv, Owner
  <2>5. CASE chan["tls"].fd
    <3>1. sock'.moved = sock.moved /\ ~sock'.open /\ sock'.closes = sock.closes + 1 /\ sock.closes \in Nat
      BY <2>1, <2>5 DEF IInv, Medium
    <3>2. sock'.closes > 0
      BY <3>1
    <3> QED
      BY <1>1, <1>3, <2>2, <2>3, <2>4, <3>1, <3>2 DEF IInv, Owner
  <2>6. CASE ~chan["tls"].fd
    <3>1. sock' = sock
      BY <2>1, <2>6
    <3> QED
      BY <1>1, <1>3, <2>2, <2>3, <2>4, <2>6, <3>1 DEF IInv, Owner
  <2> QED
    BY <2>5, <2>6
<1> QED
  BY <1>2, <1>3 DEF CloseShuts

\* The receive loop closes the channel when nobody has.
LEMMA LoopEndsOwner ==
  ASSUME IInv, LoopEnds
  PROVE  Owner'
<1>1. loop.at # "none" /\ table # "destroyed" /\ UNCHANGED <<at, channel, table, closer>>
  BY DEF LoopEnds, LoopThrows, Blocked
<1>2. channel \in {"tcp", "tls"} /\ at \in {"assign", "over"}
  BY <1>1, Has DEF IInv, There
<1>3. CASE UNCHANGED <<chan, sock>>
  BY <1>1, <1>3 DEF IInv, Owner, Alive
<1>4. CASE ~UNCHANGED <<chan, sock>>
  <2>1. ConnectCloses
    BY <1>4 DEF LoopEnds
  <2>2. /\ ~chan[channel].closed /\ chan' = [chan EXCEPT ![channel] = Ready]
        /\ sock' = [open |-> FALSE, closes |-> sock.closes + 1, moved |-> sock.moved]
    BY <1>2, <1>4, <2>1, Closing DEF IInv
  <2> QED
    BY <1>1, <1>2, <2>2, OwnerClosed DEF IInv
<1> QED
  BY <1>3, <1>4

LEMMA LoopEndsMedium ==
  ASSUME IInv, LoopEnds
  PROVE  Medium'
<1>1. loop.at # "none" /\ table # "destroyed"
  BY DEF LoopEnds, LoopThrows, Blocked
<1>2. channel \in {"tcp", "tls"}
  BY <1>1, Has DEF IInv
<1>3. UNCHANGED <<chan, sock>> \/ ConnectCloses
  BY DEF LoopEnds
<1> QED
  BY <1>2, <1>3, ClosingMedium DEF IInv, Medium

\* The destructor closes what is left.
LEMMA DestroyOwner ==
  ASSUME IInv, Destroy
  PROVE  Owner'
<1>1. /\ table' = "destroyed" /\ channel' = "none" /\ ConnectCloses
      /\ UNCHANGED <<at, closer>> /\ closer = "done" /\ at \in {"idle", "over"} /\ table = "unlisted"
  BY DEF Destroy
<1>2. channel \in {"tcp", "tls", "none"}
  BY <1>1 DEF IInv, There, Alive
<1>3. ~(chan["tcp"].closed /\ chan["tcp"].fd) /\ ~(chan["tls"].closed /\ chan["tls"].fd)
  BY <1>1 DEF IInv, Owner
<1>4. CASE UNCHANGED <<chan, sock>>
  <2>1. channel # "none" => chan[channel].closed
    BY <1>2, <1>4, <1>1 DEF IInv, ConnectCloses, Medium
  <2>2. ~sock.open
    BY <1>1, <1>2, <1>3, <2>1 DEF IInv, Owner
  <2> QED
    BY <1>1, <1>2, <1>3, <1>4, <2>1, <2>2 DEF IInv, Owner
<1>5. CASE ~UNCHANGED <<chan, sock>>
  <2>1. /\ channel \in {"tcp", "tls"} /\ ~chan[channel].closed
        /\ chan' = [chan EXCEPT ![channel] = Ready]
        /\ sock' = [open |-> FALSE, closes |-> sock.closes + 1, moved |-> sock.moved]
    BY <1>1, <1>2, <1>5, Closing DEF IInv
  <2>2. channel' = "none" /\ table' = "destroyed" /\ at' = at /\ at \in {"idle", "over"}
    BY <1>1
  <2>3. ~sock'.open /\ sock'.moved = sock.moved /\ sock'.closes \in Nat /\ sock'.closes > 0
    BY <2>1 DEF IInv, Medium
  <2>4. CASE channel = "tcp"
    <3>1. chan'["tcp"].closed /\ ~chan'["tcp"].fd /\ chan'["tls"] = chan["tls"]
      BY <2>1, <2>4 DEF IInv, Medium, Ready
    <3>2. chan["tcp"].fd /\ ~sock.moved /\ sock.closes = 0 /\ ~chan["tls"].fd
      BY <2>1, <2>4 DEF IInv, Owner
    <3>3. sock'.closes = 1 /\ sock'.closes <= 1
      BY <2>1, <3>2
    <3>4. at # "over" => at = "idle"
      BY <2>2
    <3> QED
      BY <1>1, <2>2, <2>3, <3>1, <3>2, <3>3 DEF IInv, Owner
  <2>5. CASE channel = "tls"
    <3>1. chan'["tls"].closed /\ ~chan'["tls"].fd /\ chan'["tcp"] = chan["tcp"]
      BY <2>1, <2>5 DEF IInv, Medium, Ready
    <3>2. sock.moved /\ ~chan["tcp"].fd /\ chan["tcp"].closed
      BY <2>5 DEF IInv, Owner
    <3> QED
      BY <1>1, <2>2, <2>3, <3>1, <3>2 DEF IInv, Owner
  <2> QED
    BY <2>1, <2>4, <2>5
<1> QED
  BY <1>4, <1>5

LEMMA DestroyMedium ==
  ASSUME IInv, Destroy
  PROVE  Medium'
<1>1. ConnectCloses /\ at \in {"idle", "over"}
  BY DEF Destroy
<1>2. channel # "deleted"
  BY <1>1, Has DEF IInv
<1> QED
  BY <1>1, <1>2, ClosingMedium DEF IInv

\* What is left of the socket when an upgrade has failed.
LEMMA Breaking ==
  ASSUME IInv, Broken
  PROVE  /\ channel \in {"tcp", "tls", "none"} /\ Alive
         /\ sock' \in Sockets /\ sock'.moved = sock.moved
         /\ \/ /\ sock' = sock /\ chan' = chan
               /\ channel \in {"tcp", "tls"} => chan[channel].closed
               /\ channel # "tcp" => ~chan["tls"].fd
            \/ /\ chan' = chan /\ ~sock'.open /\ sock'.closes = sock.closes + 1
               /\ channel # "tcp" /\ chan["tls"].fd
            \/ /\ channel = "tcp" /\ ~chan["tcp"].closed /\ chan["tcp"].fd
               /\ chan' = [chan EXCEPT !["tcp"] = Ready]
               /\ ~sock'.open /\ sock'.closes = sock.closes + 1
            \/ /\ channel = "tls" /\ ~chan["tls"].closed /\ chan["tls"].fd
               /\ chan' = [chan EXCEPT !["tls"] = Ready]
               /\ ~sock'.open /\ sock'.closes > 0
<1>0. sock \in Sockets /\ channel \in {"tcp", "tls", "none"} /\ Alive
  BY DEF IInv, Medium, Sockets, There, Alive, Names, Broken
<1>1. NumberClosed(sock) \in Sockets /\ ~NumberClosed(sock).open /\ sock.closes \in Nat
      /\ NumberClosed(sock).moved = sock.moved /\ NumberClosed(sock).closes = sock.closes + 1
  BY <1>0, Shutting
<1>2. CASE channel = "none" \/ (channel \in {"tcp", "tls"} /\ chan[channel].closed)
  <2>1. chan' = chan /\ sock' = (IF channel # "tcp" /\ chan["tls"].fd THEN NumberClosed(sock) ELSE sock)
    BY <1>2 DEF Broken, NumberClosed
  <2> QED
    BY <1>0, <1>1, <1>2, <2>1
<1>3. CASE channel = "tcp" /\ ~chan["tcp"].closed
  <2>1. chan["tcp"].fd
    BY <1>3 DEF IInv, Owner
  <2>2. chan' = [chan EXCEPT !["tcp"] = Ready] /\ sock' = NumberClosed(sock)
    BY <1>3, <2>1 DEF Broken, Shut, Ready, NumberClosed
  <2> QED
    BY <1>0, <1>1, <1>3, <2>1, <2>2
<1>4. CASE channel = "tls" /\ ~chan["tls"].closed
  <2>1. chan["tls"].fd
    BY <1>4 DEF IInv, Owner
  <2>2. chan' = [chan EXCEPT !["tls"] = Ready] /\ sock' = NumberClosed(NumberClosed(sock))
    BY <1>4, <2>1 DEF Broken, Shut, Ready, NumberClosed
  <2>3. /\ sock' \in Sockets /\ ~sock'.open /\ sock'.moved = sock.moved
        /\ sock'.closes = NumberClosed(sock).closes + 1
    BY <1>1, <2>2, Shutting
  <2>4. sock'.closes > 0
    BY <1>1, <2>3
  <2> QED
    BY <1>0, <1>4, <2>1, <2>2, <2>3, <2>4
<1>5. \/ channel = "none" \/ (channel \in {"tcp", "tls"} /\ chan[channel].closed)
      \/ channel = "tcp" /\ ~chan["tcp"].closed
      \/ channel = "tls" /\ ~chan["tls"].closed
  BY <1>0
<1> QED
  BY <1>2, <1>3, <1>4, <1>5, Zenon

LEMMA BrokenMedium ==
  ASSUME IInv, Broken
  PROVE  Medium'
<1>1. sock' \in Sockets
  BY Breaking
<1>2. chan' = chan \/ \E c \in {"tcp", "tls"} : chan' = [chan EXCEPT ![c] = Ready]
  BY Breaking
<1>3. Ready \in [closed : BOOLEAN, fd : BOOLEAN]
  BY DEF Ready
<1> QED
  BY <1>1, <1>2, <1>3 DEF IInv, Medium, Sockets

LEMMA BrokenOwner ==
  ASSUME IInv, Broken
  PROVE  Owner'
<1>1. /\ UNCHANGED <<channel, table, closer>> /\ at' = "over" /\ at = "broken"
      /\ table' \notin {"none", "failed", "destroyed"} /\ Alive'
  BY Breaking DEF Broken, Ends, Alive
<1>2. sock.closes \in Nat /\ sock'.closes \in Nat /\ sock'.moved = sock.moved
  BY Breaking DEF IInv, Medium, Sockets
<1>3. CASE /\ channel = "tcp" /\ ~chan["tcp"].closed /\ chan["tcp"].fd
           /\ chan' = [chan EXCEPT !["tcp"] = Ready]
           /\ ~sock'.open /\ sock'.closes = sock.closes + 1
  <2>1. chan'["tcp"].closed /\ ~chan'["tcp"].fd /\ chan'["tls"] = chan["tls"]
    BY <1>3 DEF IInv, Medium, Ready
  <2>2. ~sock.moved /\ sock.closes = 0 /\ ~chan["tls"].fd /\ ~chan["tls"].closed
    BY <1>1, <1>3 DEF IInv, Owner
  <2>3. sock'.closes = 1 /\ sock'.closes <= 1 /\ sock'.closes > 0
    BY <1>3, <2>2
  <2> QED
    BY <1>1, <1>2, <1>3, <2>1, <2>2, <2>3 DEF Owner
<1>4. CASE /\ channel = "tls" /\ ~chan["tls"].closed /\ chan["tls"].fd
           /\ chan' = [chan EXCEPT !["tls"] = Ready]
           /\ ~sock'.open /\ sock'.closes > 0
  <2>1. chan'["tls"].closed /\ ~chan'["tls"].fd /\ chan'["tcp"] = chan["tcp"]
    BY <1>4 DEF IInv, Medium, Ready
  <2>2. sock.moved /\ chan["tcp"].closed /\ ~chan["tcp"].fd
    BY <1>4 DEF IInv, Owner
  <2> QED
    BY <1>1, <1>2, <1>4, <2>1, <2>2 DEF Owner
<1>5. CASE /\ sock' = sock /\ chan' = chan
           /\ channel \in {"tcp", "tls"} => chan[channel].closed
           /\ channel # "tcp" => ~chan["tls"].fd
  <2>0. channel = "tcp" /\ chan["tls"].fd => FALSE
    BY <1>1 DEF IInv, Owner
  <2>2. Owner /\ table' = table /\ channel' = channel /\ closer' = closer
    BY <1>1 DEF IInv
  <2>1. ~sock.open \/ (channel = "tcp" /\ chan["tcp"].fd)
    BY <1>1, <1>5, <2>0, <2>2 DEF Owner
  <2> QED
    BY <1>1, <1>5, <2>1, <2>2 DEF Owner
<1>6. CASE /\ chan' = chan /\ ~sock'.open /\ sock'.closes = sock.closes + 1
           /\ channel # "tcp" /\ chan["tls"].fd
  <2>1. Owner /\ table' = table /\ channel' = channel /\ closer' = closer
    BY <1>1 DEF IInv
  <2>2. sock.moved
    BY <1>6, <2>1 DEF Owner
  <2>3. sock'.closes > 0
    BY <1>2, <1>6
  <2> QED
    BY <1>1, <1>2, <1>6, <2>1, <2>2, <2>3 DEF Owner
<1> QED
  BY <1>3, <1>4, <1>5, <1>6, Breaking

-----------------------------------------------------------------------------
(* Every part of the invariant is kept.                                    *)

\* The place of connect and its result.
LEMMA ControlKept ==
  ASSUME IInv, [Next]_vars
  PROVE  Control'
<1> USE DEF IInv, Control
<1>1. CASE Connect
  BY <1>1 DEF Connect
<1>2. CASE SendHello
  BY <1>2 DEF SendHello, WriteThrows, Sends, Ends
<1>3. CASE First
  BY <1>3, Taking DEF Messages, First, Receives, Dispatch, ReadFails, TimesOut, Ends
<1>4. CASE Refuse
  BY <1>4 DEF Refuse, Ends
<1>5. CASE SendSignature
  BY <1>5 DEF SendSignature, WriteThrows, Sends, Ends
<1>6. CASE Signed
  BY <1>6 DEF Signed, Receives, ReadFails, TimesOut
<1>7. CASE SendKey
  BY <1>7 DEF SendKey, WriteThrows, Sends, Ends
<1>8. CASE Confirmed
  BY <1>8 DEF Confirmed, Receives, ReadFails, TimesOut, Ends
<1>9. CASE ConfirmEnds
  BY <1>9 DEF ConfirmEnds, Ends
<1>10. CASE StartLoop
  BY <1>10 DEF StartLoop
<1>11. CASE AssignLoop
  BY <1>11 DEF AssignLoop, Ends
<1>12. CASE SendUpgrade
  BY <1>12 DEF SendUpgrade, Sends
<1>13. CASE ReleaseFd
  BY <1>13 DEF ReleaseFd
<1>14. CASE DeleteChannel
  BY <1>14 DEF DeleteChannel
<1>15. CASE ForgetChannel
  BY <1>15 DEF ForgetChannel
<1>16. CASE TlsFails
  BY <1>16 DEF TlsFails
<1>17. CASE TlsSucceeds
  BY <1>17 DEF TlsSucceeds
<1>18. CASE Upgraded
  BY <1>18, Taking DEF Messages, Upgraded, Receives, Dispatch, ReadFails, TimesOut
<1>19. CASE Broken
  BY <1>19 DEF Broken, Ends
<1>20. CASE UNCHANGED <<at, result>>
  BY <1>20
<1>21. CASE AttemptFails \/ LookupFails \/ AttemptSucceeds \/ AdbClose \/ CloseBegins \/ CloseFindsChannel
         \/ CloseMarks \/ CloseShuts \/ CloseJoins \/ LoopEnds \/ Destroy \/ DeviceSpeaksTls
         \/ DeviceAnswers \/ DeviceTrickles \/ DeviceLeaves
  BY <1>20, <1>21 DEF AttemptFails, LookupFails, AttemptSucceeds, AdbClose, CloseBegins,
     CloseFindsChannel, CloseMarks, CloseShuts, CloseJoins, LoopEnds, Destroy, DeviceSpeaksTls,
     DeviceAnswers, DeviceTrickles, DeviceLeaves, Answers
<1>40. CASE Turns
  BY <1>40, Turning
<1> QED
  BY <1>1, <1>2, <1>3, <1>4, <1>5, <1>6, <1>7, <1>8, <1>9, <1>10, <1>11, <1>12, <1>13, <1>14, <1>15,
     <1>16, <1>17, <1>18, <1>19, <1>20, <1>21, <1>40
     DEF Next, Loop, Turns, vars, Create, Plain, Upgrade, Close, Device, Over

\* The other names a state is made of.
LEMMA NamesKept ==
  ASSUME IInv, [Next]_vars
  PROVE  Names'
<1> USE DEF IInv, Names
<1>1. CASE AttemptFails
  BY <1>1, HandshakeAssumption DEF There, AttemptFails
<1>2. CASE LookupFails
  BY <1>2 DEF LookupFails
<1>3. CASE AttemptSucceeds
  BY <1>3 DEF AttemptSucceeds
<1>4. CASE StartLoop
  BY <1>4 DEF StartLoop
<1>5. CASE AssignLoop
  BY <1>5 DEF AssignLoop, Ends
<1>6. CASE DeleteChannel
  BY <1>6 DEF DeleteChannel
<1>7. CASE ForgetChannel
  BY <1>7 DEF ForgetChannel
<1>8. CASE TlsSucceeds
  BY <1>8 DEF TlsSucceeds
<1>9. CASE AdbClose
  BY <1>9 DEF AdbClose
<1>10. CASE CloseBegins
  BY <1>10 DEF CloseBegins
<1>11. CASE CloseFindsChannel
  BY <1>11 DEF CloseFindsChannel
<1>12. CASE CloseMarks
  BY <1>12 DEF CloseMarks
<1>13. CASE CloseShuts
  BY <1>13 DEF CloseShuts
<1>14. CASE CloseJoins
  BY <1>14 DEF CloseJoins
<1>15. CASE LoopEnds
  <2>1. CASE closed
    <3>1. loop' = [loop EXCEPT !.at = "ended"] /\ closed' = TRUE
          /\ UNCHANGED <<attempt, table, at, channel, closer>>
      BY <1>15, <2>1 DEF LoopEnds
    <3> QED
      BY <3>1
  <2>2. CASE ~closed
    <3>1. loop' = [at |-> "ended", joinable |-> FALSE] /\ closed' = TRUE
          /\ UNCHANGED <<attempt, table, at, channel, closer>>
      BY <1>15, <2>2 DEF LoopEnds
    <3> QED
      BY <3>1
  <2> QED
    BY <2>1, <2>2
<1>16. CASE Destroy
  BY <1>16 DEF Destroy
<1>17. CASE UNCHANGED <<attempt, table, closed, closer, channel, loop>>
  BY <1>17
<1>18. CASE Connect \/ SendHello \/ First \/ Refuse \/ SendSignature \/ Signed \/ SendKey \/ Confirmed
         \/ ConfirmEnds \/ SendUpgrade \/ ReleaseFd \/ TlsFails \/ Upgraded \/ Broken \/ DeviceSpeaksTls
         \/ DeviceAnswers \/ DeviceTrickles \/ DeviceLeaves
  BY <1>17, <1>18 DEF Connect, SendHello, First, Refuse, SendSignature, Signed, SendKey, Confirmed,
     ConfirmEnds, SendUpgrade, ReleaseFd, TlsFails, Upgraded, Broken, DeviceSpeaksTls, DeviceAnswers,
     DeviceTrickles, DeviceLeaves, WriteThrows, Sends, Ends, Receives, Dispatch, ReadFails, TimesOut, Answers
<1>40. CASE Turns
  BY <1>40, Turning
<1> QED
  BY <1>1, <1>2, <1>3, <1>4, <1>5, <1>6, <1>7, <1>8, <1>9, <1>10, <1>11, <1>12, <1>13, <1>14, <1>15,
     <1>16, <1>17, <1>18, <1>40
     DEF Next, Loop, Turns, vars, Create, Plain, Upgrade, Close, Device, Over

\* The channels and the socket.
LEMMA MediumKept ==
  ASSUME IInv, [Next]_vars
  PROVE  Medium'
<1> USE DEF IInv, Medium
<1>1. CASE AttemptSucceeds
  BY <1>1 DEF AttemptSucceeds
<1>2. CASE First
  <2>1. UNCHANGED <<chan, sock>> \/ ConnectCloses
    BY <1>2 DEF First, Receives, Dispatch, ReadFails, TimesOut, Ends
  <2>2. channel # "deleted"
    BY <1>2, Has DEF First, Receives, Dispatch, ReadFails, TimesOut, Ends
  <2> QED
    BY <2>1, <2>2, ClosingMedium
<1>3. CASE Refuse
  <2>1. UNCHANGED <<chan, sock>> \/ ConnectCloses
    BY <1>3 DEF Refuse, Ends
  <2>2. channel # "deleted"
    BY <1>3, Has DEF Refuse, Ends
  <2> QED
    BY <2>1, <2>2, ClosingMedium
<1>4. CASE Confirmed
  <2>1. UNCHANGED <<chan, sock>> \/ ConnectCloses
    BY <1>4 DEF Confirmed, Receives, ReadFails, TimesOut, Ends
  <2>2. channel # "deleted"
    BY <1>4, Has DEF Confirmed, Receives, ReadFails, TimesOut, Ends
  <2> QED
    BY <2>1, <2>2, ClosingMedium
<1>5. CASE ConfirmEnds
  <2>1. UNCHANGED <<chan, sock>> \/ ConnectCloses
    BY <1>5 DEF ConfirmEnds, Ends
  <2>2. channel # "deleted"
    BY <1>5, Has DEF ConfirmEnds, Ends
  <2> QED
    BY <2>1, <2>2, ClosingMedium
<1>6. CASE ReleaseFd
  BY <1>6 DEF ReleaseFd
<1>7. CASE Broken
  BY <1>7, BrokenMedium
<1>8. CASE CloseMarks
  BY <1>8, CloseMarksMedium
<1>9. CASE CloseShuts
  BY <1>9, CloseShutsMedium
<1>10. CASE LoopEnds
  BY <1>10, LoopEndsMedium
<1>11. CASE Destroy
  BY <1>11, DestroyMedium
<1>12. CASE UNCHANGED <<chan, sock>>
  BY <1>12
<1>13. CASE AttemptFails \/ LookupFails \/ Connect \/ SendHello \/ SendSignature \/ Signed \/ SendKey
         \/ StartLoop \/ AssignLoop \/ SendUpgrade \/ DeleteChannel \/ ForgetChannel \/ TlsFails
         \/ TlsSucceeds \/ Upgraded \/ AdbClose \/ CloseBegins \/ CloseFindsChannel \/ CloseJoins
         \/ DeviceSpeaksTls \/ DeviceAnswers \/ DeviceTrickles \/ DeviceLeaves
  BY <1>12, <1>13 DEF AttemptFails, LookupFails, Connect, SendHello, SendSignature, Signed, SendKey,
     StartLoop, AssignLoop, SendUpgrade, DeleteChannel, ForgetChannel, TlsFails, TlsSucceeds, Upgraded,
     AdbClose, CloseBegins, CloseFindsChannel, CloseJoins, DeviceSpeaksTls, DeviceAnswers,
     DeviceTrickles, DeviceLeaves,
     WriteThrows, Sends, Ends, Receives, ReadFails, TimesOut, Dispatch, Answers
<1>40. CASE Turns
  BY <1>40, Turning
<1> QED
  BY <1>1, <1>2, <1>3, <1>4, <1>5, <1>6, <1>7, <1>8, <1>9, <1>10, <1>11, <1>12, <1>13, <1>40
     DEF Next, Loop, Turns, vars,
     Create, Plain, Upgrade, Close, Device, Over

\* The messages and the device.
LEMMA FarKept ==
  ASSUME IInv, [Next]_vars
  PROVE  Far'
<1> USE DEF IInv, Far
<1>1. CASE SendHello
  BY <1>1 DEF SendHello, WriteThrows, Sends, Ends
<1>2. CASE First
  BY <1>2, Taking DEF Messages, First, Receives, Dispatch, ReadFails, TimesOut, Ends
<1>3. CASE SendSignature
  BY <1>3 DEF SendSignature, WriteThrows, Sends, Ends
<1>4. CASE Signed
  BY <1>4, Taking DEF Messages, Signed, Receives, ReadFails, TimesOut
<1>5. CASE SendKey
  BY <1>5 DEF SendKey, WriteThrows, Sends, Ends
<1>6. CASE Confirmed
  BY <1>6, Taking DEF Messages, Confirmed, Receives, ReadFails, TimesOut, Ends
<1>7. CASE SendUpgrade
  BY <1>7 DEF SendUpgrade, Sends
<1>8. CASE Upgraded
  BY <1>8, Taking DEF Messages, Upgraded, Receives, Dispatch, ReadFails, TimesOut
<1>9. CASE DeviceSpeaksTls
  BY <1>9 DEF DeviceSpeaksTls
<1>10. CASE DeviceAnswers
  <2>1. PICK m \in Answers(Head(asked)) :
          wire' = Append(wire, m) /\ device' = [device EXCEPT !.online = @ \/ m = "CNXN", !.partial = FALSE]
    BY <1>10 DEF DeviceAnswers
  <2>2. asked # <<>> /\ asked' = Tail(asked) /\ got' = got
    BY <1>10 DEF DeviceAnswers
  <2>3. wire' \in Seq(Messages) /\ asked' \in Seq(Requests)
    BY <2>1, <2>2, Answering
  <2> QED
    BY <2>1, <2>2, <2>3 DEF Messages, Requests
<1>11. CASE DeviceLeaves
  BY <1>11 DEF DeviceLeaves
<1>12. CASE UNCHANGED <<got, wire, asked, device>>
  BY <1>12
<1>13. CASE AttemptFails \/ LookupFails \/ AttemptSucceeds \/ Connect \/ Refuse \/ ConfirmEnds \/ StartLoop
         \/ AssignLoop \/ ReleaseFd \/ DeleteChannel \/ ForgetChannel \/ TlsFails \/ TlsSucceeds \/ Broken
         \/ AdbClose \/ CloseBegins \/ CloseFindsChannel \/ CloseMarks \/ CloseShuts \/ CloseJoins
         \/ LoopEnds \/ Destroy
  BY <1>12, <1>13 DEF AttemptFails, LookupFails, AttemptSucceeds, Connect, Refuse, ConfirmEnds,
     StartLoop, AssignLoop, ReleaseFd, DeleteChannel, ForgetChannel, TlsFails, TlsSucceeds, Broken,
     AdbClose, CloseBegins, CloseFindsChannel, CloseMarks, CloseShuts, CloseJoins, LoopEnds, Destroy, Ends
<1>40. CASE Turns
  BY <1>40, Turning
<1>41. CASE DeviceTrickles
  BY <1>41 DEF DeviceTrickles
<1> QED
  BY <1>1, <1>2, <1>3, <1>4, <1>5, <1>6, <1>7, <1>8, <1>9, <1>10, <1>11, <1>12, <1>13, <1>40, <1>41
     DEF Next, Loop, Turns, vars,
     Create, Plain, Upgrade, Close, Device, Over

\* Which channel there is.
LEMMA ThereKept ==
  ASSUME IInv, [Next]_vars
  PROVE  There'
<1> USE DEF IInv, There
<1>1. CASE AttemptFails
  BY <1>1, HandshakeAssumption DEF Alive, Reading, Control, Names, AttemptFails
<1>2. CASE LookupFails
  BY <1>2 DEF Alive, Reading, Control, Names, LookupFails
<1>3. CASE AttemptSucceeds
  BY <1>3 DEF Alive, Reading, Control, Names, AttemptSucceeds
<1>4. CASE Connect
  BY <1>4 DEF Alive, Reading, Control, Names, Connect
<1>5. CASE SendHello
  BY <1>5 DEF Alive, Reading, Control, Names, SendHello, WriteThrows, Sends, Ends
<1>6. CASE First
  BY <1>6, Taking DEF Alive, Reading, Control, Names, Messages, First, Receives, Dispatch, ReadFails,
     TimesOut, Ends
<1>7. CASE Refuse
  BY <1>7 DEF Alive, Reading, Control, Names, Refuse, Ends
<1>8. CASE SendSignature
  BY <1>8 DEF Alive, Reading, Control, Names, SendSignature, WriteThrows, Sends, Ends
<1>9. CASE Signed
  BY <1>9 DEF Alive, Reading, Control, Names, Signed, Receives, ReadFails, TimesOut
<1>10. CASE SendKey
  BY <1>10 DEF Alive, Reading, Control, Names, SendKey, WriteThrows, Sends, Ends
<1>11. CASE Confirmed
  BY <1>11 DEF Alive, Reading, Control, Names, Confirmed, Receives, ReadFails, TimesOut, Ends
<1>12. CASE ConfirmEnds
  BY <1>12 DEF Alive, Reading, Control, Names, ConfirmEnds, Ends
<1>13. CASE StartLoop
  BY <1>13 DEF Alive, Reading, Control, Names, StartLoop
<1>14. CASE AssignLoop
  BY <1>14 DEF Alive, Reading, Control, Names, AssignLoop, Ends
<1>15. CASE SendUpgrade
  BY <1>15 DEF Alive, Reading, Control, Names, SendUpgrade, Sends
<1>16. CASE ReleaseFd
  BY <1>16 DEF Alive, Reading, Control, Names, ReleaseFd
<1>17. CASE DeleteChannel
  BY <1>17 DEF Alive, Reading, Control, Names, DeleteChannel
<1>18. CASE ForgetChannel
  BY <1>18 DEF Alive, Reading, Control, Names, ForgetChannel
<1>19. CASE TlsFails
  BY <1>19 DEF Alive, Reading, Control, Names, TlsFails
<1>20. CASE TlsSucceeds
  BY <1>20 DEF Alive, Reading, Control, Names, TlsSucceeds
<1>21. CASE Upgraded
  <2>0. at = "upgraded" /\ UNCHANGED <<attempt, table, channel, closer, loop>>
    BY <1>21 DEF Upgraded, Receives, ReadFails, TimesOut
  <2>1. channel = "tls"
    BY <2>0 DEF Alive
  <2>2. CASE at' = "broken"
    BY <2>0, <2>1, <2>2 DEF Alive, Reading
  <2>3. CASE at' # "broken"
    <3>1. wire # <<>> /\ Takes /\ at' = Dispatch(Head(wire))
      BY <1>21, <2>3 DEF Upgraded, Receives
    <3>2. got' = Head(wire) /\ got' \in Messages \ {"STLS"}
      BY <2>0, <3>1, Taking DEF Order
    <3>3. at' \in {"connected", "sign", "refuse"}
      BY <3>1, <3>2 DEF Dispatch, Messages
    <3> QED
      BY <2>0, <2>1, <3>3 DEF Alive, Reading
  <2> QED
    BY <2>2, <2>3
<1>22. CASE Broken
  BY <1>22 DEF Alive, Reading, Control, Names, Broken, Ends
<1>23. CASE AdbClose
  BY <1>23 DEF Alive, Reading, Control, Names, AdbClose
<1>24. CASE CloseBegins
  BY <1>24 DEF Alive, Reading, Control, Names, CloseBegins
<1>25. CASE CloseFindsChannel
  BY <1>25 DEF Alive, Reading, Control, Names, CloseFindsChannel
<1>26. CASE CloseMarks
  BY <1>26 DEF Alive, Reading, Control, Names, CloseMarks
<1>27. CASE CloseShuts
  BY <1>27 DEF Alive, Reading, Control, Names, CloseShuts
<1>28. CASE CloseJoins
  BY <1>28 DEF Alive, Reading, Control, Names, CloseJoins
<1>29. CASE LoopEnds
  <2>1. CASE closed
    <3>1. loop' = [loop EXCEPT !.at = "ended"] /\ closed' = TRUE
          /\ UNCHANGED <<attempt, table, at, channel, closer>>
      BY <1>29, <2>1 DEF LoopEnds
    <3> QED
      BY <3>1, <1>29 DEF LoopEnds, LoopThrows, Blocked, Alive, Names
  <2>2. CASE ~closed
    <3>1. loop' = [at |-> "ended", joinable |-> FALSE] /\ closed' = TRUE
          /\ UNCHANGED <<attempt, table, at, channel, closer>>
      BY <1>29, <2>2 DEF LoopEnds
    <3> QED
      BY <3>1, <1>29 DEF LoopEnds, LoopThrows, Blocked, Alive, Names
  <2> QED
    BY <2>1, <2>2
<1>30. CASE Destroy
  BY <1>30 DEF Alive, Reading, Control, Names, Destroy
<1>31. CASE UNCHANGED <<attempt, table, at, channel, closer, loop>>
  BY <1>31 DEF Alive
<1>32. CASE DeviceSpeaksTls \/ DeviceAnswers \/ DeviceTrickles \/ DeviceLeaves
  BY <1>31, <1>32 DEF DeviceSpeaksTls, DeviceAnswers, DeviceTrickles, DeviceLeaves, Answers
<1>40. CASE Turns
  BY <1>40, Turning DEF Alive
<1> QED
  BY <1>1, <1>2, <1>3, <1>4, <1>5, <1>6, <1>7, <1>8, <1>9, <1>10, <1>11, <1>12, <1>13, <1>14, <1>15,
     <1>16, <1>17, <1>18, <1>19, <1>20, <1>21, <1>22, <1>23, <1>24, <1>25, <1>26, <1>27, <1>28, <1>29,
     <1>30, <1>31, <1>32, <1>40
     DEF Next, Loop, Turns, vars, Create, Plain, Upgrade, Close, Device, Over

\* Who has the number of the socket.
LEMMA OwnerKept ==
  ASSUME IInv, [Next]_vars
  PROVE  Owner'
<1> USE DEF IInv, Owner
<1>1. CASE AttemptFails
  BY <1>1 DEF There, Alive, Reading, Medium, AttemptFails
<1>2. CASE LookupFails
  BY <1>2 DEF There, Alive, Reading, Medium, LookupFails
<1>3. CASE AttemptSucceeds
  BY <1>3 DEF There, Alive, Reading, Medium, AttemptSucceeds
<1>4. CASE Connect
  BY <1>4 DEF There, Alive, Reading, Medium, Connect
<1>5. CASE SendHello
  BY <1>5 DEF There, Alive, Reading, Medium, SendHello, WriteThrows, Sends, Ends
<1>6. CASE First
  <2>1. /\ UNCHANGED <<channel, table, closer>>
        /\ UNCHANGED <<chan, sock>> \/ (ConnectCloses /\ at' = "over")
        /\ at \in {"first", "refuse", "confirm", "failed", "late"}
    BY <1>6 DEF First, Receives, Dispatch, ReadFails, TimesOut, Ends
  <2>2. CASE UNCHANGED <<chan, sock>>
    <3>1. at' \notin {"delete", "forget", "tls"}
      BY <1>6, Taking DEF Messages, First, Receives, Dispatch, ReadFails, TimesOut, Ends
    <3> QED
      BY <2>1, <2>2, <3>1 DEF Alive
  <2>3. CASE ConnectCloses /\ at' = "over"
    BY <2>1, <2>3, OwnerClosing
  <2> QED
    BY <2>1, <2>2, <2>3
<1>7. CASE Refuse
  <2>1. /\ UNCHANGED <<channel, table, closer>>
        /\ UNCHANGED <<chan, sock>> \/ (ConnectCloses /\ at' = "over")
        /\ at \in {"first", "refuse", "confirm", "failed", "late"}
    BY <1>7 DEF Refuse, Ends
  <2>2. CASE UNCHANGED <<chan, sock>>
    <3>1. at' \notin {"delete", "forget", "tls"}
      BY <1>7 DEF Refuse, Ends
    <3> QED
      BY <2>1, <2>2, <3>1 DEF Alive
  <2>3. CASE ConnectCloses /\ at' = "over"
    BY <2>1, <2>3, OwnerClosing
  <2> QED
    BY <2>1, <2>2, <2>3
<1>8. CASE SendSignature
  BY <1>8 DEF There, Alive, Reading, Medium, SendSignature, WriteThrows, Sends, Ends
<1>9. CASE Signed
  BY <1>9 DEF There, Alive, Reading, Medium, Signed, Receives, ReadFails, TimesOut
<1>10. CASE SendKey
  BY <1>10 DEF There, Alive, Reading, Medium, SendKey, WriteThrows, Sends, Ends
<1>11. CASE Confirmed
  <2>1. /\ UNCHANGED <<channel, table, closer>>
        /\ UNCHANGED <<chan, sock>> \/ (ConnectCloses /\ at' = "over")
        /\ at \in {"first", "refuse", "confirm", "failed", "late"}
    BY <1>11 DEF Confirmed, Receives, ReadFails, TimesOut, Ends
  <2>2. CASE UNCHANGED <<chan, sock>>
    <3>1. at' \notin {"delete", "forget", "tls"}
      BY <1>11 DEF Confirmed, Receives, ReadFails, TimesOut, Ends
    <3> QED
      BY <2>1, <2>2, <3>1 DEF Alive
  <2>3. CASE ConnectCloses /\ at' = "over"
    BY <2>1, <2>3, OwnerClosing
  <2> QED
    BY <2>1, <2>2, <2>3
<1>12. CASE ConfirmEnds
  <2>1. /\ UNCHANGED <<channel, table, closer>>
        /\ UNCHANGED <<chan, sock>> \/ (ConnectCloses /\ at' = "over")
        /\ at \in {"first", "refuse", "confirm", "failed", "late"}
    BY <1>12 DEF ConfirmEnds, Ends
  <2>2. CASE UNCHANGED <<chan, sock>>
    <3>1. at' \notin {"delete", "forget", "tls"}
      BY <1>12 DEF ConfirmEnds, Ends
    <3> QED
      BY <2>1, <2>2, <3>1 DEF Alive
  <2>3. CASE ConnectCloses /\ at' = "over"
    BY <2>1, <2>3, OwnerClosing
  <2> QED
    BY <2>1, <2>2, <2>3
<1>13. CASE StartLoop
  BY <1>13 DEF There, Alive, Reading, Medium, StartLoop
<1>14. CASE AssignLoop
  BY <1>14 DEF There, Alive, Reading, Medium, AssignLoop, Ends
<1>15. CASE SendUpgrade
  BY <1>15 DEF There, Alive, Reading, Medium, SendUpgrade, Sends
<1>16. CASE ReleaseFd
  BY <1>16 DEF There, Alive, Reading, Medium, ReleaseFd
<1>17. CASE DeleteChannel
  BY <1>17 DEF There, Alive, Reading, Medium, DeleteChannel
<1>18. CASE ForgetChannel
  BY <1>18 DEF There, Alive, Reading, Medium, ForgetChannel
<1>19. CASE TlsFails
  BY <1>19 DEF There, Alive, Reading, Medium, TlsFails
<1>20. CASE TlsSucceeds
  BY <1>20 DEF There, Alive, Reading, Medium, TlsSucceeds
<1>21. CASE Upgraded
  BY <1>21 DEF There, Alive, Reading, Medium, Upgraded, Receives, Dispatch, ReadFails, TimesOut
<1>22. CASE Broken
  BY <1>22, BrokenOwner
<1>23. CASE AdbClose
  BY <1>23 DEF There, Alive, Reading, Medium, AdbClose
<1>24. CASE CloseBegins
  BY <1>24 DEF There, Alive, Reading, Medium, CloseBegins
<1>25. CASE CloseFindsChannel
  BY <1>25 DEF There, Alive, Reading, Medium, CloseFindsChannel
<1>26. CASE CloseMarks
  BY <1>26, CloseMarksOwner
<1>27. CASE CloseShuts
  BY <1>27, CloseShutsOwner
<1>28. CASE CloseJoins
  BY <1>28 DEF There, Alive, Reading, Medium, CloseJoins
<1>29. CASE LoopEnds
  BY <1>29, LoopEndsOwner
<1>30. CASE Destroy
  BY <1>30, DestroyOwner
<1>31. CASE UNCHANGED <<table, at, closer, channel, chan, sock>>
  BY <1>31 DEF Alive
<1>32. CASE DeviceSpeaksTls \/ DeviceAnswers \/ DeviceTrickles \/ DeviceLeaves
  BY <1>31, <1>32 DEF DeviceSpeaksTls, DeviceAnswers, DeviceTrickles, DeviceLeaves, Answers
<1>40. CASE Turns
  BY <1>40, Turning DEF Alive
<1> QED
  BY <1>1, <1>2, <1>3, <1>4, <1>5, <1>6, <1>7, <1>8, <1>9, <1>10, <1>11, <1>12, <1>13, <1>14, <1>15,
     <1>16, <1>17, <1>18, <1>19, <1>20, <1>21, <1>22, <1>23, <1>24, <1>25, <1>26, <1>27, <1>28, <1>29,
     <1>30, <1>31, <1>32, <1>40
     DEF Next, Loop, Turns, vars, Create, Plain, Upgrade, Close, Device, Over

\* What the device can still answer.
LEMMA OrderKept ==
  ASSUME IInv, [Next]_vars
  PROVE  Order'
<1> USE DEF IInv, Order
<1>1. CASE Connect
  BY <1>1 DEF Control, Connect
<1>2. CASE SendHello
  <2>1. CASE at' = "over"
    BY <1>2, <2>1 DEF Control, SendHello, WriteThrows, Sends
  <2>2. CASE at' # "over"
    <3>1. at' = "first" /\ asked' = Append(asked, "CNXN") /\ wire' = wire /\ asked = <<>> /\ wire = <<>>
      BY <1>2, <2>2 DEF SendHello, WriteThrows, Sends, Ends
    <3>2. asked' = <<"CNXN">>
      BY <3>1
    <3> QED
      BY <3>1, <3>2
  <2> QED
    BY <2>1, <2>2
<1>3. CASE First
  <2>1. CASE at' = "over"
    BY <2>1
  <2>2. CASE at' # "over"
    <3>1. at = "first" /\ wire # <<>> /\ Takes /\ at' = Dispatch(Head(wire)) /\ asked' = asked
      BY <1>3, <2>2 DEF First, Receives, Ends
    <3>2. asked = <<>> /\ Len(wire') = 0
      BY <3>1, Taking
    <3>3. at' \in {"connected", "sign", "upgrade", "refuse"}
      BY <3>1, Taking DEF Dispatch, Messages
    <3> QED
      BY <3>1, <3>2, <3>3
  <2> QED
    BY <2>1, <2>2
<1>4. CASE Refuse
  BY <1>4 DEF Control, Refuse, Ends
<1>5. CASE SendSignature
  BY <1>5 DEF Control, SendSignature, WriteThrows, Sends, Ends
<1>6. CASE Signed
  <2>1. at = "signed" /\ asked' = asked
    BY <1>6 DEF Signed, Receives, ReadFails, TimesOut
  <2>2. at' \notin {"idle", "hello", "first"}
    BY <1>6, <2>1, Taking DEF Messages, Signed, Receives, ReadFails, TimesOut
  <2>3. CASE wire' = wire
    BY <2>1, <2>2, <2>3
  <2>4. CASE wire # <<>> /\ Takes
    BY <2>1, <2>2, <2>4, Taking
  <2> QED
    BY <1>6, <2>3, <2>4 DEF Signed, Receives, ReadFails, TimesOut
<1>7. CASE SendKey
  BY <1>7 DEF Control, SendKey, WriteThrows, Sends, Ends
<1>8. CASE Confirmed
  <2>1. at = "confirm" /\ asked' = asked
    BY <1>8 DEF Confirmed, Receives, ReadFails, TimesOut, Ends
  <2>2. at' \notin {"idle", "hello", "first"}
    BY <1>8, <2>1, Taking DEF Messages, Confirmed, Receives, ReadFails, TimesOut, Ends
  <2>3. CASE wire' = wire
    BY <2>1, <2>2, <2>3
  <2>4. CASE wire # <<>> /\ Takes
    BY <2>1, <2>2, <2>4, Taking
  <2> QED
    BY <1>8, <2>3, <2>4 DEF Confirmed, Receives, ReadFails, TimesOut, Ends
<1>9. CASE ConfirmEnds
  BY <1>9 DEF Control, ConfirmEnds, Ends
<1>10. CASE StartLoop
  BY <1>10 DEF Control, StartLoop
<1>11. CASE AssignLoop
  BY <1>11 DEF Control, AssignLoop, Ends
<1>12. CASE SendUpgrade
  BY <1>12 DEF Control, SendUpgrade, Sends
<1>13. CASE ReleaseFd
  BY <1>13 DEF Control, ReleaseFd
<1>14. CASE DeleteChannel
  BY <1>14 DEF Control, DeleteChannel
<1>15. CASE ForgetChannel
  BY <1>15 DEF Control, ForgetChannel
<1>16. CASE TlsFails
  BY <1>16 DEF Control, TlsFails
<1>17. CASE TlsSucceeds
  BY <1>17 DEF Control, TlsSucceeds
<1>18. CASE Upgraded
  <2>1. at = "upgraded" /\ asked' = asked
    BY <1>18 DEF Upgraded, Receives, Dispatch, ReadFails, TimesOut
  <2>2. at' \notin {"idle", "hello", "first"}
    BY <1>18, <2>1, Taking DEF Messages, Upgraded, Receives, Dispatch, ReadFails, TimesOut
  <2>3. CASE wire' = wire
    BY <2>1, <2>2, <2>3
  <2>4. CASE wire # <<>> /\ Takes
    BY <2>1, <2>2, <2>4, Taking
  <2> QED
    BY <1>18, <2>3, <2>4 DEF Upgraded, Receives, Dispatch, ReadFails, TimesOut
<1>19. CASE Broken
  BY <1>19 DEF Control, Broken, Ends
<1>20. CASE DeviceAnswers
  <2>1. PICK m \in Answers(Head(asked)) : wire' = Append(wire, m)
    BY <1>20 DEF DeviceAnswers
  <2>2. asked # <<>> /\ asked' = Tail(asked) /\ at' = at
    BY <1>20 DEF DeviceAnswers
  <2>3. CASE at = "first"
    <3>1. asked = <<"CNXN">> /\ wire = <<>>
      BY <2>2, <2>3
    <3>2. Len(asked) = 1
      BY <3>1
    <3> QED
      BY <2>1, <2>2, <2>3, <3>1, <3>2, Answering
  <2>4. CASE at # "first"
    BY <2>1, <2>2, <2>4, Answering
  <2> QED
    BY <2>3, <2>4
<1>21. CASE UNCHANGED <<at, asked, wire>>
  BY <1>21
<1>22. CASE AttemptFails \/ LookupFails \/ AttemptSucceeds \/ AdbClose \/ CloseBegins \/ CloseFindsChannel
         \/ CloseMarks \/ CloseShuts \/ CloseJoins \/ LoopEnds \/ Destroy \/ DeviceSpeaksTls
         \/ DeviceTrickles \/ DeviceLeaves
  BY <1>21, <1>22 DEF AttemptFails, LookupFails, AttemptSucceeds, AdbClose, CloseBegins,
     CloseFindsChannel, CloseMarks, CloseShuts, CloseJoins, LoopEnds, Destroy, DeviceSpeaksTls,
     DeviceTrickles, DeviceLeaves
<1>40. CASE Turns
  BY <1>40, Turning
<1> QED
  BY <1>1, <1>2, <1>3, <1>4, <1>5, <1>6, <1>7, <1>8, <1>9, <1>10, <1>11, <1>12, <1>13, <1>14, <1>15,
     <1>16, <1>17, <1>18, <1>19, <1>20, <1>21, <1>22, <1>40
     DEF Next, Loop, Turns, vars, Create, Plain, Upgrade, Close,
     Device, Over

\* What is known when connect decides.
LEMMA ToldKept ==
  ASSUME IInv, [Next]_vars
  PROVE  Told'
<1> USE DEF IInv, Told
<1>1. CASE AttemptSucceeds
  <2>1. UNCHANGED <<at, got, closer, wire, device>> /\ at = "idle" /\ channel' = "tcp"
    BY <1>1 DEF AttemptSucceeds, There
  <2>2. ~chan'["tcp"].closed
    BY <1>1 DEF AttemptSucceeds, Medium, Owner
  <2> QED
    BY <2>1, <2>2
<1>2. CASE Connect
  BY <1>2 DEF Control, There, Alive, Connect
<1>3. CASE SendHello
  BY <1>3 DEF Control, There, Alive, SendHello, WriteThrows, Sends, Ends
<1>4. CASE First
  <2>1. at = "first" /\ UNCHANGED <<closer, channel, device>>
    BY <1>4 DEF First, Receives, Dispatch, ReadFails, TimesOut, Ends
  <2>2. CASE UNCHANGED <<got, wire>> /\ at' \in {"over"}
    BY <2>1, <2>2
  <2>3. CASE wire # <<>> /\ Takes /\ UNCHANGED chan
    <3>1. at' \in {"connected", "sign", "upgrade", "refuse"} /\ (at' \in {"connected",
     "assign"} => got' = "CNXN")
      BY <1>4, <2>1, <2>3, Taking DEF Messages, First, Receives, Dispatch, ReadFails, TimesOut, Ends
    <3> QED
      BY <2>1, <2>3, <3>1, Taking
  <2> QED
    BY <1>4, <2>2, <2>3 DEF First, Receives, Dispatch, ReadFails, TimesOut, Ends
<1>5. CASE Refuse
  BY <1>5 DEF Control, There, Alive, Refuse, Ends
<1>6. CASE SendSignature
  BY <1>6 DEF Control, There, Alive, SendSignature, WriteThrows, Sends, Ends
<1>7. CASE Signed
  <2>1. at = "signed" /\ UNCHANGED <<closer, channel, device>>
    BY <1>7 DEF Signed, Receives, ReadFails, TimesOut
  <2>2. CASE UNCHANGED <<got, wire>> /\ at' \in {"key"}
    BY <2>1, <2>2, <1>7 DEF Signed
  <2>3. CASE wire # <<>> /\ Takes /\ UNCHANGED chan
    <3>1. at' \in {"connected", "key", "refuse"} /\ (at' \in {"connected", "assign"} => got' = "CNXN")
      BY <1>7, <2>1, <2>3, Taking DEF Messages, Signed, Receives, ReadFails, TimesOut
    <3> QED
      BY <2>1, <2>3, <3>1, Taking
  <2> QED
    BY <1>7, <2>2, <2>3 DEF Signed, Receives, ReadFails, TimesOut
<1>8. CASE SendKey
  BY <1>8 DEF Control, There, Alive, SendKey, WriteThrows, Sends, Ends
<1>9. CASE Confirmed
  <2>1. at = "confirm" /\ UNCHANGED <<closer, channel, device>>
    BY <1>9 DEF Confirmed, Receives, ReadFails, TimesOut, Ends
  <2>2. CASE /\ wire # <<>> /\ Takes
             /\ at' = "over" \/ (at' = "connected" /\ Head(wire) = "CNXN" /\ UNCHANGED chan)
    <3>0. wire # <<>> /\ Takes /\ device' = device
      BY <2>1, <2>2
    <3>1. /\ got' = Head(wire) /\ (got' = "CNXN" => device'.online)
          /\ \A i \in 1..Len(wire') : wire'[i] = "CNXN" => device'.online
      BY <3>0, Taking
    <3>2. CASE at' = "over"
      BY <3>1, <3>2
    <3>3. CASE at' = "connected" /\ Head(wire) = "CNXN" /\ UNCHANGED chan
      BY <2>1, <3>1, <3>3
    <3> QED
      BY <2>2, <3>2, <3>3
  <2>3. CASE at' = "failed" /\ UNCHANGED <<got, wire, chan, sock>> /\ ReadFails("confirm")
    <3>1. channel \in {"tcp", "tls"}
      BY <2>1, Has
    <3>2. chan[channel].closed \/ sock.open
      BY <2>1, <3>1 DEF Owner
    <3> QED
      BY <2>1, <2>3, <3>1, <3>2 DEF ReadFails
  <2>4. CASE at' = "late" /\ UNCHANGED <<got, wire, chan>>
    BY <2>1, <2>4
  <2> QED
    BY <1>9, <2>2, <2>3, <2>4 DEF Confirmed, Receives, ReadFails, TimesOut, Ends
<1>10. CASE ConfirmEnds
  BY <1>10 DEF Control, There, Alive, ConfirmEnds, Ends
<1>11. CASE StartLoop
  BY <1>11 DEF Control, There, Alive, StartLoop
<1>12. CASE AssignLoop
  BY <1>12 DEF Control, There, Alive, AssignLoop, Ends
<1>13. CASE SendUpgrade
  BY <1>13 DEF Control, There, Alive, SendUpgrade, Sends
<1>14. CASE ReleaseFd
  BY <1>14 DEF Control, There, Alive, ReleaseFd
<1>15. CASE DeleteChannel
  BY <1>15 DEF Control, There, Alive, DeleteChannel
<1>16. CASE ForgetChannel
  BY <1>16 DEF Control, There, Alive, ForgetChannel
<1>17. CASE TlsFails
  BY <1>17 DEF Control, There, Alive, TlsFails
<1>18. CASE TlsSucceeds
  <2>1. at' = "upgraded" /\ channel' = "tls" /\ UNCHANGED <<got, closer, chan, wire, device>>
        /\ at = "tls" /\ channel = "none"
    BY <1>18 DEF TlsSucceeds, There, Alive
  <2>2. ~chan["tls"].closed
    BY <2>1 DEF Owner, There, Alive
  <2> QED
    BY <2>1, <2>2
<1>19. CASE Upgraded
  <2>1. at = "upgraded" /\ UNCHANGED <<closer, channel, device>>
    BY <1>19 DEF Upgraded, Receives, Dispatch, ReadFails, TimesOut
  <2>2. CASE UNCHANGED <<got, wire>> /\ at' \in {"broken"}
    BY <2>1, <2>2, <1>19 DEF Upgraded
  <2>3. CASE wire # <<>> /\ Takes /\ UNCHANGED chan /\ at' = Dispatch(Head(wire))
    <3>1. at' \in {"connected", "sign", "upgrade", "refuse"} /\ (at' \in {"connected",
     "assign"} => got' = "CNXN")
      BY <1>19, <2>1, <2>3, Taking DEF Messages, Upgraded, Receives, Dispatch, ReadFails, TimesOut
    <3> QED
      BY <2>1, <2>3, <3>1, Taking
  <2> QED
    BY <1>19, <2>2, <2>3 DEF Upgraded, Receives, Dispatch, ReadFails, TimesOut
<1>20. CASE Broken
  BY <1>20 DEF Control, There, Alive, Broken, Ends
<1>21. CASE AdbClose
  BY <1>21 DEF Control, There, Alive, AdbClose
<1>22. CASE CloseBegins
  BY <1>22 DEF Control, There, Alive, CloseBegins
<1>23. CASE CloseFindsChannel
  BY <1>23 DEF Control, There, Alive, CloseFindsChannel
<1>24. CASE CloseMarks
  <2>1. closer' # "none" /\ UNCHANGED <<at, got, channel, wire, device>>
    BY <1>24 DEF CloseMarks
  <2>2. channel \in {"tcp", "tls"} /\ chan[channel].closed => chan'[channel].closed
    BY <1>24 DEF CloseMarks, Marks, Medium
  <2>3. at = "failed" => channel \in {"tcp", "tls"}
    BY Has
  <2> QED
    BY <2>1, <2>2, <2>3
<1>25. CASE CloseShuts
  <2>1. closer' # "none" /\ UNCHANGED <<at, got, channel, wire, device>>
    BY <1>25 DEF CloseShuts
  <2>2. channel \in {"tcp", "tls"} /\ chan[channel].closed => chan'[channel].closed
    BY <1>25 DEF CloseShuts, Medium
  <2>3. at = "failed" => channel \in {"tcp", "tls"}
    BY Has
  <2> QED
    BY <2>1, <2>2, <2>3
<1>26. CASE CloseJoins
  BY <1>26 DEF Control, There, Alive, CloseJoins
<1>27. CASE LoopEnds
  <2>1. loop.at # "none" /\ table # "destroyed" /\ UNCHANGED <<at, got, channel, wire, device, closer>>
    BY <1>27 DEF LoopEnds, LoopThrows, Blocked
  <2>2. at \in {"assign", "over"}
    BY <2>1 DEF There
  <2> QED
    BY <2>1, <2>2
<1>28. CASE Destroy
  BY <1>28 DEF Control, There, Alive, Destroy
<1>29. CASE DeviceSpeaksTls
  <2>1. UNCHANGED <<at, got, closer, channel, chan, wire>>
    BY <1>29 DEF DeviceSpeaksTls
  <2>2. device'.online = device.online /\ device'.up = device.up
    BY <1>29 DEF DeviceSpeaksTls, Far
  <2> QED
    BY <2>1, <2>2
<1>30. CASE DeviceAnswers
  <2>1. PICK m \in Answers(Head(asked)) :
          wire' = Append(wire, m) /\ device' = [device EXCEPT !.online = @ \/ m = "CNXN", !.partial = FALSE]
    BY <1>30 DEF DeviceAnswers
  <2>2. asked # <<>> /\ asked' = Tail(asked) /\ UNCHANGED <<at, got, closer, channel, chan>>
    BY <1>30 DEF DeviceAnswers
  <2>3. device'.up = device.up /\ (device'.online <=> device.online \/ m = "CNXN")
    BY <2>1 DEF Far
  <2>4. \A i \in 1..Len(wire') : wire'[i] = "CNXN" => device'.online
    BY <2>1, <2>2, <2>3, Answering
  <2> QED
    BY <2>2, <2>3, <2>4
<1>31. CASE DeviceLeaves
  <2>1. UNCHANGED <<at, got, closer, channel, chan, wire>>
    BY <1>31 DEF DeviceLeaves
  <2>2. device'.online = device.online /\ ~device'.up
    BY <1>31 DEF DeviceLeaves, Far
  <2> QED
    BY <2>1, <2>2
<1>32. CASE UNCHANGED <<at, got, closer, channel, chan, wire, device>>
  BY <1>32
<1>33. CASE AttemptFails \/ LookupFails
  BY <1>32, <1>33 DEF AttemptFails, LookupFails
<1>40. CASE Turns
  BY <1>40, Turning
<1>41. CASE DeviceTrickles
  <2>1. UNCHANGED <<at, got, closer, channel, chan, wire>>
    BY <1>41 DEF DeviceTrickles
  <2>2. device'.online = device.online /\ device'.up = device.up
    BY <1>41 DEF DeviceTrickles, Far
  <2> QED
    BY <2>1, <2>2
<1> QED
  BY <1>1, <1>2, <1>3, <1>4, <1>5, <1>6, <1>7, <1>8, <1>9, <1>10, <1>11, <1>12, <1>13, <1>14, <1>15,
     <1>16, <1>17, <1>18, <1>19, <1>20, <1>21, <1>22, <1>23, <1>24, <1>25, <1>26, <1>27, <1>28, <1>29,
     <1>30, <1>31, <1>32, <1>33, <1>40, <1>41
     DEF Next, Loop, Turns, vars, Create, Plain, Upgrade, Close, Device, Over

\* What the application was told stays true.
LEMMA ResultTrueKept ==
  ASSUME IInv, [Next]_vars
  PROVE  ResultTrue'
<1> USE DEF IInv, ResultTrue
<1>1. CASE SendHello
  BY <1>1 DEF Told, Control, SendHello, WriteThrows, Sends, Ends
<1>2. CASE First
  BY <1>2 DEF Told, Control, First, Receives, Dispatch, ReadFails, TimesOut, Ends
<1>3. CASE Refuse
  BY <1>3 DEF Told, Control, Refuse, Ends
<1>4. CASE SendSignature
  BY <1>4 DEF Told, Control, SendSignature, WriteThrows, Sends, Ends
<1>5. CASE Signed
  BY <1>5 DEF Told, Control, Signed, Receives, ReadFails, TimesOut
<1>6. CASE SendKey
  BY <1>6 DEF Told, Control, SendKey, WriteThrows, Sends, Ends
<1>7. CASE Confirmed
  BY <1>7 DEF Told, Control, Confirmed, Receives, ReadFails, TimesOut, Ends
<1>8. CASE ConfirmEnds
  <2>1. UNCHANGED <<got, closer, loop, device>> /\ at \in {"failed", "late"}
    BY <1>8 DEF ConfirmEnds
  <2>2. result' \in {-5, -6, -7} /\ (result' = -6 => chan[channel].closed)
        /\ (result' = -7 => at = "failed" /\ ~chan[channel].closed)
    BY <1>8 DEF ConfirmEnds, Ends
  <2>3. channel \in {"tcp", "tls"}
    BY <2>1, Has
  <2> QED
    BY <2>1, <2>2, <2>3 DEF Told
<1>9. CASE StartLoop
  BY <1>9 DEF Told, Control, StartLoop
<1>10. CASE AssignLoop
  <2>1. result' = 0 /\ at = "assign" /\ UNCHANGED <<got, closer, device>>
    BY <1>10 DEF AssignLoop, Ends
  <2>2. loop'.at = loop.at
    BY <1>10 DEF AssignLoop, Names
  <2>3. got = "CNXN" /\ device.online
    BY <2>1 DEF Told
  <2>4. loop.at # "none"
    BY <2>1 DEF There
  <2> QED
    BY <2>1, <2>2, <2>3, <2>4
<1>11. CASE Upgraded
  BY <1>11 DEF Told, Control, Upgraded, Receives, Dispatch, ReadFails, TimesOut
<1>12. CASE Broken
  BY <1>12 DEF Told, Control, Broken, Ends
<1>13. CASE AdbClose
  BY <1>13 DEF Told, Control, AdbClose
<1>14. CASE CloseBegins
  BY <1>14 DEF Told, Control, CloseBegins
<1>15. CASE CloseFindsChannel
  BY <1>15 DEF Told, Control, CloseFindsChannel
<1>16. CASE CloseMarks
  BY <1>16 DEF Told, Control, CloseMarks
<1>17. CASE CloseShuts
  BY <1>17 DEF Told, Control, CloseShuts
<1>18. CASE CloseJoins
  BY <1>18 DEF Told, Control, CloseJoins
<1>19. CASE LoopEnds
  <2>1. UNCHANGED <<result, got, closer, device>>
    BY <1>19 DEF LoopEnds
  <2>2. CASE closed
    BY <1>19, <2>1, <2>2 DEF LoopEnds, Names
  <2>3. CASE ~closed
    BY <1>19, <2>1, <2>3 DEF LoopEnds
  <2> QED
    BY <2>2, <2>3
<1>20. CASE DeviceSpeaksTls
  BY <1>20 DEF Told, Control, DeviceSpeaksTls
<1>21. CASE DeviceAnswers
  <2>1. PICK m : device' = [device EXCEPT !.online = @ \/ m = "CNXN", !.partial = FALSE]
    BY <1>21 DEF DeviceAnswers
  <2>2. device'.up = device.up /\ (device.online => device'.online)
    BY <2>1 DEF Far
  <2>3. UNCHANGED <<result, got, closer, loop>>
    BY <1>21 DEF DeviceAnswers
  <2> QED
    BY <2>2, <2>3
<1>22. CASE DeviceLeaves
  BY <1>22 DEF Told, Control, DeviceLeaves
<1>23. CASE UNCHANGED <<result, got, closer, loop, device>>
  BY <1>23
<1>24. CASE AttemptFails \/ LookupFails \/ AttemptSucceeds \/ Connect \/ SendUpgrade \/ ReleaseFd
         \/ DeleteChannel \/ ForgetChannel \/ TlsFails \/ TlsSucceeds \/ Destroy
  BY <1>23, <1>24 DEF AttemptFails, LookupFails, AttemptSucceeds, Connect, SendUpgrade, ReleaseFd,
     DeleteChannel, ForgetChannel, TlsFails, TlsSucceeds, Destroy, Sends
<1>40. CASE Turns
  BY <1>40, Turning
<1>41. CASE DeviceTrickles
  BY <1>41 DEF Told, Control, Far, DeviceTrickles
<1> QED
  BY <1>1, <1>2, <1>3, <1>4, <1>5, <1>6, <1>7, <1>8, <1>9, <1>10, <1>11, <1>12, <1>13, <1>14, <1>15,
     <1>16, <1>17, <1>18, <1>19, <1>20, <1>21, <1>22, <1>23, <1>24, <1>40, <1>41
     DEF Next, Loop, Turns, vars, Create, Plain, Upgrade, Close, Device, Over

-----------------------------------------------------------------------------
(* The theorems.                                                           *)

Fresh == [closed |-> FALSE, fd |-> FALSE]

LEMMA FreshChannels == [tcp |-> Fresh, tls |-> Fresh] \in [{"tcp", "tls"} -> {Fresh}]
  OBVIOUS

LEMMA Starts ==
  ASSUME Init
  PROVE  IInv
<1> USE DEF Init
<1>1. Control /\ ResultTrue
  BY DEF Control, ResultTrue
<1>2. attempt \in [retry : 1..(Retries + 1), address : 1..Addresses]
  BY HandshakeAssumption
<1>3. loop \in [at : {"none", "running", "reading", "polling", "deaf", "ended"}, joinable : BOOLEAN]
  OBVIOUS
<1>4. Names
  BY <1>2, <1>3 DEF Names
<1>5. sock \in [open : BOOLEAN, closes : Nat, moved : BOOLEAN]
  OBVIOUS
<1>6. chan \in [{"tcp", "tls"} -> [closed : BOOLEAN, fd : BOOLEAN]]
  <2>1. chan = [tcp |-> Fresh, tls |-> Fresh]
    BY DEF Fresh
  <2>2. chan \in [{"tcp", "tls"} -> {Fresh}]
    BY <2>1, FreshChannels
  <2>3. Fresh \in [closed : BOOLEAN, fd : BOOLEAN]
    BY DEF Fresh
  <2> QED
    BY <2>2, <2>3
<1>7. Medium
  BY <1>5, <1>6 DEF Medium
<1>8. device \in [up : BOOLEAN, online : BOOLEAN, tls : BOOLEAN, partial : BOOLEAN]
  OBVIOUS
<1>9. Far
  BY <1>8 DEF Far
<1>10. There
  BY HandshakeAssumption DEF There, Alive, Reading
<1>11. Order
  BY DEF Order
<1>12. Owner /\ Told
  BY DEF Owner, Told, Alive
<1> QED
  BY <1>1, <1>4, <1>7, <1>9, <1>10, <1>11, <1>12 DEF IInv

LEMMA Kept ==
  ASSUME IInv, [Next]_vars
  PROVE  IInv'
  BY ControlKept, NamesKept, MediumKept, FarKept, ThereKept, OwnerKept, OrderKept, ToldKept,
     ResultTrueKept DEF IInv

(* The invariant the other theorems are drawn from.                        *)
THEOREM Inductive == Spec => []IInv
<1>1. Init => IInv
  BY Starts
<1>2. IInv /\ [Next]_vars => IInv'
  BY Kept
<1> QED
  BY <1>1, <1>2, PTL DEF Spec

(* Every variable keeps to its type: connect has a result exactly when it  *)
(* is over, and the retry and the address stay within their bounds.        *)
THEOREM TypeCorrect == Spec => []TypeOK
<1>1. IInv => TypeOK
  BY DEF IInv, Control, Names, Medium, Far, TypeOK
<1> QED
  BY <1>1, Inductive, PTL

(* What the application is told of its connect is what happened, whatever  *)
(* the device answers and whenever the application closes.                 *)
THEOREM ToldTheTruth == Spec => []ResultTrue
<1>1. IInv => ResultTrue
  BY DEF IInv
<1> QED
  BY <1>1, Inductive, PTL

(* The number of the socket is closed once, whoever closes first, unless   *)
(* it was moved to a TLS channel; and it is closed when the object is gone.*)
THEOREM NumberOnce == Spec => []ClosedOnce
<1>1. IInv => ClosedOnce
  BY DEF IInv, Owner, ClosedOnce, Alive
<1> QED
  BY <1>1, Inductive, PTL
=============================================================================
