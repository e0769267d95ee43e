----------------------------- MODULE Handshake -----------------------------
(***************************************************************************)
(* One ADB connection from adbCreate to the destruction of its Adb object: *)
(* TcpChannel and its attempts to connect, Adb::connect with the           *)
(* authorisation and the upgrade to TLS, Adb::close, which the application *)
(* may call while connect is running, and ~Adb.                            *)
(*                                                                         *)
(* Adb::connect runs in an asynchronous work, Adb::close in another; the   *)
(* application is told the result on its own thread.  Both works and the   *)
(* table of instances share the object; who is last destroys it.  What an  *)
(* open connection does is in modules AdbFlow and AdbStreams: the receive  *)
(* loop is here a thread that looks at isClosed_, reads and starts anew.   *)
(***************************************************************************)
EXTENDS Integers, Sequences

CONSTANTS Retries,   \* MAX_CONNECT_RETRIES
          Addresses  \* addresses the name resolves to

ASSUME HandshakeAssumption == {Retries, Addresses} \subseteq Nat \ {0}

VARIABLES attempt,  \* TcpChannel(host, port): the retry and the address it tries
          table,    \* whether g_adbInstances has the object, and whether it still exists
          at,       \* where Adb::connect is
          result,   \* what connect returned; 1 while there is nothing
          got,      \* the last message connect has read
          closed,   \* isClosed_ of the Adb object
          closer,   \* the work of adbClose, and where Adb::close is in it
          channel,  \* channel_: "none" is nullptr, "deleted" what it points to for a moment
          chan,     \* the two channels: closed_ and whether fd_ is set
          sock,     \* the socket: its state, how often its number was closed, whether releaseFd moved it
          loop,     \* handleInLoop: at the top, in a read; and whether handleInThread_ is joinable
          wire,     \* messages of the device that connect has not read
          asked,    \* requests the device has not answered
          device    \* whether the device lives, has sent CNXN, has spoken TLS, and has sent in TLS
                    \* something that is no message yet: a ticket, or part of a record

vars == <<attempt, table, at, result, got, closed, closer, channel, chan, sock, loop, wire, asked, device>>
application == <<attempt, table>>
closing == <<closed, closer>>
medium == <<channel, chan, sock>>
far == <<wire, asked, device>>

Init ==
  /\ attempt = [retry |-> 1, address |-> 1] /\ table = "none"
  /\ at = "idle" /\ result = 1 /\ got = "nothing"
  /\ closed = FALSE /\ closer = "none"
  /\ channel = "none"
  /\ chan = [tcp |-> [closed |-> FALSE, fd |-> FALSE], tls |-> [closed |-> FALSE, fd |-> FALSE]]
  /\ sock = [open |-> FALSE, closes |-> 0, moved |-> FALSE]
  /\ loop = [at |-> "none", joinable |-> FALSE]
  /\ wire = <<>> /\ asked = <<>>
  /\ device = [up |-> TRUE, online |-> FALSE, tls |-> FALSE, partial |-> FALSE]

-----------------------------------------------------------------------------
(* adbCreate.                                                              *)

\* Every address in turn, then all of them again.
AttemptFails ==
  /\ table = "none"
  /\ attempt' = (IF attempt.address < Addresses THEN [attempt EXCEPT !.address = @ + 1]
                 ELSE [retry |-> attempt.retry + 1, address |-> 1])
  /\ table' = (IF attempt'.retry > Retries THEN "failed" ELSE "none")
  /\ UNCHANGED <<at, result, got, closing, medium, loop, far>>

LookupFails ==
  /\ table = "none" /\ attempt = [retry |-> 1, address |-> 1]
  /\ table' = "failed"
  /\ UNCHANGED <<attempt, at, result, got, closing, medium, loop, far>>

\* The object enters the table when the application gets its number.
AttemptSucceeds ==
  /\ table = "none" /\ table' = "listed"
  /\ channel' = "tcp" /\ chan' = [chan EXCEPT !.tcp.fd = TRUE]
  /\ sock' = [sock EXCEPT !.open = TRUE]
  /\ UNCHANGED <<attempt, at, result, got, closing, loop, far>>

-----------------------------------------------------------------------------
(* Channels.                                                               *)

\* shutdown and close of the descriptor, if the channel has one.
Shut(c, s) == IF chan[c].fd THEN [s EXCEPT !.open = FALSE, !.closes = @ + 1] ELSE s

\* A faulty variant: the channel is only marked.
ConnectMarks == IF channel = "none" THEN UNCHANGED <<chan, sock>>
                ELSE chan' = [chan EXCEPT ![channel].closed = TRUE] /\ UNCHANGED sock
\* close() of a channel by connect: only the first one closes the descriptor.
ConnectCloses ==
  IF channel = "none" \/ chan[channel].closed THEN UNCHANGED <<chan, sock>>
  ELSE /\ chan' = [chan EXCEPT ![channel] = [closed |-> TRUE, fd |-> FALSE]]
       /\ sock' = Shut(channel, sock)

\* A faulty variant: connect is over without a result.
EndsSilently(code) == at' = "over" /\ UNCHANGED result
Ends(code) == at' = "over" /\ result' = code

\* A write throws on a channel that is closed and may throw when the device is gone; what throws out
\* of connect becomes -1, and the channel stays as it is.
WriteThrows(label) ==
  /\ at = label /\ (chan[channel].closed \/ ~device.up)
  /\ Ends(-1)
  /\ UNCHANGED <<application, got, closing, medium, loop, far>>

Sends(label, request, next) ==
  /\ at = label /\ ~chan[channel].closed
  /\ asked' = Append(asked, request) /\ at' = next
  /\ UNCHANGED <<application, result, got, closing, medium, loop, wire, device>>

\* readMessageFromChannel: a message, an error or, when nothing comes, the time limit.
Receives(label) == at = label /\ ~chan[channel].closed /\ sock.open /\ wire # <<>>
Takes == got' = Head(wire) /\ wire' = Tail(wire)
ReadFails(label) == at = label /\ (chan[channel].closed \/ ~sock.open \/ ~device.up)
\* poll has seen something on the TLS connection, and SSL_read waits for the rest without a limit.
Stuck == channel = "tls" /\ device.partial
\* A faulty variant: read in place of readWithTimeout.
NeverTimesOut(label) == FALSE
TimesOut(label) == at = label /\ wire = <<>> /\ ~Stuck

-----------------------------------------------------------------------------
(* Adb::connect.                                                           *)

Connect ==
  /\ table = "listed" /\ at = "idle" /\ at' = "hello"
  /\ UNCHANGED <<application, result, got, closing, medium, loop, far>>

SendHello == WriteThrows("hello") \/ Sends("hello", "CNXN", "first")

\* Where connect goes with a message that is not an answer to the public key.
Dispatch(m) == CASE m = "CNXN" -> "connected" [] m = "AUTH" -> "sign" [] m = "STLS" -> "upgrade"
                 [] m = "OTHER" -> "refuse"

First ==
  \/ /\ Receives("first") /\ Takes /\ at' = Dispatch(Head(wire))
     /\ UNCHANGED <<application, result, closing, medium, loop, asked, device>>
  \/ /\ ReadFails("first") \/ TimesOut("first")
     /\ ConnectCloses /\ Ends(-4)
     /\ UNCHANGED <<application, got, closing, channel, loop, far>>

\* Neither CNXN nor AUTH: the channel is closed.
Refuse ==
  /\ at = "refuse" /\ ConnectCloses /\ Ends(-1)
  /\ UNCHANGED <<application, got, closing, channel, loop, far>>

SendSignature == WriteThrows("sign") \/ Sends("sign", "SIGNATURE", "signed")

\* Another challenge, silence or an error: the device does not know the key.
Signed ==
  \/ /\ Receives("signed") /\ Takes
     /\ at' = (CASE Head(wire) = "CNXN" -> "connected" [] Head(wire) = "AUTH" -> "key"
                 [] Head(wire) \notin {"CNXN", "AUTH"} -> "refuse")
     /\ UNCHANGED <<application, result, closing, medium, loop, asked, device>>
  \/ /\ ReadFails("signed") \/ TimesOut("signed")
     /\ at' = "key"
     /\ UNCHANGED <<application, result, got, closing, medium, loop, far>>

SendKey == WriteThrows("key") \/ Sends("key", "KEY", "confirm")

\* The user is asked.  An error on a channel that is closed is the application's doing.
Confirmed ==
  \/ /\ Receives("confirm") /\ Takes
     /\ IF Head(wire) = "CNXN" THEN at' = "connected" /\ UNCHANGED <<result, chan, sock>>
        ELSE Ends(-3) /\ ConnectCloses
     /\ UNCHANGED <<application, closing, channel, loop, asked, device>>
  \/ /\ ReadFails("confirm") /\ at' = "failed"
     /\ UNCHANGED <<application, result, got, closing, medium, loop, far>>
  \/ /\ TimesOut("confirm") /\ at' = "late"
     /\ UNCHANGED <<application, result, got, closing, medium, loop, far>>

ConfirmEnds ==
  /\ at \in {"failed", "late"}
  /\ Ends(CASE chan[channel].closed -> -6
            [] ~chan[channel].closed -> IF at = "late" THEN -5 ELSE -7)
  /\ ConnectCloses
  /\ UNCHANGED <<application, got, closing, channel, loop, far>>

\* CNXN: the receive loop is started, and its thread becomes handleInThread_.
StartLoop ==
  /\ at = "connected" /\ at' = "assign"
  /\ loop' = [loop EXCEPT !.at = "running"]
  /\ UNCHANGED <<application, result, got, closing, medium, far>>

AssignLoop ==
  /\ at = "assign" /\ Ends(0)
  /\ loop' = [loop EXCEPT !.joinable = TRUE]
  /\ UNCHANGED <<application, got, closing, medium, far>>

-----------------------------------------------------------------------------
(* The upgrade: the socket goes from one channel to another, and for a     *)
(* while channel_ points to none.                                          *)

SendUpgrade == Sends("upgrade", "TLS", "release") \/
  /\ at = "upgrade" /\ (chan[channel].closed \/ ~device.up) /\ at' = "broken"
  /\ UNCHANGED <<application, result, got, closing, medium, loop, far>>

\* releaseFd marks the channel closed; connect keeps the number.
ReleaseFd ==
  /\ at = "release" /\ at' = "delete"
  /\ chan' = [chan EXCEPT !.tcp = [closed |-> TRUE, fd |-> FALSE], !.tls.fd = chan.tcp.fd]
  /\ sock' = [sock EXCEPT !.moved = TRUE]
  /\ UNCHANGED <<application, result, got, closing, channel, loop, far>>

DeleteChannel ==
  /\ at = "delete" /\ at' = "forget" /\ channel' = "deleted"
  /\ UNCHANGED <<application, result, got, closing, chan, sock, loop, far>>

ForgetChannel ==
  /\ at = "forget" /\ at' = "tls" /\ channel' = "none"
  /\ UNCHANGED <<application, result, got, closing, chan, sock, loop, far>>

\* DoHandshake has no time limit.  It fails when there is no socket, for want of a key, or when the
\* device refuses or goes away; then nobody but connect has the number.
TlsFails ==
  /\ at = "tls" /\ at' = "broken"
  /\ UNCHANGED <<application, result, got, closing, medium, loop, far>>

\* Keep-alive probes tell that the device has gone; a channel that was shut has released no number.
TlsAborts == (~device.up \/ ~chan.tls.fd) /\ TlsFails

TlsSucceeds ==
  /\ at = "tls" /\ chan.tls.fd /\ device.tls /\ at' = "upgraded"
  /\ channel' = "tls"
  /\ UNCHANGED <<application, result, got, closing, chan, sock, loop, far>>

Upgraded ==
  \/ /\ Receives("upgraded") /\ Takes /\ at' = Dispatch(Head(wire))
     /\ UNCHANGED <<application, result, closing, medium, loop, asked, device>>
  \/ /\ ReadFails("upgraded") \/ TimesOut("upgraded")
     /\ at' = "broken"
     /\ UNCHANGED <<application, result, got, closing, medium, loop, far>>

\* The number is closed, and closed once more by the channel if there is one already.
Broken ==
  /\ at = "broken" /\ Ends(-1)
  /\ LET direct == IF channel # "tcp" /\ chan.tls.fd
                   THEN [sock EXCEPT !.open = FALSE, !.closes = @ + 1] ELSE sock
         again == channel # "none" /\ ~chan[channel].closed
     IN /\ sock' = (IF again THEN Shut(channel, direct) ELSE direct)
        /\ chan' = (IF again THEN [chan EXCEPT ![channel] = [closed |-> TRUE, fd |-> FALSE]] ELSE chan)
  /\ UNCHANGED <<application, got, closing, channel, loop, far>>

-----------------------------------------------------------------------------
(* adbClose, Adb::close and the receive loop.                              *)

\* The table loses the object, the work keeps it.
AdbClose ==
  /\ table = "listed" /\ table' = "unlisted" /\ closer' = "begin"
  /\ UNCHANGED <<attempt, at, result, got, closed, medium, loop, far>>

\* The first close of the object goes on, others return at once.
CloseBegins ==
  /\ closer = "begin" /\ closed' = TRUE
  /\ closer' = (IF closed THEN "done" ELSE "channel")
  /\ UNCHANGED <<application, at, result, got, medium, loop, far>>

\* channel_ is read; when it points to nothing there is nothing to close.
CloseFindsChannel ==
  /\ closer = "channel"
  /\ closer' = (IF channel = "none" THEN "join" ELSE channel)
  /\ UNCHANGED <<application, at, result, got, closed, medium, loop, far>>

\* A faulty variant: the socket is shut down before the channel says that it is closed.
ShutsThenMarks(c) == IF chan[c].closed THEN UNCHANGED <<chan, sock>>
                     ELSE chan' = [chan EXCEPT ![c].fd = FALSE] /\ sock' = Shut(c, sock)
\* closed_ is set before anything happens to the socket.
Marks(c) == chan' = [chan EXCEPT ![c].closed = TRUE] /\ UNCHANGED sock

CloseMarks ==
  /\ closer \in {"tcp", "tls", "deleted"}
  /\ IF closer = "deleted" \/ chan[closer].closed
     THEN closer' = "join" /\ UNCHANGED <<chan, sock>>
     ELSE closer' = (IF closer = "tcp" THEN "tcp shut" ELSE "tls shut") /\ Marks(closer)
  /\ UNCHANGED <<application, at, result, got, closed, channel, loop, far>>

CloseShuts ==
  /\ closer \in {"tcp shut", "tls shut"} /\ closer' = "join"
  /\ LET c == IF closer = "tcp shut" THEN "tcp" ELSE "tls"
     IN /\ sock' = Shut(c, sock)
        /\ chan' = [chan EXCEPT ![c] = [closed |-> TRUE, fd |-> FALSE]]
  /\ UNCHANGED <<application, at, result, got, closed, channel, loop, far>>

CloseJoins ==
  /\ closer = "join" /\ (loop.joinable => loop.at = "ended")
  /\ closer' = "done" /\ loop' = [loop EXCEPT !.joinable = FALSE]
  /\ UNCHANGED <<application, at, result, got, closed, medium, far>>

\* A faulty variant: the loop looks at its channel only.
ClosedUnseen == FALSE
\* isClosed_ at the top of the loop ends it.
ClosedSeen == closed
\* The loop has seen isClosed_ and closed_ unset and is about to read.
LoopReads ==
  /\ loop.at = "running" /\ table # "destroyed" /\ ~ClosedSeen /\ ~chan[channel].closed
  /\ loop' = [loop EXCEPT !.at = "reading"]
  /\ UNCHANGED <<application, at, result, got, closing, medium, far>>

\* TlsAdbChannel polls fd_ first.  If a close has taken it meanwhile, it polls -1, which poll
\* ignores, without a time limit.
LoopPolls ==
  /\ loop.at = "reading" /\ channel = "tls"
  /\ loop' = [loop EXCEPT !.at = IF chan.tls.fd THEN "polling" ELSE "deaf"]
  /\ UNCHANGED <<application, at, result, got, closing, medium, far>>

Blocked == loop.at = "polling" \/ (loop.at = "reading" /\ channel = "tcp")

\* A message of the device: the loop starts anew.
LoopTurns ==
  /\ Blocked /\ sock.open /\ device.up
  /\ loop' = [loop EXCEPT !.at = "running"]
  /\ UNCHANGED <<application, at, result, got, closing, medium, far>>

\* The read throws.
LoopThrows == (loop.at = "running" /\ chan[channel].closed) \/ (Blocked /\ (~sock.open \/ ~device.up))

\* A loop that fails closes the object itself when nobody has, and is then detached.
LoopEnds ==
  /\ table # "destroyed" /\ ((loop.at = "running" /\ ClosedSeen) \/ LoopThrows)
  /\ closed' = TRUE
  /\ IF closed THEN loop' = [loop EXCEPT !.at = "ended"] /\ UNCHANGED <<chan, sock>>
     ELSE loop' = [at |-> "ended", joinable |-> FALSE] /\ ConnectCloses
  /\ UNCHANGED <<application, at, result, got, closer, channel, far>>

\* The last of the table and the works drops the object.
Destroy ==
  /\ table = "unlisted" /\ closer = "done" /\ at \in {"idle", "over"}
  /\ table' = "destroyed"
  /\ ConnectCloses /\ channel' = "none"
  /\ UNCHANGED <<attempt, at, result, got, closing, loop, far>>

-----------------------------------------------------------------------------
(* The device: answers what it was asked in the order in which it was      *)
(* asked, early, late or never, and may go away.                           *)

Answers(request) ==
  CASE request = "CNXN" -> {"CNXN", "AUTH", "STLS", "OTHER"}
    [] request = "SIGNATURE" -> {"CNXN", "AUTH"}
    [] request = "KEY" -> {"CNXN", "OTHER"}
    [] request = "TLS" -> {"CNXN"}

DeviceSpeaksTls ==
  /\ device.up /\ ~device.tls /\ asked # <<>> /\ Head(asked) = "TLS"
  /\ device' = [device EXCEPT !.tls = TRUE]
  /\ UNCHANGED <<application, at, result, got, closing, medium, loop, wire, asked>>

DeviceAnswers ==
  /\ device.up /\ asked # <<>> /\ (Head(asked) = "TLS" => device.tls)
  /\ \E m \in Answers(Head(asked)) :
       /\ wire' = Append(wire, m)
       /\ device' = [device EXCEPT !.online = @ \/ m = "CNXN", !.partial = FALSE]
  /\ asked' = Tail(asked)
  /\ UNCHANGED <<application, at, result, got, closing, medium, loop>>

\* A session ticket, or a record cut in two by the network.
DeviceTrickles ==
  /\ device.up /\ device.tls /\ ~device.partial
  /\ device' = [device EXCEPT !.partial = TRUE]
  /\ UNCHANGED <<application, at, result, got, closing, medium, loop, wire, asked>>

DeviceLeaves ==
  /\ device.up /\ sock.open
  /\ device' = [device EXCEPT !.up = FALSE]
  /\ UNCHANGED <<application, at, result, got, closing, medium, loop, wire, asked>>

-----------------------------------------------------------------------------
Create == AttemptFails \/ LookupFails \/ AttemptSucceeds
Plain == SendHello \/ First \/ Refuse \/ SendSignature \/ Signed \/ SendKey \/ Confirmed \/ ConfirmEnds
         \/ StartLoop \/ AssignLoop
Upgrade == SendUpgrade \/ ReleaseFd \/ DeleteChannel \/ ForgetChannel \/ TlsSucceeds \/ Upgraded \/ Broken
Close == CloseBegins \/ CloseFindsChannel \/ CloseMarks \/ CloseShuts \/ CloseJoins
Loop == LoopReads \/ LoopPolls \/ LoopEnds
Device == DeviceSpeaksTls \/ DeviceAnswers \/ DeviceTrickles \/ DeviceLeaves
\* All is over, or the close waits for a loop that polls no descriptor.
Over == (table \in {"failed", "destroyed"} \/ loop.at = "deaf") /\ UNCHANGED vars

Next == Create \/ Connect \/ Plain \/ Upgrade \/ TlsFails \/ AdbClose \/ Close \/ Loop \/ LoopTurns
        \/ Destroy \/ Device \/ Over

Spec == Init /\ [][Next]_vars
\* Threads run.  Nothing is asked of the device; DoHandshake fails when the device has gone, and a
\* read that is stuck in TLS ends only with the socket or the device.
FairSpec == Spec /\ WF_vars(Create) /\ WF_vars(Plain) /\ WF_vars(Upgrade) /\ WF_vars(TlsAborts)
            /\ WF_vars(Close) /\ WF_vars(Loop) /\ WF_vars(Destroy)

-----------------------------------------------------------------------------
Running == at \notin {"idle", "over"}

TypeOK ==
  /\ attempt \in [retry : 1..(Retries + 1), address : 1..Addresses]
  /\ table \in {"none", "failed", "listed", "unlisted", "destroyed"}
  /\ at \in {"idle", "hello", "first", "refuse", "sign", "signed", "key", "confirm", "failed", "late",
            "connected", "assign", "upgrade", "release", "delete", "forget", "tls", "upgraded", "broken",
            "over"}
  /\ result \in {1, 0, -1, -3, -4, -5, -6, -7} /\ (at = "over" <=> result # 1)
  /\ got \in {"nothing", "CNXN", "AUTH", "STLS", "OTHER"}
  /\ closed \in BOOLEAN
  /\ closer \in {"none", "begin", "channel", "tcp", "tls", "deleted", "tcp shut", "tls shut", "join", "done"}
  /\ channel \in {"none", "tcp", "tls", "deleted"}
  /\ chan \in [{"tcp", "tls"} -> [closed : BOOLEAN, fd : BOOLEAN]]
  /\ sock \in [open : BOOLEAN, closes : Nat, moved : BOOLEAN]
  /\ loop \in [at : {"none", "running", "reading", "polling", "deaf", "ended"}, joinable : BOOLEAN]
  /\ wire \in Seq({"CNXN", "AUTH", "STLS", "OTHER"})
  /\ asked \in Seq({"CNXN", "SIGNATURE", "KEY", "TLS"})
  /\ device \in [up : BOOLEAN, online : BOOLEAN, tls : BOOLEAN, partial : BOOLEAN]

(* What the application is told is what happened: success only for a       *)
(* device that said CNXN, with its receive loop; a cancellation only when  *)
(* the application cancelled, although the cancelling thread closes the    *)
(* channel in two steps under the read; a disconnection only when the      *)
(* device has gone; and no answer only when there was none.                *)
ResultTrue ==
  /\ result = 0 => device.online /\ got = "CNXN" /\ loop.at # "none"
  /\ result = -4 => got = "nothing"
  /\ result = -6 => closer # "none"
  /\ result = -7 => ~device.up

(* The number of the socket is closed once, by whichever of connect, the   *)
(* work of adbClose, the receive loop and the destructor comes first (a    *)
(* second close would hit a file or socket of somebody else that has the   *)
(* number by then), unless it was moved to a TLS channel; and it is closed *)
(* when the object is gone.                                                *)
ClosedOnce ==
  /\ ~sock.moved => sock.closes <= 1
  /\ table = "destroyed" => ~sock.open /\ sock.closes > 0

\* What connect waits for without a time limit while the device lives and its socket is open: the
\* TLS handshake, and the rest of what has begun to come on the TLS connection.
TlsWaits == /\ device.up /\ sock.open
            /\ at = "tls" \/ (at \in {"upgraded", "signed", "confirm"} /\ Stuck /\ wire = <<>>)

(* A connect ends whatever the device does or leaves undone, save where it *)
(* waits for TLS without a time limit; once its socket is closed or the    *)
(* device has gone it ends there too.  A close ends, also one that finds   *)
(* no channel because connect is exchanging it: the receive loop, which    *)
(* it joins, ends with its channel or, started later, with isClosed_.      *)
(* Only a loop between the closed_ and the poll of a TLS channel that is   *)
(* being closed never ends, nor does the close.                            *)
EveryoneEnds ==
  /\ Running ~> (at = "over" \/ TlsWaits)
  /\ (Running /\ (~sock.open \/ ~device.up)) ~> (at = "over")
  /\ (closer = "begin") ~> (closer = "done" \/ loop.at = "deaf")
=============================================================================
