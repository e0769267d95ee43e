------------------------------ MODULE AdbStreams ------------------------------
(***************************************************************************)
(* adb/core/Adb.cpp: the stream objects of one ADB connection and who uses *)
(* them.                                                                   *)
(*                                                                         *)
(* A caller opens a stream: open() queues the OPEN and polls the table for *)
(* the object, which handleInLoop creates when the device's first message  *)
(* for the stream comes.  A refusal (a CLSE from stream 0) creates one     *)
(* too, and open() deletes it.  A command's caller then waits until the    *)
(* device has closed the stream and takes what it wrote; a socket's caller *)
(* reads and closes.  The device opens streams as well: each gets a local  *)
(* socket and a bridge of two pumps.  close() ends it all, and ~Adb        *)
(* deletes the objects.                                                    *)
(*                                                                         *)
(* Module AdbFlow has the writing of a stream and the send queue; here a   *)
(* message that is queued is there, and the device takes it when it likes. *)
(* Payloads are counted.  A use of a deleted object is recorded in stale,  *)
(* and goes on as if the memory were still intact.                         *)
(***************************************************************************)
EXTENDS Naturals, Sequences, FiniteSets

CONSTANTS Streams,
          Mixes,      \* bound: what the streams of a behaviour are used for
          RingSpace,  \* WRTE payloads a read buffer has room for
          MaxWrites,  \* bound: WRTEs the device sends on a stream
          MaxAtClose  \* bound: streams used in a behaviour that closes the connection

NoStream == "none"
\* A caller opens a stream for a command or as a socket; the device opens one for a bridge.
Kinds == {"command", "socket", "bridge", "none"}

ASSUME StreamsAssumption ==
  /\ NoStream \notin Streams /\ Mixes \subseteq [Streams -> Kinds]
  /\ RingSpace \in Nat \ {0} /\ MaxWrites \in Nat /\ MaxAtClose \in Nat

VARIABLES use,     \* what each stream is used for
          caller,  \* where the caller of each stream is
          output,  \* what streamReadAllBeforeClose returned to it
          object,  \* the AdbStream of each stream
          table,   \* connectionStreams_, openStreams_ and lastStream_
          handle,  \* handleInLoop: where it is, its message, its stream, the pointer it has loaded
          bridge,  \* the bridge of each incoming stream and its pumps
          conn,    \* isClosed_, who runs close(), where it is, the bridges it has seen, ~Adb
          toHost,  \* what the device has sent and handleInLoop has not read
          device,  \* the device's end of each stream
          stale    \* the threads that have used a deleted object

vars == <<use, caller, output, object, table, handle, bridge, conn, toHost, device, stale>>

Msg(cmd, s, refusal) == [cmd |-> cmd, stream |-> s, refusal |-> refusal]
Reading == [at |-> "read", msg |-> Msg("none", NoStream, FALSE), stream |-> NoStream, cached |-> NoStream]

NoObject == [life |-> "none", refused |-> FALSE, closed |-> FALSE, ring |-> 0, shut |-> FALSE]
Created(refused) == [NoObject EXCEPT !.life = "live", !.refused = refused]

Init ==
  /\ use \in Mixes
  /\ caller = [c \in Streams |-> "idle"]
  /\ output = [c \in Streams |-> 0]
  /\ object = [s \in Streams |-> NoObject]
  /\ table = [listed |-> {}, owned |-> {}, last |-> NoStream]
  /\ handle = Reading
  /\ bridge = [i \in Streams |->
       [kept |-> FALSE, closed |-> FALSE, fd |-> "none", peer |-> "none",
        toAdb |-> "none", toSocket |-> "none"]]
  /\ conn = [closed |-> FALSE, by |-> "none", at |-> "open", seen |-> {}, destroyed |-> FALSE]
  /\ toHost = <<>>
  /\ device = [s \in Streams |-> [at |-> "none", credit |-> TRUE, wrote |-> 0, told |-> FALSE]]
  /\ stale = {}

\* The thread t uses the object of stream s.
Uses(t, s) == stale' = IF s # NoStream /\ object[s].life = "deleted" THEN stale \cup {t} ELSE stale

\* What the device gets when the host queues a message for it; nothing after close().
Tells(s, d) == device' = IF conn.closed THEN device ELSE [device EXCEPT ![s] = d]
TellClose(s) == Tells(s, [device[s] EXCEPT !.told = TRUE])

\* readBuffer.close() and the rest of the closing of an object.
Shut(o) == [o EXCEPT !.closed = TRUE, !.shut = TRUE]

-----------------------------------------------------------------------------
(* open().                                                                 *)

Open(c) ==
  /\ caller[c] = "idle" /\ use[c] \in {"command", "socket"}
  /\ caller' = [caller EXCEPT ![c] = "poll"]
  /\ Tells(c, [device[c] EXCEPT !.at = "asked"])
  /\ UNCHANGED <<use, output, object, table, handle, bridge, conn, toHost, stale>>

\* A faulty variant: it does not look at isClosed_.
NeverGivesUp == FALSE
GivesUp == conn.closed

\* It looks into openStreams_ at least every 100 ms, and whenever notifyAll is called.
OpenPolls(c) ==
  /\ caller[c] = "poll"
  /\ IF GivesUp THEN caller' = [caller EXCEPT ![c] = "failed"]
     ELSE c \in table.owned /\ caller' = [caller EXCEPT ![c] = "found"]
  /\ UNCHANGED <<use, output, object, table, handle, bridge, conn, toHost, device, stale>>

\* A faulty variant: any stream will do for a command.
RejectsForSockets(c) == use[c] = "socket" /\ (object[c].refused \/ object[c].closed)
\* A stream that is refused, or closed and not that of a command, is an error.
Rejects(c) == object[c].refused \/ (object[c].closed /\ use[c] = "socket")

\* The object of a stream that is an error leaves the table and is deleted.
OpenReturns(c) ==
  /\ caller[c] = "found"
  /\ Uses("open", c)
  /\ IF Rejects(c)
       THEN /\ caller' = [caller EXCEPT ![c] = "failed"]
            /\ table' = [listed |-> table.listed \ {c}, owned |-> table.owned \ {c},
                         last |-> IF table.last = c THEN NoStream ELSE table.last]
            /\ object' = [object EXCEPT ![c].life = "deleted"]
       ELSE caller' = [caller EXCEPT ![c] = "opened"] /\ UNCHANGED <<table, object>>
  /\ UNCHANGED <<use, output, handle, bridge, conn, toHost, device>>

-----------------------------------------------------------------------------
(* What the callers do with their streams.                                 *)

IsStreamClosed(s) == s \notin table.listed \/ object[s].closed

\* runAdbCmd, execShellCommand and runServiceCommand: the stream is closed, or the connection.
CommandEnds(c) ==
  /\ caller[c] = "opened" /\ use[c] = "command"
  /\ IsStreamClosed(c) \/ conn.closed
  /\ caller' = [caller EXCEPT ![c] = "collect"]
  /\ IF c \in table.listed THEN Uses("caller", c) ELSE UNCHANGED stale
  /\ UNCHANGED <<use, output, object, table, handle, bridge, conn, toHost, device>>

\* A faulty variant: only connectionStreams_ is searched.
FindsListed(c) == c \in table.listed
Finds(c) == c \in table.listed \cup table.owned

\* streamReadAllBeforeClose.
CommandCollects(c) ==
  /\ caller[c] = "collect"
  /\ caller' = [caller EXCEPT ![c] = "done"]
  /\ IF Finds(c) THEN /\ output' = [output EXCEPT ![c] = object[c].ring]
                      /\ object' = [object EXCEPT ![c].ring = 0]
                      /\ Uses("caller", c)
                 ELSE UNCHANGED <<output, object, stale>>
  /\ UNCHANGED <<use, table, handle, bridge, conn, toHost, device>>

\* streamRead with the handle that getStreamHandle gives.
SocketReads(c) ==
  /\ caller[c] = "opened" /\ use[c] = "socket"
  /\ Finds(c) /\ ~object[c].closed /\ object[c].ring > 0
  /\ object' = [object EXCEPT ![c].ring = 0]
  /\ Uses("caller", c)
  /\ UNCHANGED <<use, caller, output, table, handle, bridge, conn, toHost, device>>

\* streamClose takes the stream out of connectionStreams_ and queues the CLSE ...
Unlisted(s) == [table EXCEPT !.listed = @ \ {s}]
SocketCloses(c) ==
  /\ caller[c] = "opened" /\ use[c] = "socket"
  /\ IF c \in table.listed
       THEN caller' = [caller EXCEPT ![c] = "closing"] /\ TellClose(c) /\ Uses("caller", c)
       ELSE caller' = [caller EXCEPT ![c] = "done"] /\ UNCHANGED <<device, stale>>
  /\ table' = Unlisted(c)
  /\ UNCHANGED <<use, output, object, handle, bridge, conn, toHost>>

\* ... and closes the object.
SocketShuts(c) ==
  /\ caller[c] = "closing"
  /\ caller' = [caller EXCEPT ![c] = "done"]
  /\ object' = [object EXCEPT ![c] = Shut(@)]
  /\ Uses("caller", c)
  /\ UNCHANGED <<use, output, table, handle, bridge, conn, toHost, device>>

-----------------------------------------------------------------------------
(* handleInLoop.                                                           *)

Turn == handle' = Reading
On(label) == handle' = [handle EXCEPT !.at = label]

\* It reads a header and loads lastStream_, without streamsMutex_.
HandleReads ==
  /\ handle.at = "read" /\ ~conn.closed /\ toHost # <<>>
  /\ toHost' = Tail(toHost)
  /\ handle' = [at |-> IF Head(toHost).cmd = "OPEN" THEN "connect" ELSE "resolve",
                msg |-> Head(toHost), stream |-> NoStream, cached |-> table.last]
  /\ UNCHANGED <<use, caller, output, object, table, bridge, conn, device, stale>>

\* A faulty variant: a stream it creates is not put into openStreams_.
KeptListed(s) == table.owned
Kept(s) == table.owned \cup {s}

\* It finds the stream of the message: the cached one, one of the two maps (a closed one only in
\* openStreams_, for which the message comes too late), or a new one.
HandleResolves ==
  LET s == handle.msg.stream
      use_(t) == handle' = [handle EXCEPT !.at = "act", !.stream = t, !.cached = NoStream]
  IN
  /\ handle.at = "resolve"
  /\ IF handle.cached = s /\ ~object[s].closed
       THEN use_(s) /\ Uses("handle", s) /\ UNCHANGED <<object, table>>
     ELSE IF s \in table.listed \/ (s \in table.owned /\ ~object[s].closed)
       THEN /\ use_(s) /\ table' = [table EXCEPT !.last = s]
            /\ Uses("handle", handle.cached) /\ UNCHANGED object
     ELSE IF s \in table.owned
       THEN use_(NoStream) /\ Uses("handle", handle.cached) /\ UNCHANGED <<object, table>>
     ELSE /\ use_(s)
          /\ object' = [object EXCEPT ![s] = Created(handle.msg.refusal)]
          /\ table' = [listed |-> table.listed \cup {s}, owned |-> Kept(s), last |-> s]
          /\ Uses("handle", handle.cached)
  /\ UNCHANGED <<use, caller, output, bridge, conn, toHost, device>>

\* A WRTE: its payload goes into the read buffer, for which the loop waits, or to nowhere when the
\* buffer is closed; the OKAY follows unless the stream is closed.
HandleWrte ==
  LET s == handle.stream IN
  /\ handle.at = "act" /\ handle.msg.cmd = "WRTE"
  /\ IF s = NoStream THEN UNCHANGED <<object, device>>
     ELSE /\ object[s].shut \/ object[s].ring < RingSpace
          /\ object' = [object EXCEPT ![s].ring = IF object[s].shut THEN @ ELSE @ + 1]
          /\ IF object[s].closed THEN UNCHANGED device ELSE Tells(s, [device[s] EXCEPT !.credit = TRUE])
  /\ Uses("handle", s) /\ Turn
  /\ UNCHANGED <<use, caller, output, table, bridge, conn, toHost>>

\* An OKAY: the stream may write (module AdbFlow).
HandleOkay ==
  /\ handle.at = "act" /\ handle.msg.cmd = "OKAY"
  /\ Uses("handle", handle.stream) /\ Turn
  /\ UNCHANGED <<use, caller, output, object, table, bridge, conn, toHost, device>>

\* A CLSE: the closed flag, ...
HandleClse ==
  LET s == handle.stream IN
  /\ handle.at = "act" /\ handle.msg.cmd = "CLSE"
  /\ IF s = NoStream THEN Turn /\ UNCHANGED object
     ELSE /\ object' = [object EXCEPT ![s].closed = TRUE]
          /\ On(IF object[s].closed THEN "shutAgain" ELSE "shut")
  /\ Uses("handle", s)
  /\ UNCHANGED <<use, caller, output, table, bridge, conn, toHost, device>>

\* ... the buffers, ...
HandleShuts ==
  /\ handle.at \in {"shut", "shutAgain"}
  /\ object' = [object EXCEPT ![handle.stream].shut = TRUE]
  /\ Uses("handle", handle.stream)
  /\ IF handle.at = "shut" THEN On("unlist") ELSE Turn
  /\ UNCHANGED <<use, caller, output, table, bridge, conn, toHost, device>>

\* ... and, if it was this CLSE that closed it, the maps (which compares pointers only).
HandleUnlists ==
  LET s == handle.stream IN
  /\ handle.at = "unlist"
  /\ table' = [Unlisted(s) EXCEPT !.last = IF table.last = s THEN NoStream ELSE table.last]
  /\ Turn
  /\ UNCHANGED <<use, caller, output, object, bridge, conn, toHost, device, stale>>

\* handleIncomingOpen: the local port is connected and the stream made, or the device gets a CLSE.
HandleConnects ==
  LET s == handle.msg.stream IN
  /\ handle.at = "connect"
  /\ \/ /\ TellClose(s) /\ Turn
        /\ UNCHANGED <<object, table, bridge>>
     \/ /\ object' = [object EXCEPT ![s] = Created(FALSE)]
        /\ table' = [listed |-> table.listed \cup {s}, owned |-> Kept(s), last |-> s]
        /\ bridge' = [bridge EXCEPT ![s].fd = "open", ![s].peer = "open"]
        /\ Tells(s, [device[s] EXCEPT !.at = "open"])
        /\ On("bridge")
  /\ UNCHANGED <<use, caller, output, conn, toHost, stale>>

\* startReverseBridge: the pumps start ...
HandleBridges ==
  LET s == handle.msg.stream IN
  /\ handle.at = "bridge"
  /\ bridge' = [bridge EXCEPT ![s].toAdb = "check", ![s].toSocket = "check"]
  /\ On("keep")
  /\ UNCHANGED <<use, caller, output, object, table, conn, toHost, device, stale>>

\* ... and the bridge is put where close() finds it.
HandleKeeps ==
  /\ handle.at = "keep"
  /\ bridge' = [bridge EXCEPT ![handle.msg.stream].kept = TRUE]
  /\ Turn
  /\ UNCHANGED <<use, caller, output, object, table, conn, toHost, device, stale>>

MayClose == Cardinality({s \in Streams : use[s] # "none"}) <= MaxAtClose

\* The channel fails, or is closed: the loop ends, and calls close() if nobody has.
HandleEnds ==
  /\ handle.at \in {"read", "connect"} \/ (handle.at = "act" /\ handle.msg.cmd = "WRTE")
  /\ MayClose
  /\ handle' = [Reading EXCEPT !.at = IF conn.closed THEN "ended" ELSE "close"]
  /\ conn' = IF conn.closed THEN conn ELSE [conn EXCEPT !.closed = TRUE, !.by = "handle", !.at = "send"]
  /\ toHost' = <<>>
  /\ UNCHANGED <<use, caller, output, object, table, bridge, device, stale>>

-----------------------------------------------------------------------------
(* The pumps of the bridges: "toAdb" and "toSocket".                       *)

Pumps == {"toAdb", "toSocket"}
Pump(i, p, label) == bridge' = [bridge EXCEPT ![i][p] = label]

\* The condition of a pump's loop.
PumpChecks(i, p) ==
  /\ bridge[i][p] = "check"
  /\ Pump(i, p, IF bridge[i].closed \/ conn.closed THEN "exit" ELSE "copy")
  /\ UNCHANGED <<use, caller, output, object, table, handle, conn, toHost, device, stale>>

\* recv returns with data, which streamWrite takes unless the stream is closed ...
RecvCopies(i) ==
  /\ bridge[i].toAdb = "copy" /\ bridge[i].fd = "open" /\ bridge[i].peer = "open"
  /\ Pump(i, "toAdb", IF object[i].closed THEN "exit" ELSE "check")
  /\ Uses("pump", i)
  /\ UNCHANGED <<use, caller, output, object, table, handle, conn, toHost, device>>

\* ... or because the socket is closed on one of its sides.
RecvEnds(i) ==
  /\ bridge[i].toAdb = "copy" /\ (bridge[i].fd = "closed" \/ bridge[i].peer = "closed")
  /\ Pump(i, "toAdb", "exit")
  /\ UNCHANGED <<use, caller, output, object, table, handle, conn, toHost, device, stale>>

\* streamReadToBuffer throws at once on a closed stream, ...
ReadStarts(i) ==
  /\ bridge[i].toSocket = "copy"
  /\ Pump(i, "toSocket", IF object[i].closed THEN "exit" ELSE "wait")
  /\ Uses("pump", i)
  /\ UNCHANGED <<use, caller, output, object, table, handle, conn, toHost, device>>

\* ... waits for data or the end ...
ReadReturns(i) ==
  /\ bridge[i].toSocket = "wait" /\ (object[i].ring > 0 \/ object[i].shut)
  /\ object' = [object EXCEPT ![i].ring = 0]
  /\ Pump(i, "toSocket", IF object[i].ring > 0 THEN "send" ELSE "exit")
  /\ Uses("pump", i)
  /\ UNCHANGED <<use, caller, output, table, handle, conn, toHost, device>>

\* ... and what it returns is written to the socket.
SocketWritten(i) ==
  /\ bridge[i].toSocket = "send"
  /\ Pump(i, "toSocket", IF bridge[i].fd = "open" /\ bridge[i].peer = "open" THEN "check" ELSE "exit")
  /\ UNCHANGED <<use, caller, output, object, table, handle, conn, toHost, device, stale>>

\* A faulty variant: the socket is left to the other pump.
FdOfClosedBridgeKept(b) == b.fd
FdOfClosedBridge(b) == "closed"

\* closeBridge: the first to come closes the socket.
PumpClosesBridge(i, p) ==
  /\ bridge[i][p] = "exit"
  /\ bridge' = [bridge EXCEPT ![i] =
       [@ EXCEPT ![p] = "drop", !.closed = TRUE,
                 !.fd = IF bridge[i].closed THEN bridge[i].fd ELSE FdOfClosedBridge(bridge[i])]]
  /\ UNCHANGED <<use, caller, output, object, table, handle, conn, toHost, device, stale>>

\* streamClose, if the stream is not closed: it leaves connectionStreams_ and the CLSE is queued ...
PumpClosesStream(i, p) ==
  /\ bridge[i][p] = "drop"
  /\ IF ~object[i].closed /\ i \in table.listed
       THEN Pump(i, p, "shut") /\ table' = Unlisted(i) /\ TellClose(i)
       ELSE Pump(i, p, "done") /\ UNCHANGED <<table, device>>
  /\ Uses("pump", i)
  /\ UNCHANGED <<use, caller, output, object, handle, conn, toHost>>

\* ... and the object is closed.
PumpShuts(i, p) ==
  /\ bridge[i][p] = "shut"
  /\ object' = [object EXCEPT ![i] = Shut(@)]
  /\ Pump(i, p, "done")
  /\ Uses("pump", i)
  /\ UNCHANGED <<use, caller, output, table, handle, conn, toHost, device>>

\* The application closes its end of the local socket.
PeerCloses(i) ==
  /\ bridge[i].peer = "open"
  /\ bridge' = [bridge EXCEPT ![i].peer = "closed"]
  /\ UNCHANGED <<use, caller, output, object, table, handle, conn, toHost, device, stale>>

-----------------------------------------------------------------------------
(* close() and ~Adb.                                                       *)

\* The application or a failing send calls close(); a second call returns at once.
Close(t) ==
  /\ MayClose /\ ~conn.closed
  /\ conn' = [conn EXCEPT !.closed = TRUE, !.by = t, !.at = "send"]
  /\ toHost' = <<>>
  /\ UNCHANGED <<use, caller, output, object, table, handle, bridge, device, stale>>

\* The channel is closed and the send thread joined or detached; the sockets of the bridges that
\* are known now are closed.
CloseBridges ==
  /\ conn.at = "send"
  /\ conn' = [conn EXCEPT !.at = "streams", !.seen = {i \in Streams : bridge[i].kept}]
  /\ bridge' = [i \in Streams |->
       IF bridge[i].kept THEN [bridge[i] EXCEPT !.closed = TRUE, !.fd = FdOfClosedBridge(bridge[i])]
       ELSE bridge[i]]
  /\ UNCHANGED <<use, caller, output, object, table, handle, toHost, device, stale>>

\* Every stream there is now is closed.
CloseStreams ==
  /\ conn.at = "streams"
  /\ object' = [s \in Streams |-> IF s \in table.owned \cup table.listed THEN Shut(object[s]) ELSE object[s]]
  /\ table' = [table EXCEPT !.last = NoStream]
  /\ conn' = [conn EXCEPT !.at = "handle"]
  /\ UNCHANGED <<use, caller, output, handle, bridge, toHost, device, stale>>

\* handleInLoop is joined, or detached if it is the caller.
CloseJoins ==
  /\ conn.at = "handle" /\ (conn.by = "handle" \/ handle.at = "ended")
  /\ conn' = [conn EXCEPT !.at = "bridges"]
  /\ UNCHANGED <<use, caller, output, object, table, handle, bridge, toHost, device, stale>>

\* The pumps of the bridges that were known are joined.
PumpsEnded(i) == bridge[i].toAdb \in {"none", "done"} /\ bridge[i].toSocket \in {"none", "done"}
CloseReturns ==
  /\ conn.at = "bridges" /\ \A i \in conn.seen : PumpsEnded(i)
  /\ conn' = [conn EXCEPT !.at = "done"]
  /\ handle' = IF conn.by = "handle" THEN [handle EXCEPT !.at = "ended"] ELSE handle
  /\ UNCHANGED <<use, caller, output, object, table, bridge, toHost, device, stale>>

\* ~Adb, when no caller is in it.  Its call of close() has returned, at once if another thread is
\* in close().
Destroy ==
  /\ conn.closed /\ ~conn.destroyed /\ (conn.by = "application" => conn.at = "done")
  /\ \A c \in Streams : caller[c] \in {"idle", "opened", "failed", "done"}
  /\ caller' = [c \in Streams |-> "done"]
  /\ object' = [s \in Streams |-> IF s \in table.owned THEN [object[s] EXCEPT !.life = "deleted"] ELSE object[s]]
  /\ table' = [listed |-> {}, owned |-> {}, last |-> NoStream]
  /\ conn' = [conn EXCEPT !.destroyed = TRUE]
  /\ UNCHANGED <<use, output, handle, bridge, toHost, device, stale>>

-----------------------------------------------------------------------------
(* The device.                                                             *)

Sends(cmd, s, refusal) == toHost' = Append(toHost, Msg(cmd, s, refusal))
Device(s, d) == device' = [device EXCEPT ![s] = d]

DeviceAnswers(c) ==
  /\ ~conn.closed /\ device[c].at = "asked" /\ use[c] # "bridge"
  /\ \/ Device(c, [device[c] EXCEPT !.at = "open"]) /\ Sends("OKAY", c, FALSE)
     \/ Device(c, [device[c] EXCEPT !.at = "refused"]) /\ Sends("CLSE", c, TRUE)
  /\ UNCHANGED <<use, caller, output, object, table, handle, bridge, conn, stale>>

DeviceOpens(i) ==
  /\ device[i].at = "none" /\ use[i] = "bridge" /\ ~conn.closed
  /\ Device(i, [device[i] EXCEPT !.at = "asked"]) /\ Sends("OPEN", i, FALSE)
  /\ UNCHANGED <<use, caller, output, object, table, handle, bridge, conn, stale>>

DeviceWrites(s) ==
  /\ ~conn.closed /\ device[s].at = "open" /\ device[s].credit /\ device[s].wrote < MaxWrites
  /\ Device(s, [device[s] EXCEPT !.credit = FALSE, !.wrote = @ + 1]) /\ Sends("WRTE", s, FALSE)
  /\ UNCHANGED <<use, caller, output, object, table, handle, bridge, conn, stale>>

DeviceCloses(s) ==
  /\ ~conn.closed /\ device[s].at = "open"
  /\ Device(s, [device[s] EXCEPT !.at = "closed"]) /\ Sends("CLSE", s, FALSE)
  /\ UNCHANGED <<use, caller, output, object, table, handle, bridge, conn, stale>>

\* It gets the CLSE of the host, and may answer it.
DeviceGetsClose(s) ==
  /\ ~conn.closed /\ device[s].told /\ device[s].at \in {"asked", "open"}
  /\ Device(s, [device[s] EXCEPT !.at = "closed"])
  /\ UNCHANGED toHost \/ (device[s].at = "open" /\ Sends("CLSE", s, FALSE))
  /\ UNCHANGED <<use, caller, output, object, table, handle, bridge, conn, stale>>

-----------------------------------------------------------------------------
HandleSteps ==
  \/ HandleReads \/ HandleResolves \/ HandleWrte \/ HandleOkay \/ HandleClse \/ HandleShuts \/ HandleUnlists
  \/ HandleConnects \/ HandleBridges \/ HandleKeeps
PumpSteps(i, p) == PumpChecks(i, p) \/ PumpClosesBridge(i, p) \/ PumpClosesStream(i, p) \/ PumpShuts(i, p)
ToAdbSteps(i) == RecvEnds(i) \/ PumpSteps(i, "toAdb")
ToSocketSteps(i) == ReadStarts(i) \/ ReadReturns(i) \/ SocketWritten(i) \/ PumpSteps(i, "toSocket")
CloseSteps == CloseBridges \/ CloseStreams \/ CloseJoins \/ CloseReturns

Next ==
  \/ \E c \in Streams : Open(c) \/ OpenPolls(c) \/ OpenReturns(c) \/ CommandEnds(c) \/ CommandCollects(c)
                      \/ SocketReads(c) \/ SocketCloses(c) \/ SocketShuts(c) \/ DeviceAnswers(c)
  \/ HandleSteps \/ HandleEnds
  \/ \E i \in Streams : RecvCopies(i) \/ ToAdbSteps(i) \/ ToSocketSteps(i) \/ PeerCloses(i) \/ DeviceOpens(i)
  \/ \E t \in {"application", "send"} : Close(t)
  \/ CloseSteps \/ Destroy
  \/ \E s \in Streams : DeviceWrites(s) \/ DeviceCloses(s) \/ DeviceGetsClose(s)

Spec == Init /\ [][Next]_vars

\* Threads run, a closed channel ends its reader, and the device answers an OPEN (open() has no
\* time limit).  Nothing makes the device write or close, or anyone close the connection.
Fairness ==
  /\ WF_vars(HandleSteps) /\ WF_vars(conn.closed /\ HandleEnds) /\ WF_vars(CloseSteps)
  /\ \A c \in Streams : WF_vars(OpenPolls(c)) /\ WF_vars(DeviceAnswers(c))
  /\ \A i \in Streams : WF_vars(ToAdbSteps(i)) /\ WF_vars(ToSocketSteps(i))
FairSpec == Spec /\ Fairness

-----------------------------------------------------------------------------
(* Properties.                                                             *)

Cmds == {"none", "OPEN", "OKAY", "WRTE", "CLSE"}
Messages == [cmd : Cmds, stream : Streams \cup {NoStream}, refusal : BOOLEAN]

TypeOK ==
  /\ use \in Mixes
  /\ caller \in [Streams -> {"idle", "poll", "found", "opened", "failed", "collect", "closing", "done"}]
  /\ output \in [Streams -> Nat]
  /\ object \in [Streams -> [life : {"none", "live", "deleted"}, refused : BOOLEAN, closed : BOOLEAN,
                             ring : 0..RingSpace, shut : BOOLEAN]]
  /\ table \in [listed : SUBSET Streams, owned : SUBSET Streams, last : Streams \cup {NoStream}]
  /\ table.listed \subseteq table.owned
  /\ handle \in [at : {"read", "resolve", "act", "shut", "shutAgain", "unlist", "connect", "bridge",
                       "keep", "close", "ended"},
                 msg : Messages, stream : Streams \cup {NoStream}, cached : Streams \cup {NoStream}]
  /\ bridge \in [Streams -> [kept : BOOLEAN, closed : BOOLEAN, fd : {"none", "open", "closed"},
       peer : {"none", "open", "closed"},
       toAdb : {"none", "check", "copy", "exit", "drop", "shut", "done"},
       toSocket : {"none", "check", "copy", "wait", "send", "exit", "drop", "shut", "done"}]]
  /\ conn \in [closed : BOOLEAN, by : {"none", "application", "send", "handle"},
               at : {"open", "send", "streams", "handle", "bridges", "done"}, seen : SUBSET Streams,
               destroyed : BOOLEAN]
  /\ toHost \in Seq(Messages)
  /\ device \in [Streams -> [at : {"none", "asked", "open", "refused", "closed"}, credit : BOOLEAN,
                             wrote : 0..MaxWrites, told : BOOLEAN]]
  /\ stale \in SUBSET {"open", "caller", "handle", "pump"}

\* open() returns a stream only if the device has accepted it, also when its object was made from a
\* refusal; and the object is there as long as its caller works with it.
OpenTruthful ==
  \A c \in Streams : caller[c] \in {"opened", "collect", "closing"} =>
    /\ device[c].at \in {"open", "closed"}
    /\ object[c].life = "live" /\ ~object[c].refused

\* A command returns all that the device wrote before it closed the stream, however soon it did,
\* unless the connection was closed.
CommandOutput ==
  \A c \in Streams : use[c] = "command" /\ caller[c] = "done" /\ ~conn.closed =>
    output[c] = device[c].wrote /\ device[c].at = "closed"

\* What a caller is told of its stream is what the device has done.
StreamsTrue == OpenTruthful /\ CommandOutput

\* "Moved to after command processing to avoid race condition (e.g. notify before CLSE handled)"
\* (Adb.cpp:799): the loop is done with a stream before open() deletes it.
LoopUsesNoDeleted == "handle" \notin stale

\* open() returns, also when the stream is refused, is closed at once, or the connection is closed.
OpenEnds == \A c \in Streams : caller[c] = "poll" ~> caller[c] # "poll"

\* When the stream of a bridge, its socket or the connection is closed, both pumps end, and the socket
\* is closed, so that neither side is left waiting for the other (until ~Adb takes the stream away).
BridgeEnds ==
  \A i \in Streams :
    (bridge[i].toAdb # "none" /\ (object[i].closed \/ bridge[i].peer = "closed" \/ conn.closed))
      ~> ((PumpsEnded(i) /\ bridge[i].fd = "closed") \/ conn.destroyed)

\* Nobody waits for ever for the other side of a stream: neither open() nor a pump.
NobodyWaits == OpenEnds /\ BridgeEnds
=============================================================================
