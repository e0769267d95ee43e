---------------------------- MODULE SyncService ----------------------------
(***************************************************************************)
(* The services that a work of the thread pool asks of an open connection: *)
(* push of a file or a buffer, pull, directory listing, shell commands     *)
(* with the fallback to the legacy shell, installation of a package (a     *)
(* push, "pm install" and "rm"), and the commands of a reverse listener.   *)
(*                                                                         *)
(* One work and its two streams, one for "sync:" and one for commands.     *)
(* Streams are as modules AdbFlow and AdbStreams describe them: a WRTE     *)
(* waits for the OKAY of the one before, what has arrived can be read, a   *)
(* close of the device or of the connection may come at any moment.  The   *)
(* device serves requests in the order in which they arrive; it may fail   *)
(* one, be slow, stop serving, or end a stream early.                      *)
(***************************************************************************)
EXTENDS Naturals, Sequences, SequencesExt

CONSTANT Content  \* blocks of the file that is pushed, pulled or listed, in order

\* What the two sides say besides blocks.  In the bytes of a stream a block stands where the header
\* before it says; in the model it is told by its value, so no block is called like one of these.
Words == {"SEND", "path", "DATA", "DONE", "STAT", "STAT of a directory", "RECV", "LIST", "DENT", "zeros", "QUIT",
          "OKAY", "FAIL", "Success", "Failure", "0", "1", "end", "half"}

ASSUME SyncAssumption == Content \in Seq(STRING \ Words) /\ Content # <<>>

VARIABLES op,      \* what was asked
          source,  \* how a push gets its bytes: from memory, as one packet, or in chunks from a file
          work,    \* where the work is: at; what it reads next: then; WRTEs to write: todo;
                   \* the command: stage; the protocol of its shell: mode
          nap,     \* the wait of streamWriteRaw on waitCv_: "late" between predicate and sleep, "missed"
                   \* when a notification came in between
          local,   \* blocks in the local file of a pull, names in the list of a listing
          result,  \* what the application is told
          exit,    \* exit code of the command, "none" if it is not reliable
          sync,    \* the stream of "sync:"
          shell,   \* the stream of the command
          adb,     \* Adb::close: the connection is open, isClosed_ is set, all streams are closed
          device   \* of the device: what it received and has to send on sync, the file, the command

serviceVars == <<op, source, work, nap, local, result, exit, sync, shell, adb, device>>
request == <<op, source>>
outcome == <<local, result, exit>>

NoStream == [open |-> FALSE, closed |-> FALSE, canWrite |-> TRUE, wire |-> <<>>, buffer |-> <<>>]

ServiceInit ==
  /\ op = "none" /\ source = "none"
  /\ work = [at |-> "idle", then |-> "nothing", todo |-> <<>>, stage |-> "none", mode |-> "v2"]
  /\ nap = "awake"
  /\ local = <<"old">> /\ result = "none" /\ exit = "none"
  /\ sync = NoStream /\ shell = NoStream
  /\ adb = "open"
  /\ device = [got |-> <<>>, out |-> <<>>, file |-> <<>>, stored |-> FALSE, failed |-> FALSE,
               ran |-> FALSE, text |-> <<>>, code |-> "none", installed |-> FALSE]

-----------------------------------------------------------------------------
(* What the work writes: each element is one streamWriteRaw.               *)

Pairs(id, blocks) == [i \in 1..(2 * Len(blocks)) |-> IF i % 2 = 1 THEN id ELSE blocks[i \div 2]]

\* A file that goes in one packet has only one block.
Whole == IF source = "packet" THEN <<Content[1]>> ELSE Content

\* A faulty variant: the last block is not sent.
PushesAllButLast(from) ==
  <<<<"SEND", "path">>>> \o [i \in 1..(Len(Content) - 1) |-> <<"DATA", Content[i]>>] \o <<<<"DONE">>>>
Pushes(from) ==
  LET Said == <<"SEND", "path">> \o Pairs("DATA", Whole) \o <<"DONE">> IN
  CASE from = "memory" -> [i \in DOMAIN Said |-> <<Said[i]>>]
    [] from = "packet" -> <<Said>>
    [] from = "chunks" -> <<<<"SEND", "path">>>> \o [i \in DOMAIN Whole |-> <<"DATA", Whole[i]>>] \o <<<<"DONE">>>>

Asks(id) == <<<<id>>, <<"path">>>>

-----------------------------------------------------------------------------
(* The work begins.                                                        *)

Starts(what, at, stage) ==
  /\ op = "none" /\ op' = what
  /\ work' = [work EXCEPT !.at = at, !.stage = stage]
  /\ UNCHANGED <<nap, result, exit, sync, shell, adb, device>>

StartPush == \E from \in {"memory", "packet", "chunks"}, what \in {"push", "install"} :
               Starts(what, "open", "none") /\ source' = from /\ UNCHANGED local

StartList == Starts("list", "open", "none") /\ local' = <<>> /\ UNCHANGED source

\* The local file is emptied before anything is asked.
StartPull == Starts("pull", "open", "none") /\ local' = <<>> /\ UNCHANGED source

\* It cannot be emptied, and stays as it was.
PrepareFails ==
  /\ op = "none" /\ op' = "pull"
  /\ work' = [work EXCEPT !.at = "over"] /\ result' = "failed"
  /\ UNCHANGED <<nap, source, local, exit, sync, shell, adb, device>>

StartCommand == \E what \in {"exec", "reverse"} :
                  Starts(what, "shell start", what) /\ UNCHANGED <<source, local>>

Start == StartPush \/ StartList \/ StartPull \/ PrepareFails \/ StartCommand

-----------------------------------------------------------------------------
(* Ends of operations.                                                     *)

Runs(command) == [work EXCEPT !.at = "shell start", !.stage = command, !.mode = "v2"]

\* An installation goes on when its file is there, and removes it from the device whatever happened.
Over(r) ==
  IF op = "install" /\ work.stage = "none" /\ r = "done" THEN work' = Runs("pm") /\ UNCHANGED result
  ELSE /\ result' = r
       /\ work' = (IF op = "install" THEN Runs("rm") ELSE [work EXCEPT !.at = "over"])

\* streamClose: what was not read is dropped.
Closed(s) == [s EXCEPT !.closed = TRUE, !.buffer = <<>>]

\* startPushFile has no catch clause.
Uncaught == source = "memory" /\ Contains(work.todo, <<"path">>)
\* A faulty variant: the stream is left to the device.
Leaves(s) == s
\* abortPushFile, and the catch clauses of push, pull and listing.
Aborts(s) == IF Uncaught THEN s ELSE Closed(s)

\* A faulty variant: the blocks that came are kept.
KeepsBlocks == local
\* A local file that is not whole is emptied.
Emptied == IF op = "pull" THEN <<>> ELSE local

Throws ==
  /\ Over("failed")
  /\ sync' = Aborts(sync) /\ local' = Emptied
  /\ UNCHANGED <<nap, request, exit, shell, adb, device>>

-----------------------------------------------------------------------------
(* Push, pull and listing on the stream of "sync:".                        *)

\* open() returns when the device has answered; the handle of a stream that is closed is refused.
Opened ==
  /\ work.at = "open" /\ sync.open /\ ~sync.closed
  /\ work' = [work EXCEPT !.at = "write",
                !.then = CASE op = "pull" -> "stat" [] op = "list" -> "entry" [] op \notin {"pull", "list"} -> "answer",
                !.todo = CASE op = "pull" -> Asks("STAT") [] op = "list" -> Asks("LIST")
                           [] op \notin {"pull", "list"} -> Pushes(source)]
  /\ UNCHANGED <<nap, request, outcome, sync, shell, adb, device>>

OpenFails ==
  /\ work.at = "open" /\ (sync.closed \/ adb # "open")
  /\ Over("failed")
  /\ UNCHANGED <<nap, request, local, exit, sync, shell, adb, device>>

\* A faulty variant: the flags are set and nobody is told.
NotifiedNobody == UNCHANGED nap
\* notifyAll, which does not take waitMutex_: it wakes a sleeper, and is lost on a work that has
\* found its predicate false and does not sleep yet.
Notified ==
  CASE nap = "asleep" -> nap' = "awake"
    [] nap = "late" -> nap' = "missed"
    [] nap = "missed" -> nap' \in {"missed", "awake"}
    [] nap = "awake" -> UNCHANGED nap

\* streamWriteRaw: finds nothing to go on with, and sleeps without a time limit.
WriteDozes ==
  /\ work.at = "write" /\ work.todo # <<>> /\ nap = "awake"
  /\ ~sync.canWrite /\ ~sync.closed /\ adb = "open"
  /\ nap' = "late"
  /\ UNCHANGED <<request, work, outcome, sync, shell, adb, device>>

WriteSleeps ==
  /\ nap = "late" /\ nap' = "asleep"
  /\ UNCHANGED <<request, work, outcome, sync, shell, adb, device>>

\* It has seen canWrite, and takes it.
Write ==
  /\ work.at = "write" /\ work.todo # <<>> /\ nap = "awake"
  /\ sync.canWrite /\ ~sync.closed /\ adb = "open"
  /\ sync' = [sync EXCEPT !.canWrite = FALSE, !.wire = Head(work.todo)]
  /\ work' = [work EXCEPT !.todo = Tail(@)]
  /\ UNCHANGED <<nap, request, outcome, shell, adb, device>>

WriteThrows ==
  /\ work.at = "write" /\ work.todo # <<>> /\ nap = "awake" /\ (sync.closed \/ adb # "open")
  /\ Throws

\* The local file cannot be read, or is shorter than it was said to be.
LocalReadFails ==
  /\ op \in {"push", "install"} /\ source \in {"packet", "chunks"}
  /\ \/ work.at = "open" /\ ~sync.open /\ ~sync.closed
     \/ work.at = "write" /\ nap = "awake" /\ work.todo # <<>> /\ Contains(Head(work.todo), "DATA")
  /\ Throws

\* All is written: an answer is awaited, or it was QUIT and the stream is closed.
Written ==
  /\ work.at = "write" /\ work.todo = <<>>
  /\ IF work.then = "end" THEN Over("done") /\ sync' = Closed(sync)
     ELSE work' = [work EXCEPT !.at = "read"] /\ UNCHANGED <<result, sync>>
  /\ UNCHANGED <<nap, request, local, exit, shell, adb, device>>

\* streamRead looks the stream up, and refuses one that is closed even if there is something to read.
ReadBegins ==
  /\ work.at = "read" /\ ~sync.closed
  /\ work' = [work EXCEPT !.at = "wait"]
  /\ UNCHANGED <<nap, request, outcome, sync, shell, adb, device>>

ReadRefused == work.at = "read" /\ sync.closed /\ Throws

\* A faulty variant: the time limit of a read is forgotten.
WaitsForEver == sync.closed
\* Nothing within 30 s, or nothing any more.
WaitEnds == TRUE
ReadThrows == work.at = "wait" /\ sync.buffer = <<>> /\ WaitEnds /\ Throws

Quit == [work EXCEPT !.at = "write", !.then = "end", !.todo = <<<<"QUIT">>>>]

\* A faulty variant: any answer to a push is taken for a success.
TakesAnyAnswer(id) == id # "nothing"
Accepts(id) == id = "OKAY"

\* What follows an answer that is taken; "throw" if it must not come here.
After(id) ==
  CASE work.then = "answer" /\ Accepts(id) -> Quit
    [] work.then = "stat" /\ id = "STAT" -> [work EXCEPT !.at = "write", !.then = "data", !.todo = Asks("RECV")]
    [] work.then = "data" /\ id = "DATA" -> [work EXCEPT !.at = "read", !.then = "block"]
    [] work.then = "block" -> [work EXCEPT !.at = "read", !.then = "data"]
    [] work.then = "data" /\ id = "DONE" -> Quit
    [] work.then = "entry" /\ id = "DENT" -> [work EXCEPT !.at = "read", !.then = "name"]
    [] work.then = "name" -> [work EXCEPT !.at = "read", !.then = "entry"]
    [] work.then = "entry" /\ id = "DONE" -> [work EXCEPT !.at = "read", !.then = "rest"]
    [] work.then = "rest" -> Quit
    [] OTHER -> [work EXCEPT !.then = "throw"]

Read ==
  /\ work.at = "wait" /\ sync.buffer # <<>>
  /\ LET id == Head(sync.buffer) IN
     IF After(id).then = "throw" THEN Throws
     ELSE /\ work' = After(id)
          /\ sync' = [sync EXCEPT !.buffer = Tail(@)]
          /\ local' = (IF work.then \in {"block", "name"} THEN Append(local, id) ELSE local)
          /\ UNCHANGED <<nap, request, result, exit, shell, adb, device>>

\* The types of symbolic links are asked of the shell, while the stream stays open.
Probe ==
  /\ work.at = "wait" /\ work.then = "rest" /\ sync.buffer # <<>>
  /\ work' = Runs("probe")
  /\ UNCHANGED <<nap, request, outcome, sync, shell, adb, device>>

\* A block that came cannot be written to the local file.
LocalWriteFails ==
  work.at = "wait" /\ work.then = "block" /\ sync.buffer # <<>> /\ Throws

Transfer == Opened \/ OpenFails \/ WriteDozes \/ WriteSleeps \/ Write \/ WriteThrows \/ Written
            \/ ReadBegins \/ ReadRefused \/ Read \/ ReadThrows

-----------------------------------------------------------------------------
(* Commands: execShellCommand, runAdbCmd and runServiceCommand.            *)

ShellStarts ==
  /\ work.at = "shell start"
  /\ work' = [work EXCEPT !.at = "shell open"] /\ shell' = NoStream
  /\ device' = [device EXCEPT !.ran = FALSE, !.text = <<>>]
  /\ UNCHANGED <<nap, request, outcome, sync, adb>>

\* open() returns, also with a stream that was closed at once.
ShellOpened ==
  /\ work.at = "shell open" /\ (shell.open \/ shell.closed)
  /\ work' = [work EXCEPT !.at = "shell wait"]
  /\ UNCHANGED <<nap, request, outcome, sync, shell, adb, device>>

\* parseShellProtocolPayload and parseLegacyShellPayload.
Parses(text) == CASE work.mode = "v2" -> text # <<>> /\ ~Contains(text, "half")
                  [] work.mode = "legacy" -> Len(text) = 3

\* A faulty variant: the first packet is taken for the exit code.
FirstCode(text) == IF text = <<>> THEN "none" ELSE Head(text)
\* The exit code in an output, if it is there.
CodeIn(text) == IF \E c \in {"0", "1"} : Contains(text, c)
                THEN CHOOSE c \in {"0", "1"} : Contains(text, c) ELSE "none"

Installs(text) == CodeIn(text) \in {"none", "0"} /\ Contains(text, "Success")
\* No reply is a good reply.
Reversed(text) == text = <<>> \/ Head(text) = "OKAY"

\* How the operation goes on with the output of its command, and how when the command threw.
Returns(text) ==
  /\ CASE work.stage = "probe" -> work' = Quit /\ UNCHANGED result
       [] work.stage = "rm" -> work' = [work EXCEPT !.at = "over"] /\ UNCHANGED result
       [] work.stage = "exec" -> Over("done")
       [] work.stage = "reverse" -> Over(IF Reversed(text) THEN "done" ELSE "failed")
       [] work.stage = "pm" -> Over(IF Installs(text) THEN "done" ELSE "failed")
  /\ exit' = (IF work.stage \in {"exec", "pm"} THEN CodeIn(text) ELSE exit)
  /\ UNCHANGED <<nap, request, local, sync, shell, adb, device>>

Fails ==
  /\ CASE work.stage = "probe" -> work' = Quit /\ UNCHANGED result
       [] work.stage = "rm" -> work' = [work EXCEPT !.at = "over"] /\ UNCHANGED result
       [] work.stage \notin {"probe", "rm"} -> Over("failed")
  /\ UNCHANGED <<nap, request, local, exit, sync, shell, adb, device>>

\* The output is what has come when the stream or the connection is closed.
Ended == work.at = "shell wait" /\ (shell.closed \/ adb # "open")
\* The output is no output of this protocol, or open() finds the connection closed.
Broken == \/ Ended /\ work.stage # "reverse" /\ ~Parses(shell.buffer)
          \/ work.at = "shell open" /\ adb # "open"

ShellReturns == Ended /\ (work.stage # "reverse" => Parses(shell.buffer)) /\ Returns(shell.buffer)

\* The command is run once more, by the legacy shell.
FallsBack ==
  /\ Broken /\ work.stage # "reverse" /\ work.mode = "v2"
  /\ work' = [work EXCEPT !.at = "shell start", !.mode = "legacy"]
  /\ UNCHANGED <<nap, request, outcome, sync, shell, adb, device>>

\* The legacy shell fails too, or the application has not allowed it.
ShellThrows == Broken /\ (work.mode = "legacy" \/ work.stage \in {"exec", "reverse"}) /\ Fails

Command == ShellStarts \/ ShellOpened \/ ShellReturns \/ FallsBack \/ ShellThrows

-----------------------------------------------------------------------------
(* Adb::close: the flag, and later the streams.                            *)

CloseBegins == adb = "open" /\ adb' = "closing" /\ UNCHANGED <<nap, request, work, outcome, sync, shell, device>>

CloseStreams ==
  /\ adb = "closing" /\ adb' = "closed"
  /\ sync' = [sync EXCEPT !.closed = TRUE] /\ shell' = [shell EXCEPT !.closed = TRUE]
  /\ Notified /\ UNCHANGED <<request, work, outcome, device>>

-----------------------------------------------------------------------------
(* The device, as far as the receive loop sees it.                         *)

Arrives == adb # "closed"
\* What the receive loop does with a payload of a stream.
Store(s, token) == IF s.closed THEN s ELSE [s EXCEPT !.buffer = Append(@, token)]

DeviceOpens ==
  /\ Arrives
  /\ \/ work.at = "open" /\ ~sync.open /\ ~sync.closed /\ UNCHANGED shell
        /\ sync' \in {[sync EXCEPT !.open = TRUE], [sync EXCEPT !.closed = TRUE]}
     \/ work.at = "shell open" /\ ~shell.open /\ ~shell.closed /\ UNCHANGED sync
        /\ shell' \in {[shell EXCEPT !.open = TRUE], [shell EXCEPT !.closed = TRUE]}
  /\ Notified /\ UNCHANGED <<request, work, outcome, adb, device>>

\* The device takes a WRTE and acknowledges it.
DeviceTakes ==
  /\ Arrives /\ sync.wire # <<>>
  /\ sync' = [sync EXCEPT !.canWrite = TRUE, !.wire = <<>>]
  /\ device' = [device EXCEPT !.got = @ \o sync.wire]
  /\ Notified /\ UNCHANGED <<request, work, outcome, shell, adb>>

\* The sync service of the device handles a request that is complete.
Rest(ids) == IF Head(ids) \in {"DONE", "QUIT"} THEN Tail(ids) ELSE Tail(Tail(ids))
Serve(d, id) ==
  CASE id = "SEND" -> {[d EXCEPT !.file = <<>>, !.stored = FALSE]}
    [] id = "DATA" -> {[d EXCEPT !.file = Append(@, d.got[2])], [d EXCEPT !.out = <<"FAIL">>, !.failed = TRUE]}
    [] id = "DONE" -> {[d EXCEPT !.stored = TRUE, !.out = <<"OKAY">>], [d EXCEPT !.out = <<"FAIL">>, !.failed = TRUE]}
    [] id = "STAT" -> {[d EXCEPT !.out = <<a>>] : a \in {"STAT", "STAT of a directory", "FAIL"}}
    [] id = "RECV" -> {[d EXCEPT !.out = a] : a \in {<<"FAIL">>, Pairs("DATA", Content) \o <<"DONE">>}}
    [] id = "LIST" -> {[d EXCEPT !.out = a] : a \in {<<"FAIL">>, Pairs("DENT", Content) \o <<"DONE", "zeros">>}}
    [] id = "QUIT" -> {d}

DeviceServes ==
  /\ device.out = <<>> /\ ~device.failed /\ device.got # <<>>
  /\ Head(device.got) \notin {"DONE", "QUIT"} => Len(device.got) > 1
  /\ \E d \in Serve(device, Head(device.got)) : device' = [d EXCEPT !.got = Rest(@)]
  /\ UNCHANGED <<nap, request, work, outcome, sync, shell, adb>>

DeviceSends ==
  /\ Arrives /\ sync.open /\ device.out # <<>>
  /\ sync' = Store(sync, Head(device.out)) /\ device' = [device EXCEPT !.out = Tail(@)]
  /\ UNCHANGED <<nap, request, work, outcome, shell, adb>>

\* A pull can fail in the middle of the file.
DeviceStops ==
  /\ work.then \in {"data", "block"} /\ Len(device.out) > 1 /\ Head(device.out) = "DATA"
  /\ device' = [device EXCEPT !.out = <<"FAIL">>, !.failed = TRUE]
  /\ UNCHANGED <<nap, request, work, outcome, sync, shell, adb>>

DeviceCloses ==
  /\ Arrives
  /\ \/ sync.open /\ ~sync.closed /\ sync' = [sync EXCEPT !.closed = TRUE] /\ UNCHANGED shell
     \/ shell.open /\ ~shell.closed /\ shell' = [shell EXCEPT !.closed = TRUE] /\ UNCHANGED sync
  /\ Notified /\ UNCHANGED <<request, work, outcome, adb, device>>

\* What a command prints: the packets of the shell protocol, or the text between the markers.
Output(text, code) == IF work.mode = "v2" THEN <<text, code>> ELSE <<code, text, "end">>

\* A package is installed only from a file that is whole, and even then the installation may fail.
DeviceRuns ==
  /\ shell.open /\ ~shell.closed /\ ~device.ran
  /\ \E ok \in BOOLEAN :
       /\ ok /\ work.stage = "pm" => device.stored /\ device.file = Whole
       /\ device' = [device EXCEPT !.ran = TRUE,
            !.text = IF work.stage = "reverse" THEN <<IF ok THEN "OKAY" ELSE "FAIL">>
                     ELSE Output(IF ok THEN "Success" ELSE "Failure", IF ok THEN "0" ELSE "1"),
            !.code = IF work.stage \in {"exec", "pm"} THEN (IF ok THEN "0" ELSE "1") ELSE @,
            !.installed = @ \/ (ok /\ work.stage = "pm"),
            !.file = IF ok /\ work.stage = "rm" THEN <<>> ELSE @]
  /\ UNCHANGED <<nap, request, work, outcome, sync, shell, adb>>

\* A packet may be cut off by the end of the stream.
DevicePrints ==
  /\ Arrives /\ shell.open /\ ~shell.closed /\ device.text # <<>>
  /\ \/ shell' = Store(shell, Head(device.text)) /\ UNCHANGED nap
     \/ shell' = [Store(shell, "half") EXCEPT !.closed = TRUE] /\ Notified
  /\ device' = [device EXCEPT !.text = Tail(@)]
  /\ UNCHANGED <<request, work, outcome, sync, adb>>

Device == DeviceOpens \/ DeviceTakes \/ DeviceServes \/ DeviceSends \/ DeviceStops \/ DeviceCloses
          \/ DeviceRuns \/ DevicePrints

-----------------------------------------------------------------------------
\* The work is over, or sleeps, perhaps for ever.
Done == (work.at = "over" \/ nap \in {"asleep", "missed"}) /\ UNCHANGED serviceVars

ServiceNext == Start \/ Transfer \/ LocalReadFails \/ Probe \/ LocalWriteFails \/ Command
               \/ CloseBegins \/ CloseStreams \/ Device \/ Done

ServiceSpec == ServiceInit /\ [][ServiceNext]_serviceVars
\* The threads of the application run.  Nothing is asked of the device.
FairServiceSpec == ServiceSpec /\ WF_serviceVars(Transfer) /\ WF_serviceVars(Command) /\ WF_serviceVars(CloseStreams)

-----------------------------------------------------------------------------
Reading == work.at \in {"read", "wait"}
Running == work.at \notin {"idle", "over"}

Token == Words \union ToSet(Content)
StreamType == [open : BOOLEAN, closed : BOOLEAN, canWrite : BOOLEAN, wire : Seq(Token), buffer : Seq(Token)]

ServiceTypeOK ==
  /\ op \in {"none", "push", "pull", "list", "exec", "install", "reverse"}
  /\ source \in {"none", "memory", "packet", "chunks"}
  /\ work \in [at : {"idle", "open", "write", "read", "wait", "shell start", "shell open", "shell wait", "over"},
               then : {"nothing", "answer", "stat", "data", "block", "entry", "name", "rest", "end"},
               todo : Seq(Seq(Token)), mode : {"v2", "legacy"},
               stage : {"none", "pm", "rm", "probe", "exec", "reverse"}]
  /\ nap \in {"awake", "late", "asleep", "missed"}
  /\ local \in Seq(ToSet(Content) \union {"old"})
  /\ result \in {"none", "done", "failed"} /\ exit \in {"none", "0", "1"}
  /\ sync \in StreamType /\ shell \in StreamType
  /\ adb \in {"open", "closing", "closed"}
  /\ work.at = "over" => result # "none"

(* What the application is told is true although any step may fail: a push *)
(* is done when the device has stored the whole file, a pull or a listing  *)
(* when all of it has come, in order; an installation when the device has  *)
(* installed the package; an exit code is that of the last run of the      *)
(* command, which may be the second.  A pull that fails leaves no part of  *)
(* a file behind.                                                          *)
Truthful ==
  /\ result = "done" /\ op = "push" => device.stored /\ device.file = Whole
  /\ result = "done" /\ op \in {"pull", "list"} => local = Content
  /\ result = "done" /\ op = "install" => device.installed
  /\ result = "failed" /\ op = "pull" => local \in {<<>>, <<"old">>}
  /\ exit # "none" => exit = device.code

(* An operation that is over has left no stream open on the connection, by *)
(* whichever of its exits it ended.                                        *)
NothingOpen ==
  work.at = "over" /\ adb # "closing" =>
    (sync.open => sync.closed) /\ (shell.open => shell.closed)

(* A work that reads from a device that has fallen silent gives up; and    *)
(* closing the connection ends every work, wherever it waits, save one     *)
(* that is in streamWriteRaw between its predicate and its sleep when the  *)
(* notification comes: flags and notification do without the mutex of the  *)
(* wait, which has no time limit.                                          *)
OperationsEnd ==
  /\ []<>~Reading
  /\ (Running /\ adb = "closing") ~> (work.at = "over" \/ nap = "missed")
=============================================================================
