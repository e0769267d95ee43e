------------------------------- MODULE Sessions -------------------------------
(***************************************************************************)
(* ClientSessionManager.ets, NativeStreamClient.ets, ClientStream.ets and  *)
(* the stream and connection entries of napi_init.cpp: how sessions start, *)
(* stop and replace each other.                                            *)
(*                                                                         *)
(* All JavaScript runs on one thread; an action of it runs from one await  *)
(* to the next, with the promises it settles itself (an await of those     *)
(* goes on before the thread does anything else).  The native works run    *)
(* beside it in the thread pool.  There is one stream manager and one      *)
(* event callback for all sessions (native); each start makes a manager,   *)
(* and a stop takes whatever manager and callback are there.               *)
(*                                                                         *)
(* A client is started once, when its surface is there and registered; it  *)
(* may have been stopped before.  Pushes are one await.  The threads of a  *)
(* manager are in module StreamManager: here a manager runs or does not.   *)
(***************************************************************************)
EXTENDS Naturals

CONSTANTS Count,  \* bound: clients, numbered in the order in which they are registered
          Forced, \* the clients whose device has forceAdbForward
          Kept,   \* bound: the clients that are started though another page has stopped them
          None

Clients == 1..Count

\* A start makes a manager for the reverse tunnel, and another when it falls back to forward.
Managers == Clients \X {"reverse", "forward"}
\* A client is stopped by its page or by a later session, and by its own failed start.
Stops == Clients \X {"page", "catch"}

ASSUME SessionsAssumption == Count \in Nat /\ Forced \subseteq Clients /\ Kept \subseteq Clients /\ None \notin Clients \cup Managers

VARIABLES current, \* ClientSessionManager.currentClient
          client,  \* each NativeStreamClient with its ClientStream
          adb,     \* the connection each client has created: in g_adbInstances, being closed
          native,  \* g_streamManager, g_streamCallback
          work,    \* the start work each client awaits
          life,    \* the managers
          hears,   \* whose callback the manager of each client's reverse tunnel has captured
          stop     \* the calls of stopNativeAndClose

vars == <<current, client, adb, native, work, life, hears, stop>>

NothingNative == [manager |-> None, callback |-> None]

Init ==
  /\ current = None
  /\ client = [c \in Clients |-> [at |-> "new", stopped |-> FALSE, ready |-> "none",
                                  holds |-> FALSE, closing |-> FALSE]]
  /\ adb = [c \in Clients |-> "none"]
  /\ native = NothingNative
  /\ work = [c \in Clients |-> "none"]
  /\ life = [m \in Managers |-> "none"]
  /\ hears = [c \in Clients |-> None]
  /\ stop = [t \in Stops |-> [at |-> "none", manager |-> None, callback |-> None]]

At(c, place) == client[c].at = place
Goes(c, place) == client' = [client EXCEPT ![c].at = place]

\* hasDetachedWork: a stop is pending only if it took something.
Detached(t) == stop[t].manager # None \/ stop[t].callback # None
Pending == {t \in Stops : stop[t].at = "queued" /\ Detached(t)}

(***************************************************************************)
(* The native entries.  nativeStopStreamsAsync takes the manager and the   *)
(* callback and queues the work; nativeStopStreams and both starts stop    *)
(* and delete the manager on the JavaScript thread.                        *)
(***************************************************************************)
Taken(n) == [at |-> "queued", manager |-> n.manager, callback |-> n.callback]
Destroyed(lives, n) == IF n.manager = None THEN lives ELSE [lives EXCEPT ![n.manager] = "deleted"]

\* adbClose erases the connection from g_adbInstances and queues its close.
ClosesAdb(c) == adb' = IF adb[c] = "open" THEN [adb EXCEPT ![c] = "closing"] ELSE adb

(***************************************************************************)
(* NativeStreamClient.stop and the end of a start that fails.              *)
(***************************************************************************)
Rejected(r) == IF r = "pending" THEN "rejected" ELSE r
Stopped(k) == [k EXCEPT !.stopped = TRUE, !.ready = Rejected(k.ready)]

\* A start that waits for the reverse sockets is rejected by the stop, fails, and stops once
\* more before anything else runs: nothing is left to take then.
StoppedByPage(c) ==
  [client EXCEPT ![c] = IF @.at = "ready_wait" THEN [Stopped(@) EXCEPT !.at = "failed"] ELSE Stopped(@)]
StopsByPage(c) ==
  [t \in Stops |-> CASE t = <<c, "page">> -> Taken(native)
                     [] t = <<c, "catch">> /\ At(c, "ready_wait") -> Taken(NothingNative)
                     [] OTHER -> stop[t]]

\* The catch of start: n is what the steps before the failure have left in native.
Fails(c, k, n) ==
  /\ client' = [client EXCEPT ![c] = [Stopped(k) EXCEPT !.at = "failed"]]
  /\ stop' = [stop EXCEPT ![<<c, "catch">>] = Taken(n)]
  /\ native' = NothingNative

\* A faulty variant: the number of the connection is kept.
ReleasedHolding(k) == [k EXCEPT !.closing = TRUE]

\* ClientStream.close
Released(k) == [k EXCEPT !.closing = TRUE, !.holds = FALSE]

(***************************************************************************)
(* Pages and ClientSessionManager.  A page registers its client, which     *)
(* stops the one registered before, and starts it when its surface is      *)
(* there; it stops it when it is left, when the session ends, and before   *)
(* a reconnect, which registers a new client.                              *)
(***************************************************************************)
\* A faulty variant: the session that is there goes on.
RegisterBeside(c) ==
  /\ At(c, "new")
  /\ \A d \in 1..(c - 1) : ~At(d, "new")
  /\ Goes(c, "registered")
  /\ current' = c
  /\ UNCHANGED <<adb, native, work, life, hears, stop>>

Register(c) ==
  /\ At(c, "new")
  /\ \A d \in 1..(c - 1) : ~At(d, "new")
  /\ IF current = None
     THEN Goes(c, "registered") /\ UNCHANGED <<stop, native>>
     ELSE /\ client' = [StoppedByPage(current) EXCEPT ![c].at = "registered"]
          /\ stop' = StopsByPage(current)
          /\ native' = NothingNative
  /\ current' = c
  /\ UNCHANGED <<adb, work, life, hears>>

\* A faulty variant: the manager that is taken stays the current one.
StopSessionShared(c) ==
  /\ current = c
  /\ client' = StoppedByPage(c)
  /\ stop' = StopsByPage(c)
  /\ current' = None
  /\ UNCHANGED <<adb, native, work, life, hears>>

\* stop() and stopAll(); a page's stop of a client that another has replaced does nothing.
StopSession(c) ==
  /\ current = c
  /\ client' = StoppedByPage(c)
  /\ stop' = StopsByPage(c)
  /\ native' = NothingNative
  /\ current' = None
  /\ UNCHANGED <<adb, work, life, hears>>

\* The stop work deletes what was detached and ends the wait of the starts.
StopRuns(t) ==
  /\ stop[t].at = "queued"
  /\ life' = Destroyed(life, stop[t])
  /\ stop' = [stop EXCEPT ![t] = [Taken(NothingNative) EXCEPT !.at = "back"]]
  /\ UNCHANGED <<current, client, adb, native, work, hears>>

\* stopNativeAndClose goes on: ClientStream.close, which closes the connection it holds, once.
StopCloses(t) ==
  LET c == t[1]
  IN  /\ stop[t].at = "back"
      /\ stop' = [stop EXCEPT ![t].at = "ended"]
      /\ IF client[c].closing
         THEN UNCHANGED <<client, adb>>
         ELSE /\ client' = [client EXCEPT ![c] = Released(@)]
              /\ IF client[c].holds THEN ClosesAdb(c) ELSE UNCHANGED adb
      /\ UNCHANGED <<current, native, work, life, hears>>

AdbCloseRuns(c) ==
  /\ adb[c] = "closing"
  /\ adb' = [adb EXCEPT ![c] = "closed"]
  /\ UNCHANGED <<current, client, native, work, life, hears, stop>>

(***************************************************************************)
(* start: prepareServerForNative connects and pushes the server.           *)
(***************************************************************************)
\* It resets the flags of a stop and of a close.
Begun(k) == [k EXCEPT !.at = "keys", !.stopped = FALSE, !.closing = FALSE]

\* A page that stops its client drops it.  A client that another page has stopped or replaced
\* before it was started is started all the same, when its surface is there.
Start(c) ==
  /\ At(c, "registered") /\ (client[c].stopped => c \in Kept)
  /\ client' = [client EXCEPT ![c] = Begun(@)]
  /\ UNCHANGED <<current, adb, native, work, life, hears, stop>>

\* The catch of prepareServerForNative closes, the catch of start stops.
PrepareFails(c) ==
  /\ Fails(c, Released(client[c]), native)
  /\ IF client[c].holds THEN ClosesAdb(c) ELSE UNCHANGED adb
  /\ UNCHANGED <<current, work, life, hears>>

KeysReady(c) ==
  /\ At(c, "keys")
  /\ \/ Goes(c, "creating") /\ UNCHANGED <<current, adb, native, work, life, hears, stop>>
     \/ PrepareFails(c)

\* A faulty variant.
CancelledNever(c) == FALSE

\* isConnectionCancelled: close() has run since the start.
Cancelled(c) == client[c].closing

AdbCreated(c) ==
  /\ At(c, "creating")
  /\ \/ PrepareFails(c)
     \/ /\ IF Cancelled(c)
           THEN Goes(c, "cancelling") /\ adb' = [adb EXCEPT ![c] = "closing"]
           ELSE /\ client' = [client EXCEPT ![c].at = "connecting", ![c].holds = TRUE]
                /\ adb' = [adb EXCEPT ![c] = "open"]
        /\ UNCHANGED <<current, native, work, life, hears, stop>>

\* throwIfConnectionCancelled awaits the close of the connection before it throws.
Cancels(c) ==
  /\ client' = [client EXCEPT ![c].at = "cancelling", ![c].holds = FALSE]
  /\ ClosesAdb(c)
  /\ UNCHANGED <<current, native, work, life, hears, stop>>

AdbConnected(c) ==
  /\ At(c, "connecting")
  /\ IF Cancelled(c)
     THEN Cancels(c)
     ELSE \/ PrepareFails(c)
          \/ Goes(c, "pushing") /\ UNCHANGED <<current, adb, native, work, life, hears, stop>>

CancelEnds(c) ==
  /\ At(c, "cancelling")
  /\ adb[c] = "closed"
  /\ PrepareFails(c)

\* isStoppedOrStale: stop() makes the start stale and resets adbId as well.
Stale(c) == client[c].stopped

\* The native part of both starts on the JavaScript thread: the old manager goes, the
\* callback is the caller's, and the work is queued.
StartsNative(c, place) ==
  /\ life' = Destroyed(life, native)
  /\ native' = [manager |-> None, callback |-> c]
  /\ work' = [work EXCEPT ![c] = "queued"]
  /\ Goes(c, place)
  /\ UNCHANGED <<current, adb, hears, stop>>

\* nativeStopStreams, which deletes the manager that is there, whoever has started it.
StopsNative(c, place) ==
  /\ life' = Destroyed(life, native)
  /\ native' = NothingNative
  /\ Goes(c, place)
  /\ UNCHANGED <<current, adb, hears, stop>>

StartFails(c) == Fails(c, client[c], native) /\ UNCHANGED <<current, adb, life, hears>>

\* The server is pushed: tryStartReverse begins, or the forward tunnel.
Pushed(c) ==
  /\ At(c, "pushing")
  /\ \/ PrepareFails(c)
     \/ Cancelled(c) /\ Cancels(c)
     \/ ~Cancelled(c) /\ Stale(c) /\ StartFails(c) /\ UNCHANGED work
     \/ /\ ~Cancelled(c) /\ ~Stale(c) /\ c \in Forced
        /\ Goes(c, "server")
        /\ UNCHANGED <<current, adb, native, work, life, hears, stop>>
     \/ ~Cancelled(c) /\ ~Stale(c) /\ c \notin Forced /\ StartsNative(c, "reverse_starting")

(***************************************************************************)
(* The start work: it waits for the pending stops, makes a manager the     *)
(* current one, and starts it.                                             *)
(***************************************************************************)
ManagerOf(c) == IF At(c, "reverse_starting") THEN <<c, "reverse">> ELSE <<c, "forward">>

WorkPublishes(c) ==
  /\ work[c] = "queued"
  /\ Pending = {}
  /\ native' = [native EXCEPT !.manager = ManagerOf(c)]
  /\ life' = [life EXCEPT ![ManagerOf(c)] = "published"]
  /\ work' = [work EXCEPT ![c] = "published"]
  /\ UNCHANGED <<current, client, adb, hears, stop>>

\* The manager captures the callback that is there now (a manager of the forward tunnel sends no
\* event that the start awaits).  The streams of a closed connection
\* cannot be found.  A manager that was deleted meanwhile stays so.
WorkStarts(c) ==
  /\ work[c] = "published"
  /\ \E result \in {"running", "failed"} :
       /\ result = "running" /\ At(c, "forward_starting") => adb[c] # "closed"
       /\ work' = [work EXCEPT ![c] = result]
       /\ life' = [life EXCEPT ![ManagerOf(c)] = IF @ = "deleted" THEN @ ELSE result]
  /\ hears' = IF At(c, "reverse_starting") THEN [hears EXCEPT ![c] = native.callback] ELSE hears
  /\ UNCHANGED <<current, client, adb, native, stop>>

(***************************************************************************)
(* tryStartReverse                                                         *)
(***************************************************************************)
ReverseStarted(c) ==
  /\ At(c, "reverse_starting")
  /\ work[c] \in {"running", "failed"}
  /\ work' = [work EXCEPT ![c] = "none"]
  /\ \/ (Stale(c) \/ work[c] = "failed") /\ StartFails(c)
     \/ ~Stale(c) /\ work[c] = "failed" /\ StopsNative(c, "server")
     \/ ~Stale(c) /\ work[c] = "running" /\ Goes(c, "reversing")
        /\ UNCHANGED <<current, adb, native, life, hears, stop>>

\* adbReverse has returned.  When it succeeds a stopped client goes on, until the shell of
\* the server cannot be had.
Reversed(c) ==
  /\ At(c, "reversing")
  /\ \/ Stale(c) /\ StartFails(c)
     \/ ~Stale(c) /\ StopsNative(c, "server")
     \/ /\ client[c].holds
        /\ client' = [client EXCEPT ![c].at = "reverse_server", ![c].ready = "pending"]
        /\ UNCHANGED <<current, adb, native, life, hears, stop>>
  /\ UNCHANGED work

ReverseServerStarted(c) ==
  /\ At(c, "reverse_server")
  /\ \/ StartFails(c)
     \/ /\ client[c].ready = "pending" \/ ~Stale(c)
        /\ Goes(c, CASE client[c].ready = "pending" -> "ready_wait"
                     [] client[c].ready = "resolved" -> "started"
                     [] client[c].ready = "rejected" -> "fallback")
        /\ UNCHANGED <<current, adb, native, life, hears, stop>>
  /\ UNCHANGED work

\* The promise is settled.  A start that awaits it goes on at once; if it was stopped before
\* it began to wait, it fails.
Settles(c, outcome, place) ==
  /\ client[c].ready = "pending"
  /\ LET k == [client[c] EXCEPT !.ready = outcome]
     IN  CASE ~At(c, "ready_wait") -> client' = [client EXCEPT ![c] = k] /\ UNCHANGED <<native, stop>>
           [] At(c, "ready_wait") /\ Stale(c) -> Fails(c, k, native)
           [] OTHER -> client' = [client EXCEPT ![c] = [k EXCEPT !.at = place]] /\ UNCHANGED <<native, stop>>
  /\ UNCHANGED <<current, adb, work, life, hears>>

\* reverse_ready, sent by a manager that has captured the callback of c.
ReverseReady(c) ==
  /\ \E d \in Clients : hears[d] = c
  /\ Settles(c, "resolved", "started")

\* A faulty variant: the flag is reset and the promise left open.
ReverseLostUnnoticed(c) == Settles(c, "rejected", "ready_wait")

\* The time for the reverse sockets is over, or an event of the streams says they are lost.
ReverseLost(c) == Settles(c, "rejected", "fallback")

\* stopServerAndWait has returned; a stopped client removes no reverse forwarding, and still
\* stops the streams.
FallbackStopped(c) ==
  /\ At(c, "fallback")
  /\ \/ ~Stale(c) /\ Goes(c, "removing") /\ UNCHANGED <<current, adb, native, life, hears, stop>>
     \/ Stale(c) /\ StopsNative(c, "cooldown")
  /\ UNCHANGED work

ReverseRemoved(c) ==
  /\ At(c, "removing")
  /\ StartFails(c) \/ StopsNative(c, "cooldown")
  /\ UNCHANGED work

CooledDown(c) ==
  /\ At(c, "cooldown")
  /\ \/ Stale(c) /\ StartFails(c)
     \/ ~Stale(c) /\ Goes(c, "server") /\ UNCHANGED <<current, adb, native, life, hears, stop>>
  /\ UNCHANGED work

(***************************************************************************)
(* The forward tunnel: nothing here looks whether the client is stopped,   *)
(* but its adbId is -1 then and no stream can be opened with it.           *)
(***************************************************************************)
ServerStarted(c) ==
  /\ At(c, "server")
  /\ StartFails(c) \/ (Goes(c, "opening") /\ UNCHANGED <<current, adb, native, life, hears, stop>>)
  /\ UNCHANGED work

\* Video and audio are open, the control stream is asked for.
StreamsOpened(c) ==
  /\ At(c, "opening")
  /\ \/ StartFails(c)
     \/ ~Stale(c) /\ Goes(c, "opening_control") /\ UNCHANGED <<current, adb, native, life, hears, stop>>
  /\ UNCHANGED work

\* nativeStartStreams looks for the connection after it has replaced manager and callback.
ControlOpened(c) ==
  /\ At(c, "opening_control")
  /\ \/ StartFails(c) /\ UNCHANGED work
     \/ ~Stale(c) /\ StartsNative(c, "forward_starting")
     \/ /\ Stale(c)
        /\ life' = Destroyed(life, native)
        /\ Fails(c, client[c], [manager |-> None, callback |-> c])
        /\ UNCHANGED <<current, adb, work, hears>>

ForwardStarted(c) ==
  /\ At(c, "forward_starting")
  /\ work[c] \in {"running", "failed"}
  /\ work' = [work EXCEPT ![c] = "none"]
  /\ \/ work[c] = "failed" /\ StartFails(c)
     \/ work[c] = "running" /\ Goes(c, "started")
        /\ UNCHANGED <<current, adb, native, life, hears, stop>>

-----------------------------------------------------------------------------
Continues(c) ==
  \/ KeysReady(c) \/ AdbCreated(c) \/ AdbConnected(c) \/ CancelEnds(c) \/ Pushed(c)
  \/ ReverseStarted(c) \/ Reversed(c) \/ ReverseServerStarted(c) \/ ReverseLost(c)
  \/ FallbackStopped(c) \/ ReverseRemoved(c) \/ CooledDown(c)
  \/ ServerStarted(c) \/ StreamsOpened(c) \/ ControlOpened(c) \/ ForwardStarted(c)

Works(c) == WorkPublishes(c) \/ WorkStarts(c)

Next ==
  \/ \E c \in Clients : \/ Register(c) \/ Start(c) \/ StopSession(c) \/ ReverseReady(c)
                        \/ Continues(c) \/ Works(c) \/ AdbCloseRuns(c)
  \/ \E t \in Stops : StopRuns(t) \/ StopCloses(t)

Spec == Init /\ [][Next]_vars

\* Promises are settled and the thread pool works: what a client has under way goes on, its
\* start, the close of its connection and its stops.  Pages do nothing they need not do, and a
\* device need not connect back.
Advances(c) ==
  \/ Continues(c) \/ Works(c) \/ AdbCloseRuns(c)
  \/ \E t \in Stops : t[1] = c /\ (StopRuns(t) \/ StopCloses(t))
FairSpec == Spec /\ \A c \in Clients : WF_vars(Advances(c))

-----------------------------------------------------------------------------
Places == {"new", "registered", "keys", "creating", "connecting", "cancelling", "pushing",
           "reverse_starting", "reversing", "reverse_server", "ready_wait", "fallback", "removing",
           "cooldown", "server", "opening", "opening_control", "forward_starting", "started", "failed"}

\* Every variable has its type, and no client holds the number of a connection that is closed
\* (its owner erases it from g_adbInstances only when it gives the number up).
TypeOK ==
  /\ current \in Clients \cup {None}
  /\ client \in [Clients -> [at : Places, stopped : BOOLEAN,
                             ready : {"none", "pending", "resolved", "rejected"},
                             holds : BOOLEAN, closing : BOOLEAN]]
  /\ \A c \in Clients : client[c].holds => adb[c] = "open"
  /\ adb \in [Clients -> {"none", "open", "closing", "closed"}]
  /\ native \in [manager : Managers \cup {None}, callback : Clients \cup {None}]
  /\ work \in [Clients -> {"none", "queued", "published", "running", "failed"}]
  /\ life \in [Managers -> {"none", "published", "running", "failed", "deleted"}]
  /\ hears \in [Clients -> Clients \cup {None}]
  /\ stop \in [Stops -> [at : {"none", "queued", "back", "ended"},
                         manager : Managers \cup {None}, callback : Clients \cup {None}]]

\* The sessions that believe to be active and are not the registered one.
Unowned == {c \in Clients : ~At(c, "new") /\ c # current /\ ~client[c].stopped}

\* A session that another replaces is stopped, at whatever place its start is, and stays so: a
\* second session is active only if it was stopped before its start, which revives it.
OneSession ==
  [][\A c \in Unowned' : c \in Unowned \/ (At(c, "registered") /\ client[c].stopped)]_vars

\* A manager is deleted once: it is either the current one or in the hands of one stop, and
\* in neither after it was deleted (g_streamManagerMutex guards taking it; several stops and
\* starts take it from the JavaScript thread while works publish others).
DeletedOnce ==
  \A m \in Managers :
    /\ \A t, u \in Stops : stop[t].manager = m /\ stop[u].manager = m => t = u
    /\ native.manager = m => \A t \in Stops : stop[t].manager # m
    /\ life[m] = "deleted" => native.manager # m /\ \A t \in Stops : stop[t].manager # m

\* A start ends, well or badly, whatever is stopped, lost or replaced meanwhile.
StartsEnd == \A c \in Clients : At(c, "keys") ~> (At(c, "started") \/ At(c, "failed"))

\* The connection of a stopped client is closed, also the one adbCreate delivers only after
\* the client's close() had nothing to close.
ConnectionCloses == \A c \in Clients : (client[c].stopped /\ adb[c] = "open") ~> adb[c] = "closed"

\* "identity checking prevents the old page from stopping the replacement"
\* (ClientSessionManager.ets:56): what a client's stop has taken is its own, or that of a
\* client which is stopped as well.
StopsOwnStreams ==
  \A t \in Stops :
    stop[t].at = "queued" /\ stop[t].manager # None =>
      LET owner == stop[t].manager[1] IN owner = t[1] \/ client[owner].stopped
=============================================================================
