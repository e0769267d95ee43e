---------------------------- MODULE SessionsProofs ----------------------------
(***************************************************************************)
(* What Sessions promises, proved for any number of clients and any set of *)
(* devices that force the forward tunnel:                                  *)
(*                                                                         *)
(*   TypeCorrect      TypeOK                                               *)
(*   OneActive        OneSession                                           *)
(*   ManagersOnce     DeletedOnce                                          *)
(*                                                                         *)
(* Many actions do the same to a client or to the managers.  StepKinds     *)
(* says of which kind a step is, and HandKinds what it does to the hands   *)
(* the managers are in; the invariants are proved kind by kind.            *)
(* DeletedOnce needs that a manager that its start has not made yet is     *)
(* nowhere (Fresh), and therefore at which places of a start its work is   *)
(* under way (Waits).                                                      *)
(***************************************************************************)
EXTENDS Sessions, TLAPS

(* TypeOK, one part for each variable, and for the numbers of connections. *)
Session == [at : Places, stopped : BOOLEAN, ready : {"none", "pending", "resolved", "rejected"},
            holds : BOOLEAN, closing : BOOLEAN]
Taking == [at : {"none", "queued", "back", "ended"},
           manager : Managers \cup {None}, callback : Clients \cup {None}]
Current == current \in Clients \cup {None}
Client == client \in [Clients -> Session]
Adb == adb \in [Clients -> {"none", "open", "closing", "closed"}]
Native == native \in [manager : Managers \cup {None}, callback : Clients \cup {None}]
Work == work \in [Clients -> {"none", "queued", "published", "running", "failed"}]
Life == life \in [Managers -> {"none", "published", "running", "failed", "deleted"}]
Hears == hears \in [Clients -> Clients \cup {None}]
Stop == stop \in [Stops -> Taking]

Holding ==
  \A c \in Clients :
    /\ client[c].holds => adb[c] = "open"
    /\ client[c].at \in {"new", "registered", "keys", "creating"} => ~client[c].holds

(* A start that waits for the server of a reverse tunnel has asked for the sockets. *)
Asked == \A c \in Clients : client[c].at = "reverse_server" => client[c].ready # "none"

(* A work is awaited only where a start awaits it.                         *)
Waits == \A c \in Clients : work[c] # "none" => client[c].at \in {"reverse_starting", "forward_starting"}

(* The manager a start will make is nowhere until its work publishes it.   *)
Early == {"new", "registered", "keys", "creating", "connecting", "cancelling", "pushing"}
Unborn(m) == life[m] = "none" /\ native.manager # m /\ \A t \in Stops : stop[t].manager # m
ReverseAhead(c) ==
  client[c].at \in Early \/ (client[c].at = "reverse_starting" /\ work[c] = "queued")
ForwardAhead(c) ==
  \/ client[c].at \notin {"forward_starting", "started", "failed"}
  \/ client[c].at = "forward_starting" /\ work[c] = "queued"
Fresh ==
  \A c \in Clients : /\ ReverseAhead(c) => Unborn(<<c, "reverse">>)
                     /\ ForwardAhead(c) => Unborn(<<c, "forward">>)

(* The inductive invariant.                                                *)
IInv ==
  /\ Current /\ Client /\ Adb /\ Native /\ Work /\ Life /\ Hears /\ Stop
  /\ Holding /\ Asked /\ Waits /\ Fresh /\ DeletedOnce

-----------------------------------------------------------------------------
(* What an assignment to a client does to the fields of its record.        *)

\* A step of a start to another place.
LEMMA Goings ==
  ASSUME Client, NEW c \in Clients, NEW p \in Places, Goes(c, p)
  PROVE  /\ client' \in [Clients -> Session]
         /\ client'[c].at = p /\ client'[c].holds = client[c].holds /\ client'[c].stopped = client[c].stopped
         /\ client'[c].ready = client[c].ready
         /\ \A d \in Clients : d # c => client'[d] = client[d]
  BY DEF Client, Session, Goes

\* The flag of stop() and the rejected promise.
LEMMA Stoppings ==
  ASSUME NEW k \in Session
  PROVE  /\ Stopped(k) \in Session
         /\ Stopped(k).stopped /\ Stopped(k).at = k.at /\ Stopped(k).holds = k.holds
         /\ Stopped(k).ready = "none" <=> k.ready = "none"
  BY DEF Session, Stopped, Rejected

\* ClientStream.close.
LEMMA Releases ==
  ASSUME NEW k \in Session
  PROVE  /\ Released(k) \in Session
         /\ Released(k).stopped = k.stopped /\ Released(k).at = k.at /\ ~Released(k).holds
         /\ Released(k).ready = k.ready
  BY DEF Session, Released

\* The end of a start that fails, whatever record it leaves.
LEMMA Failures ==
  ASSUME Client, NEW c \in Clients, NEW k \in Session, NEW n, Fails(c, k, n)
  PROVE  /\ client' \in [Clients -> Session]
         /\ client'[c].at = "failed" /\ client'[c].stopped /\ client'[c].holds = k.holds
         /\ client'[c].ready = "none" <=> k.ready = "none"
         /\ \A d \in Clients : d # c => client'[d] = client[d]
         /\ native' = NothingNative
         /\ stop' = [stop EXCEPT ![<<c, "catch">>] = Taken(n)]
<1>1. "failed" \in Places
  BY DEF Places
<1>2. /\ [Stopped(k) EXCEPT !.at = "failed"] \in Session
      /\ [Stopped(k) EXCEPT !.at = "failed"].at = "failed"
      /\ [Stopped(k) EXCEPT !.at = "failed"].stopped
      /\ [Stopped(k) EXCEPT !.at = "failed"].holds = k.holds
      /\ [Stopped(k) EXCEPT !.at = "failed"].ready = "none" <=> k.ready = "none"
  BY <1>1, Stoppings DEF Session
<1> QED
  BY <1>2 DEF Fails, Client

\* A stop by the page or by the next session.
LEMMA PageStops ==
  ASSUME Client, NEW c \in Clients
  PROVE  /\ StoppedByPage(c) \in [Clients -> Session]
         /\ StoppedByPage(c)[c].at = IF client[c].at = "ready_wait" THEN "failed" ELSE client[c].at
         /\ StoppedByPage(c)[c].stopped /\ StoppedByPage(c)[c].holds = client[c].holds
         /\ StoppedByPage(c)[c].ready = "none" <=> client[c].ready = "none"
         /\ \A d \in Clients : d # c => StoppedByPage(c)[d] = client[d]
<1>1. "failed" \in Places
  BY DEF Places
<1>2. client[c] \in Session
  BY DEF Client
<1>3. /\ [Stopped(client[c]) EXCEPT !.at = "failed"] \in Session
      /\ [Stopped(client[c]) EXCEPT !.at = "failed"].at = "failed"
      /\ [Stopped(client[c]) EXCEPT !.at = "failed"].stopped
      /\ [Stopped(client[c]) EXCEPT !.at = "failed"].holds = client[c].holds
      /\ [Stopped(client[c]) EXCEPT !.at = "failed"].ready = "none" <=> client[c].ready = "none"
  BY <1>1, <1>2, Stoppings DEF Session
<1> QED
  BY <1>2, <1>3, Stoppings DEF StoppedByPage, Client

\* A promise that is settled, with the start that awaits it.
LEMMA Settlings ==
  ASSUME Client, NEW c \in Clients, NEW r \in {"resolved", "rejected"}, NEW p \in Places, Settles(c, r, p)
  PROVE  /\ client' \in [Clients -> Session]
         /\ \/ client'[c].at = client[c].at
            \/ client[c].at = "ready_wait" /\ client'[c].at \in {"failed", p}
         /\ client[c].stopped => client'[c].stopped
         /\ client'[c].holds = client[c].holds /\ client'[c].ready # "none"
         /\ \A d \in Clients : d # c => client'[d] = client[d]
         /\ \/ UNCHANGED <<native, stop>>
            \/ native' = NothingNative /\ stop' = [stop EXCEPT ![<<c, "catch">>] = Taken(native)]
         /\ UNCHANGED <<current, adb, work, life, hears>>
<1> DEFINE k == [client[c] EXCEPT !.ready = r]
<1>1. client[c] \in Session
  BY DEF Client
<1>2. k \in Session /\ k.at = client[c].at /\ k.stopped = client[c].stopped /\ k.holds = client[c].holds
      /\ k.ready # "none"
  BY <1>1 DEF Session
<1>3. /\ [k EXCEPT !.at = p] \in Session
      /\ [k EXCEPT !.at = p].at = p /\ [k EXCEPT !.at = p].stopped = client[c].stopped
      /\ [k EXCEPT !.at = p].holds = client[c].holds /\ [k EXCEPT !.at = p].ready # "none"
  BY <1>2 DEF Session
<1>4. UNCHANGED <<current, adb, work, life, hears>>
  BY DEF Settles
<1> HIDE DEF k
<1>5. CASE ~At(c, "ready_wait")
  <2>1. client' = [client EXCEPT ![c] = k] /\ UNCHANGED <<native, stop>>
    BY <1>5 DEF Settles, k
  <2> QED
    BY <2>1, <1>1, <1>2, <1>4 DEF Client
<1>6. CASE At(c, "ready_wait") /\ Stale(c)
  <2>1. Fails(c, k, native)
    BY <1>6 DEF Settles, k
  <2> QED
    BY <2>1, <1>2, <1>4, <1>6, Failures DEF At, Stale
<1>7. CASE At(c, "ready_wait") /\ ~Stale(c)
  <2>1. client' = [client EXCEPT ![c] = [k EXCEPT !.at = p]] /\ UNCHANGED <<native, stop>>
    BY <1>7 DEF Settles, k
  <2> QED
    BY <2>1, <1>1, <1>3, <1>4, <1>7 DEF Client, At, Stale
<1> QED
  BY <1>5, <1>6, <1>7

\* A connection that is closed because the client was stopped meanwhile.
LEMMA Cancellings ==
  ASSUME Client, NEW c \in Clients, Cancels(c)
  PROVE  /\ client' \in [Clients -> Session]
         /\ client'[c].at = "cancelling" /\ ~client'[c].holds /\ client'[c].stopped = client[c].stopped
         /\ \A d \in Clients : d # c => client'[d] = client[d]
         /\ ClosesAdb(c)
         /\ UNCHANGED <<current, native, work, life, hears, stop>>
  BY DEF Client, Session, Places, Cancels

\* A start that fails before the server is pushed gives its connection up.
LEMMA Unpreparings ==
  ASSUME Client, NEW c \in Clients, PrepareFails(c)
  PROVE  /\ client' \in [Clients -> Session]
         /\ client'[c].at = "failed" /\ client'[c].stopped /\ ~client'[c].holds
         /\ \A d \in Clients : d # c => client'[d] = client[d]
         /\ IF client[c].holds THEN ClosesAdb(c) ELSE UNCHANGED adb
         /\ UNCHANGED <<current, work, life, hears>>
<1>1. client[c] \in Session
  BY DEF Client
<1>2. /\ Fails(c, Released(client[c]), native)
      /\ (IF client[c].holds THEN ClosesAdb(c) ELSE UNCHANGED adb)
      /\ UNCHANGED <<current, work, life, hears>>
  BY DEF PrepareFails
<1>3. Released(client[c]) \in Session /\ ~Released(client[c]).holds
  BY <1>1, Releases
<1> QED
  BY <1>2, <1>3, Failures

\* A client that is registered, and the one before it that is stopped.
LEMMA Registrations ==
  ASSUME Client, Current, NEW c \in Clients, Register(c)
  PROVE  /\ client' \in [Clients -> Session]
         /\ client[c].at = "new" /\ client'[c].at = "registered" /\ client'[c].holds = client[c].holds
         /\ \A d \in Clients : d # c /\ d # current => client'[d] = client[d]
         /\ \A d \in Clients : d # c /\ d = current =>
              /\ client'[d].at = IF client[d].at = "ready_wait" THEN "failed" ELSE client[d].at
              /\ client'[d].stopped /\ client'[d].holds = client[d].holds
              /\ client'[d].ready = "none" <=> client[d].ready = "none"
         /\ current' = c /\ UNCHANGED <<adb, work, life, hears>>
<1> "registered" \in Places
  BY DEF Places
<1>1. CASE current = None
  <2>1. Goes(c, "registered")
    BY <1>1 DEF Register
  <2> QED
    BY <1>1, <2>1, Goings, SessionsAssumption DEF Register, At
<1>2. CASE current # None
  <2>1. current \in Clients
    BY <1>2 DEF Current
  <2>2. client' = [StoppedByPage(current) EXCEPT ![c].at = "registered"]
    BY <1>2 DEF Register
  <2>3. StoppedByPage(current)[c] \in Session /\ StoppedByPage(current)[c].holds = client[c].holds
    BY <2>1, PageStops
  <2>4. [StoppedByPage(current)[c] EXCEPT !.at = "registered"] \in Session
    BY <2>3 DEF Session
  <2>5. /\ client' \in [Clients -> Session]
        /\ client'[c].at = "registered" /\ client'[c].holds = client[c].holds
        /\ \A d \in Clients : d # c => client'[d] = StoppedByPage(current)[d]
    BY <2>1, <2>2, <2>3, <2>4, PageStops DEF Session
  <2> QED
    BY <2>1, <2>5, PageStops DEF Register, At
<1> QED
  BY <1>1, <1>2

-----------------------------------------------------------------------------
(* The kinds of step.                                                      *)

Ready == {"new", "registered", "keys", "creating"}
\* No work of the client is under way after the step.
Idle(c) == work' = [work EXCEPT ![c] = "none"]
\* What is common to the steps that take a start from one place to the next.
Edge(c, p) ==
  /\ p \in Places \ {"new", "reverse_starting", "forward_starting", "reverse_server", "failed"}
  /\ client[c].at # "new"
  /\ p \in Early => client[c].at \in Early
  /\ p \in Ready => client[c].at \in Ready
  /\ client[c].at \in {"forward_starting", "started", "failed"} => p = "started"

\* A start begins or goes on.
Moves(c, p) ==
  Goes(c, p) \/ (p = "keys" /\ At(c, "registered") /\ client' = [client EXCEPT ![c] = Begun(@)])
Proceeds(c) ==
  /\ \E p \in Places : Edge(c, p) /\ Moves(c, p)
  /\ Idle(c)
  /\ UNCHANGED <<current, adb, native, life, hears, stop>>
\* It fails.
Breaks(c) ==
  /\ client[c].at # "new" /\ Fails(c, client[c], native)
  /\ Idle(c)
  /\ UNCHANGED <<current, adb, life, hears>>
\* It fails before the server is pushed.
Unprepared(c) == client[c].at # "new" /\ PrepareFails(c) /\ Idle(c)
\* adbCreate has returned.
Connects(c) ==
  /\ client[c].at = "creating"
  /\ \/ Goes(c, "cancelling") /\ adb' = [adb EXCEPT ![c] = "closing"]
     \/ /\ client' = [client EXCEPT ![c].at = "connecting", ![c].holds = TRUE]
        /\ adb' = [adb EXCEPT ![c] = "open"]
  /\ UNCHANGED <<current, native, work, life, hears, stop>>
\* It asks for the reverse sockets.
Listens(c) ==
  /\ client[c].at = "reversing"
  /\ client' = [client EXCEPT ![c].at = "reverse_server", ![c].ready = "pending"]
  /\ UNCHANGED <<current, adb, native, work, life, hears, stop>>
\* It gives a connection up.
CancelsLate(c) == client[c].at \in {"connecting", "pushing"} /\ Cancels(c)
\* It queues native work.
Begins(c) ==
  \/ client[c].at = "pushing" /\ StartsNative(c, "reverse_starting")
  \/ client[c].at = "opening_control" /\ StartsNative(c, "forward_starting")
\* It stops the streams there are and goes on.
Resets(c) ==
  /\ \E p \in Places : Edge(c, p) /\ StopsNative(c, p)
  /\ Idle(c)
\* Its connection is gone when it wants to start the streams.
Refused(c) ==
  /\ client[c].at = "opening_control"
  /\ life' = Destroyed(life, native)
  /\ Fails(c, client[c], [manager |-> None, callback |-> c])
  /\ UNCHANGED <<current, adb, work, hears>>
\* A promise is settled.
Settled(c) ==
  \/ Settles(c, "resolved", "started")
  \/ Settles(c, "rejected", "fallback")

\* What beginning or going on does to the client.
LEMMA Proceedings ==
  ASSUME Client, NEW c \in Clients, NEW p \in Places, Moves(c, p)
  PROVE  /\ client' \in [Clients -> Session]
         /\ client'[c].at = p /\ client'[c].holds = client[c].holds
         /\ client'[c].ready = client[c].ready
         /\ client'[c].stopped = client[c].stopped \/ client[c].at = "registered"
         /\ \A d \in Clients : d # c => client'[d] = client[d]
<1>1. CASE Goes(c, p)
  BY <1>1, Goings
<1>2. CASE p = "keys" /\ At(c, "registered") /\ client' = [client EXCEPT ![c] = Begun(@)]
  <2>1. client[c] \in Session /\ "keys" \in Places
    BY DEF Client, Places
  <2>2. /\ Begun(client[c]) \in Session /\ Begun(client[c]).at = "keys"
        /\ Begun(client[c]).holds = client[c].holds /\ Begun(client[c]).ready = client[c].ready
    BY <2>1 DEF Begun, Session
  <2> QED
    BY <1>2, <2>2 DEF Client, At
<1> QED
  BY <1>1, <1>2 DEF Moves

\* What asking for the reverse sockets does to the client.
LEMMA Listenings ==
  ASSUME Client, NEW c \in Clients, Listens(c)
  PROVE  /\ client' \in [Clients -> Session]
         /\ client[c].at = "reversing" /\ client'[c].at = "reverse_server" /\ client'[c].ready = "pending"
         /\ client'[c].holds = client[c].holds /\ client'[c].stopped = client[c].stopped
         /\ \A d \in Clients : d # c => client'[d] = client[d]
<1>1. client[c] \in Session /\ "reverse_server" \in Places
  BY DEF Client, Places
<1>2. [client[c] EXCEPT !.at = "reverse_server", !.ready = "pending"] \in Session
  BY <1>1 DEF Session
<1>3. client' = [client EXCEPT ![c] = [client[c] EXCEPT !.at = "reverse_server", !.ready = "pending"]]
  BY DEF Listens, Client
<1> QED
  BY <1>1, <1>2, <1>3 DEF Listens, Client, Session

\* Settlings for both outcomes.
LEMMA Settlements ==
  ASSUME Client, NEW c \in Clients, Settled(c)
  PROVE  /\ client' \in [Clients -> Session]
         /\ \/ client'[c].at = client[c].at
            \/ client[c].at = "ready_wait" /\ client'[c].at \in {"failed", "started", "fallback"}
         /\ client[c].stopped => client'[c].stopped
         /\ client'[c].holds = client[c].holds /\ client'[c].ready # "none"
         /\ \A d \in Clients : d # c => client'[d] = client[d]
         /\ \/ UNCHANGED <<native, stop>>
            \/ native' = NothingNative /\ stop' = [stop EXCEPT ![<<c, "catch">>] = Taken(native)]
         /\ UNCHANGED <<current, adb, work, life, hears>>
<1>1. "started" \in Places /\ "fallback" \in Places
  BY DEF Places
<1>2. CASE Settles(c, "resolved", "started")
  BY <1>1, <1>2, Settlings
<1>3. CASE Settles(c, "rejected", "fallback")
  BY <1>1, <1>3, Settlings
<1> QED
  BY <1>2, <1>3 DEF Settled

Kinds(c) ==
  \/ Register(c) \/ StopSession(c) \/ Proceeds(c) \/ Breaks(c) \/ Unprepared(c) \/ Connects(c)
  \/ CancelsLate(c) \/ Begins(c) \/ Listens(c) \/ Resets(c) \/ Refused(c) \/ Settled(c)
  \/ WorkPublishes(c) \/ WorkStarts(c) \/ AdbCloseRuns(c)

\* Every step is of one of the kinds.
LEMMA StepKinds ==
  ASSUME IInv, Next
  PROVE  (\E c \in Clients : Kinds(c)) \/ (\E t \in Stops : StopRuns(t) \/ StopCloses(t))
<1> SUFFICES ASSUME NEW c \in Clients, Start(c) \/ ReverseReady(c) \/ Continues(c)
             PROVE  Kinds(c)
  BY DEF Next, Works, Kinds
<1> USE DEF Kinds
<1>w. UNCHANGED work /\ client[c].at \notin {"reverse_starting", "forward_starting"} => Idle(c)
  BY DEF IInv, Work, Waits, Idle
<1>1. CASE Start(c)
  BY <1>w, <1>1 DEF Start, At, Proceeds, Moves, Edge, Places, Early, Ready
<1>2. CASE ReverseReady(c)
  BY <1>w, <1>2 DEF ReverseReady, At, Settled
<1>3. CASE KeysReady(c)
  BY <1>w, <1>3 DEF KeysReady, At, Proceeds, Moves, Unprepared, PrepareFails, Edge, Places, Early, Ready
<1>4. CASE AdbCreated(c)
  BY <1>w, <1>4 DEF AdbCreated, At, Connects, Unprepared, PrepareFails
<1>5. CASE AdbConnected(c)
  BY <1>w, <1>5 DEF AdbConnected, At, Proceeds, Moves, Unprepared, CancelsLate, PrepareFails, Edge, Places,
     Early, Ready
<1>6. CASE CancelEnds(c)
  BY <1>w, <1>6 DEF CancelEnds, At, Unprepared, PrepareFails
<1>7. CASE Pushed(c)
  BY <1>w, <1>7 DEF Pushed, At, Unprepared, CancelsLate, Breaks, Proceeds, Moves, Begins, StartFails,
     PrepareFails, Edge, Places, Early, Ready, Idle
<1>8. CASE ReverseStarted(c)
  BY <1>w, <1>8 DEF ReverseStarted, At, Breaks, Resets, Proceeds, Moves, StartFails, Edge, Places, Early, Ready,
     StopsNative, Idle
<1>9. CASE Reversed(c)
  BY <1>w, <1>9 DEF Reversed, At, Breaks, Resets, Listens, StartFails, StopsNative, Edge, Places, Early,
     Ready
<1>10. CASE ReverseServerStarted(c)
  <2>1. CASE StartFails(c) /\ UNCHANGED work
    BY <1>w, <1>10, <2>1 DEF ReverseServerStarted, At, Breaks, StartFails
  <2>2. CASE /\ client[c].ready = "pending" \/ ~Stale(c)
             /\ \E p \in {"ready_wait", "started", "fallback"} : Goes(c, p)
             /\ UNCHANGED <<current, adb, native, work, life, hears, stop>>
    BY <1>w, <1>10, <2>2 DEF ReverseServerStarted, At, Proceeds, Moves, Edge, Places, Early, Ready
  <2>3. client[c].ready \in {"pending", "resolved", "rejected"}
    BY <1>10 DEF IInv, Client, Session, Asked, ReverseServerStarted, At
  <2> QED
    BY <1>10, <2>1, <2>2, <2>3 DEF ReverseServerStarted
<1>11. CASE ReverseLost(c)
  BY <1>w, <1>11 DEF ReverseLost, At, Settled
<1>12. CASE FallbackStopped(c)
  BY <1>w, <1>12 DEF FallbackStopped, At, Proceeds, Moves, Resets, Edge, Places, Early, Ready, StopsNative
<1>13. CASE ReverseRemoved(c)
  BY <1>w, <1>13 DEF ReverseRemoved, At, Breaks, Resets, StartFails, StopsNative, Edge, Places, Early, Ready
<1>14. CASE CooledDown(c)
  BY <1>w, <1>14 DEF CooledDown, At, Breaks, Proceeds, Moves, StartFails, Edge, Places, Early, Ready
<1>15. CASE ServerStarted(c)
  BY <1>w, <1>15 DEF ServerStarted, At, Breaks, Proceeds, Moves, StartFails, Edge, Places, Early, Ready
<1>16. CASE StreamsOpened(c)
  BY <1>w, <1>16 DEF StreamsOpened, At, Breaks, Proceeds, Moves, StartFails, Edge, Places, Early, Ready
<1>17. CASE ControlOpened(c)
  BY <1>w, <1>17 DEF ControlOpened, At, Breaks, Begins, Refused, StartFails
<1>18. CASE ForwardStarted(c)
  BY <1>w, <1>18 DEF ForwardStarted, At, Breaks, Proceeds, Moves, StartFails, Edge, Places, Early, Ready, Idle
<1> QED
  BY <1>1, <1>2, <1>3, <1>4, <1>5, <1>6, <1>7, <1>8, <1>9, <1>10, <1>11, <1>12, <1>13, <1>14, <1>15,
     <1>16, <1>17, <1>18 DEF Continues

-----------------------------------------------------------------------------
(* The hands a manager can be in: the native entry, and each stop.         *)

Entries == [manager : Managers \cup {None}, callback : Clients \cup {None}]

\* What is left in the native entry after it was taken.
LEMMA Nothing == NothingNative \in Entries /\ NothingNative.manager = None
  BY DEF NothingNative, Entries

\* A stop takes what is in the native entry.
LEMMA Takings ==
  ASSUME Stop, NEW u \in Stops, NEW n \in Entries
  PROVE  /\ [stop EXCEPT ![u] = Taken(n)] \in [Stops -> Taking]
         /\ [stop EXCEPT ![u] = Taken(n)][u].manager = n.manager
         /\ \A t \in Stops : t # u => [stop EXCEPT ![u] = Taken(n)][t] = stop[t]
<1>1. Taken(n) \in Taking /\ Taken(n).manager = n.manager
  BY DEF Taken, Taking, Entries
<1> QED
  BY <1>1 DEF Stop

\* The same for the stop of a page, whose client may fail in the same step.
LEMMA PageTakings ==
  ASSUME Stop, Native, NEW c \in Clients
  PROVE  /\ <<c, "page">> \in Stops
         /\ StopsByPage(c) \in [Stops -> Taking]
         /\ StopsByPage(c)[<<c, "page">>].manager = native.manager
         /\ \A t \in Stops : t # <<c, "page">> => StopsByPage(c)[t].manager \in {stop[t].manager, None}
<1>1. Taken(native) \in Taking /\ Taken(native).manager = native.manager
  BY DEF Taken, Taking, Native
<1>2. Taken(NothingNative) \in Taking /\ Taken(NothingNative).manager = None
  BY DEF Taken, Taking, NothingNative
<1>3. <<c, "page">> \in Stops /\ <<c, "page">> # <<c, "catch">>
  BY DEF Stops
<1>4. \A t \in Stops : StopsByPage(c)[t] =
        IF t = <<c, "page">> THEN Taken(native)
        ELSE IF t = <<c, "catch">> /\ At(c, "ready_wait") THEN Taken(NothingNative) ELSE stop[t]
  BY <1>3 DEF StopsByPage
<1>5. StopsByPage(c) = [t \in Stops |-> StopsByPage(c)[t]]
  BY DEF StopsByPage
<1>6. \A t \in Stops : StopsByPage(c)[t] \in Taking
  BY <1>1, <1>2, <1>4 DEF Stop
<1> QED
  BY <1>1, <1>2, <1>3, <1>4, <1>5, <1>6

\* The managers stay where they are; one is taken by a stop; the current one is deleted.
Stays ==
  /\ life' = life /\ native'.manager = native.manager
  /\ \A t \in Stops : stop'[t].manager = stop[t].manager
Takes(u) ==
  /\ life' = life /\ native'.manager = None /\ stop'[u].manager = native.manager
  /\ \A t \in Stops : t # u => stop'[t].manager \in {stop[t].manager, None}
Drops ==
  /\ life' = Destroyed(life, native) /\ native'.manager = None
  /\ \A t \in Stops : stop'[t].manager \in {stop[t].manager, None}

Hands ==
  \/ Stays
  \/ \E u \in Stops : Takes(u)
  \/ Drops
  \/ \E c \in Clients : WorkPublishes(c) \/ WorkStarts(c)
  \/ \E u \in Stops : StopRuns(u)

\* A start that fails takes what is there.
LEMMA Failed ==
  ASSUME Native, Stop, NEW c \in Clients, NEW k, NEW n \in Entries, Fails(c, k, n)
  PROVE  /\ Native' /\ Stop'
         /\ native'.manager = None
         /\ \E u \in Stops : /\ stop'[u].manager = n.manager
                             /\ \A t \in Stops : t # u => stop'[t].manager = stop[t].manager
<1>1. <<c, "catch">> \in Stops
  BY DEF Stops
<1>2. native' = NothingNative /\ stop' = [stop EXCEPT ![<<c, "catch">>] = Taken(n)]
  BY DEF Fails
<1>3. Native' /\ native'.manager = None
  BY <1>2, Nothing DEF Native, Entries
<1>4. Stop'
  BY <1>1, <1>2, Takings DEF Stop
<1> QED
  BY <1>1, <1>2, <1>3, <1>4, Takings

\* What every step does to the hands of the managers.
LEMMA HandKinds ==
  ASSUME IInv, [Next]_vars
  PROVE  Native' /\ Stop' /\ Hands
<1> USE SessionsAssumption DEF IInv, Hands
<1>n. native \in Entries
  BY DEF Native, Entries
<1>1. ASSUME NEW c \in Clients, Register(c) \/ StopSession(c) PROVE Native' /\ Stop' /\ Hands
  <2>1. ASSUME NEW d \in Clients, native' = NothingNative, stop' = StopsByPage(d), UNCHANGED life
        PROVE  Native' /\ Stop' /\ Takes(<<d, "page">>) /\ <<d, "page">> \in Stops
    BY <2>1, PageTakings, Nothing DEF Native, Entries, Stop, Takes
  <2>2. CASE StopSession(c)
    BY <2>1, <2>2 DEF StopSession
  <2>3. CASE Register(c) /\ current # None
    BY <2>1, <2>3 DEF Register, Current
  <2>4. CASE Register(c) /\ current = None
    BY <2>4 DEF Register, Native, Stop, Stays
  <2> QED
    BY <1>1, <2>2, <2>3, <2>4
<1>2. ASSUME NEW c \in Clients, Fails(c, client[c], native) \/ Fails(c, Released(client[c]), native),
     UNCHANGED life
      PROVE  Native' /\ Stop' /\ Hands
  BY <1>2, <1>n, Failed DEF Takes
<1>3. ASSUME NEW c \in Clients, Breaks(c) \/ Unprepared(c)
      PROVE  Native' /\ Stop' /\ Hands
  BY <1>2, <1>3 DEF Breaks, Unprepared, PrepareFails
<1>4. ASSUME NEW c \in Clients, Refused(c)
      PROVE  Native' /\ Stop' /\ Hands
  <2>1. [manager |-> None, callback |-> c] \in Entries
    BY DEF Entries
  <2> QED
    BY <1>4, <2>1, Failed DEF Refused, Drops
<1>5. ASSUME NEW c \in Clients,
             Proceeds(c) \/ Connects(c) \/ Listens(c) \/ CancelsLate(c) \/ AdbCloseRuns(c)
      PROVE  Native' /\ Stop' /\ Hands
  BY <1>5 DEF Proceeds, Connects, Listens, CancelsLate, Cancels, AdbCloseRuns, Native, Stop, Stays
<1>6. ASSUME NEW c \in Clients, Begins(c)
      PROVE  Native' /\ Stop' /\ Hands
  BY <1>6 DEF Begins, StartsNative, Native, Stop, Drops
<1>7. ASSUME NEW c \in Clients, Resets(c)
      PROVE  Native' /\ Stop' /\ Hands
  BY <1>7, Nothing DEF Resets, StopsNative, Native, Entries, Stop, Drops
<1>8. ASSUME NEW c \in Clients, Settled(c)
      PROVE  Native' /\ Stop' /\ Hands
  <2>1. UNCHANGED life
    BY <1>8, Settlements
  <2>2. <<c, "catch">> \in Stops
    BY DEF Stops
  <2>3. CASE UNCHANGED <<native, stop>>
    BY <2>1, <2>3 DEF Native, Stop, Stays
  <2>4. CASE native' = NothingNative /\ stop' = [stop EXCEPT ![<<c, "catch">>] = Taken(native)]
    <3>1. Native' /\ native'.manager = None
      BY <2>4, Nothing DEF Native, Entries
    <3>2. Stop' /\ Takes(<<c, "catch">>)
      BY <1>n, <2>1, <2>2, <2>4, <3>1, Takings DEF Stop, Takes
    <3> QED
      BY <2>2, <3>1, <3>2
  <2> QED
    BY <1>8, <2>3, <2>4, Settlements
<1>9. ASSUME NEW c \in Clients, WorkPublishes(c)
      PROVE  Native' /\ Stop' /\ Hands
  <2>1. ManagerOf(c) \in Managers
    BY DEF ManagerOf, Managers
  <2> QED
    BY <1>9, <2>1 DEF WorkPublishes, Native, Stop
<1>10. ASSUME NEW c \in Clients, WorkStarts(c)
      PROVE  Native' /\ Stop' /\ Hands
  BY <1>10 DEF WorkStarts, Native, Stop
<1>11. ASSUME NEW u \in Stops, StopRuns(u)
      PROVE  Native' /\ Stop' /\ Hands
  <2>1. [Taken(NothingNative) EXCEPT !.at = "back"] \in Taking
    BY DEF Taken, NothingNative, Taking
  <2> QED
    BY <1>11, <2>1 DEF StopRuns, Native, Stop
<1>12. ASSUME NEW u \in Stops, StopCloses(u)
      PROVE  Native' /\ Stop' /\ Hands
  BY <1>12 DEF StopCloses, Native, Stop, Taking, Stays
<1>13. CASE UNCHANGED vars
  BY <1>13 DEF vars, Native, Stop, Stays
<1> QED
  BY <1>1, <1>3, <1>4, <1>5, <1>6, <1>7, <1>8, <1>9, <1>10, <1>11, <1>12, <1>13, StepKinds DEF Kinds

\* The work of a start that has begun does not come again: what is ahead of a start was ahead of it.
LEMMA AheadKept ==
  ASSUME IInv, [Next]_vars
  PROVE  \A d \in Clients :
               (ReverseAhead(d)' => ReverseAhead(d)) /\ (ForwardAhead(d)' => ForwardAhead(d))
<1> USE SessionsAssumption DEF IInv, ReverseAhead, ForwardAhead, Early
<1>1. ASSUME NEW c \in Clients, Register(c)
      PROVE  \A d \in Clients :
               (ReverseAhead(d)' => ReverseAhead(d)) /\ (ForwardAhead(d)' => ForwardAhead(d))
  BY <1>1, Registrations DEF Client, Work, Idle, Waits, Current
<1>2. ASSUME NEW c \in Clients, StopSession(c)
      PROVE  \A d \in Clients :
               (ReverseAhead(d)' => ReverseAhead(d)) /\ (ForwardAhead(d)' => ForwardAhead(d))
  BY <1>2, PageStops DEF Client, Work, Idle, Waits, StopSession
<1>3. ASSUME NEW c \in Clients, Proceeds(c)
      PROVE  \A d \in Clients :
               (ReverseAhead(d)' => ReverseAhead(d)) /\ (ForwardAhead(d)' => ForwardAhead(d))
  BY <1>3, Proceedings DEF Client, Work, Idle, Waits, Proceeds, Edge, Ready, Early
<1>4. ASSUME NEW c \in Clients, Breaks(c)
      PROVE  \A d \in Clients :
               (ReverseAhead(d)' => ReverseAhead(d)) /\ (ForwardAhead(d)' => ForwardAhead(d))
  BY <1>4, Failures DEF Client, Work, Idle, Waits, Breaks
<1>5. ASSUME NEW c \in Clients, Unprepared(c)
      PROVE  \A d \in Clients :
               (ReverseAhead(d)' => ReverseAhead(d)) /\ (ForwardAhead(d)' => ForwardAhead(d))
  BY <1>5, Unpreparings DEF Client, Work, Idle, Waits, Unprepared, ClosesAdb
<1>6. ASSUME NEW c \in Clients, Connects(c)
      PROVE  \A d \in Clients :
               (ReverseAhead(d)' => ReverseAhead(d)) /\ (ForwardAhead(d)' => ForwardAhead(d))
  BY <1>6, Goings DEF Client, Work, Idle, Waits, Connects, Session, Places
<1>7. ASSUME NEW c \in Clients, Listens(c)
      PROVE  \A d \in Clients :
               (ReverseAhead(d)' => ReverseAhead(d)) /\ (ForwardAhead(d)' => ForwardAhead(d))
  BY <1>7, Listenings DEF Client, Work, Idle, Waits, Listens
<1>8. ASSUME NEW c \in Clients, CancelsLate(c)
      PROVE  \A d \in Clients :
               (ReverseAhead(d)' => ReverseAhead(d)) /\ (ForwardAhead(d)' => ForwardAhead(d))
  BY <1>8, Cancellings DEF Client, Work, Idle, Waits, CancelsLate, ClosesAdb
<1>9. ASSUME NEW c \in Clients, Begins(c)
      PROVE  \A d \in Clients :
               (ReverseAhead(d)' => ReverseAhead(d)) /\ (ForwardAhead(d)' => ForwardAhead(d))
  BY <1>9, Goings DEF Client, Work, Idle, Waits, Begins, StartsNative, Places
<1>10. ASSUME NEW c \in Clients, Resets(c)
      PROVE  \A d \in Clients :
               (ReverseAhead(d)' => ReverseAhead(d)) /\ (ForwardAhead(d)' => ForwardAhead(d))
  BY <1>10, Goings DEF Client, Work, Idle, Waits, Resets, StopsNative, Edge, Ready, Early
<1>11. ASSUME NEW c \in Clients, Refused(c)
      PROVE  \A d \in Clients :
               (ReverseAhead(d)' => ReverseAhead(d)) /\ (ForwardAhead(d)' => ForwardAhead(d))
  BY <1>11, Failures DEF Client, Work, Idle, Waits, Refused
<1>12. ASSUME NEW c \in Clients, Settled(c)
      PROVE  \A d \in Clients :
               (ReverseAhead(d)' => ReverseAhead(d)) /\ (ForwardAhead(d)' => ForwardAhead(d))
  BY <1>12, Settlements DEF Client, Work, Idle, Waits
<1>13. ASSUME NEW c \in Clients, WorkPublishes(c)
      PROVE  \A d \in Clients :
               (ReverseAhead(d)' => ReverseAhead(d)) /\ (ForwardAhead(d)' => ForwardAhead(d))
  BY <1>13 DEF Client, Work, Idle, Waits, WorkPublishes
<1>14. ASSUME NEW c \in Clients, WorkStarts(c)
      PROVE  \A d \in Clients :
               (ReverseAhead(d)' => ReverseAhead(d)) /\ (ForwardAhead(d)' => ForwardAhead(d))
  BY <1>14 DEF Client, Work, Idle, Waits, WorkStarts, ManagerOf, At
<1>15. ASSUME NEW t \in Stops, StopCloses(t)
      PROVE  \A d \in Clients :
               (ReverseAhead(d)' => ReverseAhead(d)) /\ (ForwardAhead(d)' => ForwardAhead(d))
  BY <1>15, Releases DEF Client, Work, Idle, Waits, StopCloses, ClosesAdb, Session, Stops
<1>16. CASE UNCHANGED <<client, work>>
  BY <1>16 DEF Client
<1>17. ASSUME NEW c \in Clients, AdbCloseRuns(c)
      PROVE  \A d \in Clients :
               (ReverseAhead(d)' => ReverseAhead(d)) /\ (ForwardAhead(d)' => ForwardAhead(d))
  BY <1>16, <1>17 DEF AdbCloseRuns
<1>18. ASSUME NEW t \in Stops, StopRuns(t)
      PROVE  \A d \in Clients :
               (ReverseAhead(d)' => ReverseAhead(d)) /\ (ForwardAhead(d)' => ForwardAhead(d))
  BY <1>16, <1>18 DEF StopRuns
<1> QED
  BY StepKinds, <1>1, <1>2, <1>3, <1>4, <1>5, <1>6, <1>7, <1>8, <1>9, <1>10, <1>11, <1>12, <1>13, <1>14,
     <1>15, <1>16, <1>17, <1>18 DEF Kinds, vars

\* currentClient is a client or none.
LEMMA CurrentKept ==
  ASSUME IInv, [Next]_vars
  PROVE  Current'
<1> USE SessionsAssumption DEF IInv, Current
<1>1. ASSUME NEW c \in Clients, Register(c)
      PROVE  Current'
  BY <1>1, Registrations DEF Register, Current
<1>2. ASSUME NEW c \in Clients, StopSession(c)
      PROVE  Current'
  BY <1>2, PageStops DEF StopSession
<1>3. CASE UNCHANGED <<current>>
  BY <1>3 DEF Client
<1>4. ASSUME NEW c \in Clients,
             Proceeds(c) \/ Breaks(c) \/ Unprepared(c) \/ Connects(c) \/ Listens(c)
             \/ CancelsLate(c) \/ Begins(c) \/ Resets(c) \/ Refused(c) \/ Settled(c)
             \/ WorkPublishes(c) \/ WorkStarts(c) \/ AdbCloseRuns(c)
      PROVE  Current'
  BY <1>3, <1>4 DEF Proceeds, Idle, Breaks, Fails, Unprepared, PrepareFails, ClosesAdb, Connects, Goes,
     Listens, CancelsLate, Cancels, Begins, StartsNative, Resets, StopsNative, Refused, Settled, Settles,
     WorkPublishes, WorkStarts, AdbCloseRuns
<1>5. ASSUME NEW t \in Stops, StopRuns(t) \/ StopCloses(t)
      PROVE  Current'
  BY <1>3, <1>5 DEF StopRuns, StopCloses, ClosesAdb
<1> QED
  BY StepKinds, <1>1, <1>2, <1>3, <1>4, <1>5 DEF Kinds, vars

\* The record of each client, by what its kind of step does to it.
LEMMA ClientKept ==
  ASSUME IInv, [Next]_vars
  PROVE  Client'
<1> USE SessionsAssumption DEF IInv, Client
<1>1. ASSUME NEW c \in Clients, Register(c)
      PROVE  Client'
  BY <1>1, Registrations DEF Places, Current
<1>2. ASSUME NEW c \in Clients, StopSession(c)
      PROVE  Client'
  BY <1>2, PageStops DEF Places, StopSession
<1>3. ASSUME NEW c \in Clients, Proceeds(c)
      PROVE  Client'
  BY <1>3, Proceedings DEF Places, Proceeds, Edge, Ready, Early
<1>4. ASSUME NEW c \in Clients, Breaks(c)
      PROVE  Client'
  BY <1>4, Failures DEF Places, Breaks
<1>5. ASSUME NEW c \in Clients, Unprepared(c)
      PROVE  Client'
  BY <1>5, Unpreparings DEF Places, Unprepared, ClosesAdb
<1>6. ASSUME NEW c \in Clients, Connects(c)
      PROVE  Client'
  BY <1>6, Goings DEF Places, Connects, Session
<1>7. ASSUME NEW c \in Clients, Listens(c)
      PROVE  Client'
  BY <1>7, Listenings DEF Places, Listens
<1>8. ASSUME NEW c \in Clients, CancelsLate(c)
      PROVE  Client'
  BY <1>8, Cancellings DEF Places, CancelsLate, ClosesAdb
<1>9. ASSUME NEW c \in Clients, Begins(c)
      PROVE  Client'
  BY <1>9, Goings DEF Places, Begins, StartsNative
<1>10. ASSUME NEW c \in Clients, Resets(c)
      PROVE  Client'
  BY <1>10, Goings DEF Places, Resets, StopsNative, Edge, Ready, Early
<1>11. ASSUME NEW c \in Clients, Refused(c)
      PROVE  Client'
  BY <1>11, Failures DEF Places, Refused
<1>12. ASSUME NEW c \in Clients, Settled(c)
      PROVE  Client'
  BY <1>12, Settlements DEF Places
<1>13. ASSUME NEW t \in Stops, StopCloses(t)
      PROVE  Client'
  BY <1>13, Releases DEF Places, StopCloses, ClosesAdb, Session, Stops
<1>14. CASE UNCHANGED <<client>>
  BY <1>14 DEF Client
<1>15. ASSUME NEW c \in Clients, WorkPublishes(c) \/ WorkStarts(c) \/ AdbCloseRuns(c)
      PROVE  Client'
  BY <1>14, <1>15 DEF WorkPublishes, WorkStarts, AdbCloseRuns
<1>16. ASSUME NEW t \in Stops, StopRuns(t)
      PROVE  Client'
  BY <1>14, <1>16 DEF StopRuns
<1> QED
  BY StepKinds, <1>1, <1>2, <1>3, <1>4, <1>5, <1>6, <1>7, <1>8, <1>9, <1>10, <1>11, <1>12, <1>13, <1>14,
     <1>15, <1>16 DEF Kinds, vars

\* The connections.
LEMMA AdbKept ==
  ASSUME IInv, [Next]_vars
  PROVE  Adb'
<1> USE SessionsAssumption DEF IInv, Adb
<1>1. ASSUME NEW c \in Clients, Unprepared(c)
      PROVE  Adb'
  BY <1>1, Unpreparings DEF Unprepared, ClosesAdb
<1>2. ASSUME NEW c \in Clients, Connects(c)
      PROVE  Adb'
  BY <1>2, Goings DEF Connects
<1>3. ASSUME NEW c \in Clients, CancelsLate(c)
      PROVE  Adb'
  BY <1>3, Cancellings DEF CancelsLate, ClosesAdb
<1>4. ASSUME NEW c \in Clients, AdbCloseRuns(c)
      PROVE  Adb'
  BY <1>4 DEF AdbCloseRuns
<1>5. ASSUME NEW t \in Stops, StopCloses(t)
      PROVE  Adb'
  BY <1>5, Releases DEF StopCloses, ClosesAdb, Session, Stops
<1>6. CASE UNCHANGED <<adb>>
  BY <1>6 DEF Client
<1>7. ASSUME NEW c \in Clients,
             Register(c) \/ StopSession(c) \/ Proceeds(c) \/ Breaks(c) \/ Listens(c) \/ Begins(c)
             \/ Resets(c) \/ Refused(c) \/ Settled(c) \/ WorkPublishes(c) \/ WorkStarts(c)
      PROVE  Adb'
  BY <1>6, <1>7 DEF Register, StopSession, Proceeds, Idle, Breaks, Fails, Listens, Begins, StartsNative,
     Resets, StopsNative, Refused, Settled, Settles, WorkPublishes, WorkStarts
<1>8. ASSUME NEW t \in Stops, StopRuns(t)
      PROVE  Adb'
  BY <1>6, <1>8 DEF StopRuns
<1> QED
  BY StepKinds, <1>1, <1>2, <1>3, <1>4, <1>5, <1>6, <1>7, <1>8 DEF Kinds, vars

\* The works.
LEMMA WorkKept ==
  ASSUME IInv, [Next]_vars
  PROVE  Work'
<1> USE SessionsAssumption DEF IInv, Work
<1>1. ASSUME NEW c \in Clients, Proceeds(c)
      PROVE  Work'
  BY <1>1, Proceedings DEF Idle, Proceeds, Edge, Ready, Early
<1>2. ASSUME NEW c \in Clients, Breaks(c)
      PROVE  Work'
  BY <1>2, Failures DEF Idle, Breaks
<1>3. ASSUME NEW c \in Clients, Unprepared(c)
      PROVE  Work'
  BY <1>3, Unpreparings DEF Idle, Unprepared, ClosesAdb
<1>4. ASSUME NEW c \in Clients, Begins(c)
      PROVE  Work'
  BY <1>4, Goings DEF Idle, Begins, StartsNative, Places
<1>5. ASSUME NEW c \in Clients, Resets(c)
      PROVE  Work'
  BY <1>5, Goings DEF Idle, Resets, StopsNative, Edge, Ready, Early
<1>6. ASSUME NEW c \in Clients, WorkPublishes(c)
      PROVE  Work'
  BY <1>6 DEF Idle, WorkPublishes
<1>7. ASSUME NEW c \in Clients, WorkStarts(c)
      PROVE  Work'
  BY <1>7 DEF Idle, WorkStarts
<1>8. CASE UNCHANGED <<work>>
  BY <1>8 DEF Client
<1>9. ASSUME NEW c \in Clients,
             Register(c) \/ StopSession(c) \/ Connects(c) \/ Listens(c) \/ CancelsLate(c)
             \/ Refused(c) \/ Settled(c) \/ AdbCloseRuns(c)
      PROVE  Work'
  BY <1>8, <1>9 DEF Register, StopSession, Connects, Goes, Listens, CancelsLate, Cancels, ClosesAdb,
     Refused, Fails, Settled, Settles, AdbCloseRuns
<1>10. ASSUME NEW t \in Stops, StopRuns(t) \/ StopCloses(t)
      PROVE  Work'
  BY <1>8, <1>10 DEF StopRuns, StopCloses, ClosesAdb
<1> QED
  BY StepKinds, <1>1, <1>2, <1>3, <1>4, <1>5, <1>6, <1>7, <1>8, <1>9, <1>10 DEF Kinds, vars

\* The managers.
LEMMA LifeKept ==
  ASSUME IInv, [Next]_vars
  PROVE  Life'
<1> USE SessionsAssumption DEF IInv, Life
<1>1. ASSUME NEW c \in Clients, Begins(c)
      PROVE  Life'
  BY <1>1, Goings DEF Native, Stop, Taking, Destroyed, Begins, StartsNative, Places
<1>2. ASSUME NEW c \in Clients, Resets(c)
      PROVE  Life'
  BY <1>2, Goings DEF Native, Stop, Taking, Destroyed, Resets, StopsNative, Edge, Ready, Early
<1>3. ASSUME NEW c \in Clients, Refused(c)
      PROVE  Life'
  BY <1>3, Failures DEF Native, Stop, Taking, Destroyed, Refused
<1>4. ASSUME NEW c \in Clients, WorkPublishes(c)
      PROVE  Life'
  BY <1>4 DEF Native, Stop, Taking, Destroyed, WorkPublishes
<1>5. ASSUME NEW c \in Clients, WorkStarts(c)
      PROVE  Life'
  BY <1>5 DEF Native, Stop, Taking, Destroyed, WorkStarts
<1>6. ASSUME NEW t \in Stops, StopRuns(t)
      PROVE  Life'
  BY <1>6 DEF Native, Stop, Taking, Destroyed, StopRuns
<1>7. CASE UNCHANGED <<life>>
  BY <1>7 DEF Client
<1>8. ASSUME NEW c \in Clients,
             Register(c) \/ StopSession(c) \/ Proceeds(c) \/ Breaks(c) \/ Unprepared(c)
             \/ Connects(c) \/ Listens(c) \/ CancelsLate(c) \/ Settled(c) \/ AdbCloseRuns(c)
      PROVE  Life'
  BY <1>7, <1>8 DEF Register, StopSession, Proceeds, Idle, Breaks, Fails, Unprepared, PrepareFails,
     ClosesAdb, Connects, Goes, Listens, CancelsLate, Cancels, Settled, Settles, AdbCloseRuns
<1>9. ASSUME NEW t \in Stops, StopCloses(t)
      PROVE  Life'
  BY <1>7, <1>9 DEF StopCloses, ClosesAdb
<1> QED
  BY StepKinds, <1>1, <1>2, <1>3, <1>4, <1>5, <1>6, <1>7, <1>8, <1>9 DEF Kinds, vars

\* A manager captures the callback of a client, or none.
LEMMA HearsKept ==
  ASSUME IInv, [Next]_vars
  PROVE  Hears'
<1> USE SessionsAssumption DEF IInv, Hears
<1>1. ASSUME NEW c \in Clients, WorkStarts(c)
      PROVE  Hears'
  <2>1. native.callback \in Clients \cup {None}
    BY DEF Native
  <2> QED
    BY <1>1, <2>1 DEF WorkStarts
<1>2. CASE UNCHANGED <<hears>>
  BY <1>2 DEF Client
<1>3. ASSUME NEW c \in Clients,
             Register(c) \/ StopSession(c) \/ Proceeds(c) \/ Breaks(c) \/ Unprepared(c)
             \/ Connects(c) \/ Listens(c) \/ CancelsLate(c) \/ Begins(c) \/ Resets(c) \/ Refused(c)
             \/ Settled(c) \/ WorkPublishes(c) \/ AdbCloseRuns(c)
      PROVE  Hears'
  BY <1>2, <1>3 DEF Register, StopSession, Proceeds, Idle, Breaks, Fails, Unprepared, PrepareFails,
     ClosesAdb, Connects, Goes, Listens, CancelsLate, Cancels, Begins, StartsNative, Resets, StopsNative,
     Refused, Settled, Settles, WorkPublishes, AdbCloseRuns
<1>4. ASSUME NEW t \in Stops, StopRuns(t) \/ StopCloses(t)
      PROVE  Hears'
  BY <1>2, <1>4 DEF StopRuns, StopCloses, ClosesAdb
<1> QED
  BY StepKinds, <1>1, <1>2, <1>3, <1>4 DEF Kinds, vars

\* A client has a number only while its connection is open.
LEMMA HoldingKept ==
  ASSUME IInv, [Next]_vars
  PROVE  Holding'
<1> USE SessionsAssumption DEF IInv, Holding
<1>1. ASSUME NEW c \in Clients, Register(c)
      PROVE  Holding'
  BY <1>1, Registrations DEF Client, Adb, Current
<1>2. ASSUME NEW c \in Clients, StopSession(c)
      PROVE  Holding'
  BY <1>2, PageStops DEF Client, Adb, StopSession
<1>3. ASSUME NEW c \in Clients, Proceeds(c)
      PROVE  Holding'
  BY <1>3, Proceedings DEF Client, Adb, Proceeds, Edge, Ready, Early
<1>4. ASSUME NEW c \in Clients, Breaks(c)
      PROVE  Holding'
  BY <1>4, Failures DEF Client, Adb, Breaks
<1>5. ASSUME NEW c \in Clients, Unprepared(c)
      PROVE  Holding'
  BY <1>5, Unpreparings DEF Client, Adb, Unprepared, ClosesAdb
<1>6. ASSUME NEW c \in Clients, Connects(c)
      PROVE  Holding'
  BY <1>6, Goings DEF Client, Adb, Connects, Session, Places
<1>7. ASSUME NEW c \in Clients, Listens(c)
      PROVE  Holding'
  <2>1. /\ client'[c].at = "reverse_server" /\ client'[c].holds = client[c].holds
        /\ \A d \in Clients : d # c => client'[d] = client[d]
    BY <1>7, Listenings
  <2>2. adb' = adb
    BY <1>7 DEF Listens
  <2> QED
    BY <2>1, <2>2
<1>8. ASSUME NEW c \in Clients, CancelsLate(c)
      PROVE  Holding'
  BY <1>8, Cancellings DEF Client, Adb, CancelsLate, ClosesAdb
<1>9. ASSUME NEW c \in Clients, Begins(c)
      PROVE  Holding'
  BY <1>9, Goings DEF Client, Adb, Begins, StartsNative, Places
<1>10. ASSUME NEW c \in Clients, Resets(c)
      PROVE  Holding'
  BY <1>10, Goings DEF Client, Adb, Resets, StopsNative, Edge, Ready, Early
<1>11. ASSUME NEW c \in Clients, Refused(c)
      PROVE  Holding'
  BY <1>11, Failures DEF Client, Adb, Refused
<1>12. ASSUME NEW c \in Clients, Settled(c)
      PROVE  Holding'
  BY <1>12, Settlements DEF Client, Adb
<1>13. ASSUME NEW c \in Clients, AdbCloseRuns(c)
      PROVE  Holding'
  BY <1>13 DEF Client, Adb, AdbCloseRuns
<1>14. ASSUME NEW t \in Stops, StopCloses(t)
      PROVE  Holding'
  BY <1>14, Releases DEF Client, Adb, StopCloses, ClosesAdb, Session, Stops
<1>15. CASE UNCHANGED <<client, adb>>
  BY <1>15 DEF Client
<1>16. ASSUME NEW c \in Clients, WorkPublishes(c) \/ WorkStarts(c)
      PROVE  Holding'
  BY <1>15, <1>16 DEF WorkPublishes, WorkStarts
<1>17. ASSUME NEW t \in Stops, StopRuns(t)
      PROVE  Holding'
  BY <1>15, <1>17 DEF StopRuns
<1> QED
  BY StepKinds, <1>1, <1>2, <1>3, <1>4, <1>5, <1>6, <1>7, <1>8, <1>9, <1>10, <1>11, <1>12, <1>13, <1>14,
     <1>15, <1>16, <1>17 DEF Kinds, vars

\* The promise is there before the server is started.
LEMMA AskedKept ==
  ASSUME IInv, [Next]_vars
  PROVE  Asked'
<1> USE SessionsAssumption DEF IInv, Asked
<1>1. ASSUME NEW c \in Clients, Register(c)
      PROVE  Asked'
  BY <1>1, Registrations DEF Client, Current
<1>2. ASSUME NEW c \in Clients, StopSession(c)
      PROVE  Asked'
  BY <1>2, PageStops DEF Client, StopSession
<1>3. ASSUME NEW c \in Clients, Proceeds(c)
      PROVE  Asked'
  BY <1>3, Proceedings DEF Client, Proceeds, Edge, Ready, Early
<1>4. ASSUME NEW c \in Clients, Breaks(c)
      PROVE  Asked'
  BY <1>4, Failures DEF Client, Breaks
<1>5. ASSUME NEW c \in Clients, Unprepared(c)
      PROVE  Asked'
  BY <1>5, Unpreparings DEF Client, Unprepared, ClosesAdb
<1>6. ASSUME NEW c \in Clients, Connects(c)
      PROVE  Asked'
  BY <1>6, Goings DEF Client, Connects, Session, Places
<1>7. ASSUME NEW c \in Clients, Listens(c)
      PROVE  Asked'
  BY <1>7, Listenings DEF Client, Listens
<1>8. ASSUME NEW c \in Clients, CancelsLate(c)
      PROVE  Asked'
  BY <1>8, Cancellings DEF Client, CancelsLate, ClosesAdb
<1>9. ASSUME NEW c \in Clients, Begins(c)
      PROVE  Asked'
  BY <1>9, Goings DEF Client, Begins, StartsNative, Places
<1>10. ASSUME NEW c \in Clients, Resets(c)
      PROVE  Asked'
  BY <1>10, Goings DEF Client, Resets, StopsNative, Edge, Ready, Early
<1>11. ASSUME NEW c \in Clients, Refused(c)
      PROVE  Asked'
  BY <1>11, Failures DEF Client, Refused
<1>12. ASSUME NEW c \in Clients, Settled(c)
      PROVE  Asked'
  BY <1>12, Settlements DEF Client
<1>13. ASSUME NEW t \in Stops, StopCloses(t)
      PROVE  Asked'
  BY <1>13, Releases DEF Client, StopCloses, ClosesAdb, Session, Stops
<1>14. CASE UNCHANGED <<client>>
  BY <1>14 DEF Client
<1>15. ASSUME NEW c \in Clients, WorkPublishes(c) \/ WorkStarts(c) \/ AdbCloseRuns(c)
      PROVE  Asked'
  BY <1>14, <1>15 DEF WorkPublishes, WorkStarts, AdbCloseRuns
<1>16. ASSUME NEW t \in Stops, StopRuns(t)
      PROVE  Asked'
  BY <1>14, <1>16 DEF StopRuns
<1> QED
  BY StepKinds, <1>1, <1>2, <1>3, <1>4, <1>5, <1>6, <1>7, <1>8, <1>9, <1>10, <1>11, <1>12, <1>13, <1>14,
     <1>15, <1>16 DEF Kinds, vars

\* Every kind of step leaves the works where they are awaited.
LEMMA WaitsKept ==
  ASSUME IInv, [Next]_vars
  PROVE  Waits'
<1> USE SessionsAssumption DEF IInv, Waits
<1>1. ASSUME NEW c \in Clients, Register(c)
      PROVE  Waits'
  BY <1>1, Registrations DEF Client, Work, Idle, Current
<1>2. ASSUME NEW c \in Clients, StopSession(c)
      PROVE  Waits'
  BY <1>2, PageStops DEF Client, Work, Idle, StopSession
<1>3. ASSUME NEW c \in Clients, Proceeds(c)
      PROVE  Waits'
  BY <1>3, Proceedings DEF Client, Work, Idle, Proceeds, Edge, Ready, Early
<1>4. ASSUME NEW c \in Clients, Breaks(c)
      PROVE  Waits'
  BY <1>4, Failures DEF Client, Work, Idle, Breaks
<1>5. ASSUME NEW c \in Clients, Unprepared(c)
      PROVE  Waits'
  BY <1>5, Unpreparings DEF Client, Work, Idle, Unprepared, ClosesAdb
<1>6. ASSUME NEW c \in Clients, Connects(c)
      PROVE  Waits'
  <2>1. client[c].at = "creating" /\ work' = work
    BY <1>6 DEF Connects
  <2>2. \A d \in Clients : d # c => client'[d] = client[d]
    BY <1>6 DEF Connects, Client, Goes
  <2>3. work[c] = "none"
    BY <2>1 DEF Waits
  <2> QED
    BY <2>1, <2>2, <2>3 DEF Waits
<1>7. ASSUME NEW c \in Clients, Listens(c)
      PROVE  Waits'
  BY <1>7, Listenings DEF Client, Work, Idle, Listens
<1>8. ASSUME NEW c \in Clients, CancelsLate(c)
      PROVE  Waits'
  BY <1>8, Cancellings DEF Client, Work, Idle, CancelsLate, ClosesAdb
<1>9. ASSUME NEW c \in Clients, Begins(c)
      PROVE  Waits'
  BY <1>9, Goings DEF Client, Work, Idle, Begins, StartsNative, Places
<1>10. ASSUME NEW c \in Clients, Resets(c)
      PROVE  Waits'
  BY <1>10, Goings DEF Client, Work, Idle, Resets, StopsNative, Edge, Ready, Early
<1>11. ASSUME NEW c \in Clients, Refused(c)
      PROVE  Waits'
  BY <1>11, Failures DEF Client, Work, Idle, Refused
<1>12. ASSUME NEW c \in Clients, Settled(c)
      PROVE  Waits'
  BY <1>12, Settlements DEF Client, Work, Idle
<1>13. ASSUME NEW c \in Clients, WorkPublishes(c)
      PROVE  Waits'
  BY <1>13 DEF Client, Work, Idle, WorkPublishes
<1>14. ASSUME NEW c \in Clients, WorkStarts(c)
      PROVE  Waits'
  BY <1>14 DEF Client, Work, Idle, WorkStarts
<1>15. ASSUME NEW t \in Stops, StopCloses(t)
      PROVE  Waits'
  BY <1>15, Releases DEF Client, Work, Idle, StopCloses, ClosesAdb, Session, Stops
<1>16. CASE UNCHANGED <<client, work>>
  BY <1>16 DEF Client
<1>17. ASSUME NEW c \in Clients, AdbCloseRuns(c)
      PROVE  Waits'
  BY <1>16, <1>17 DEF AdbCloseRuns
<1>18. ASSUME NEW t \in Stops, StopRuns(t)
      PROVE  Waits'
  BY <1>16, <1>18 DEF StopRuns
<1> QED
  BY StepKinds, <1>1, <1>2, <1>3, <1>4, <1>5, <1>6, <1>7, <1>8, <1>9, <1>10, <1>11, <1>12, <1>13, <1>14,
     <1>15, <1>16, <1>17, <1>18 DEF Kinds, vars

\* Only a start undoes a stop, and registering a client stops the one before it.
Revived(d) == client[d].at = "registered" /\ client[d].stopped
Replaced ==
  \A d \in Clients : client'[d].at # "new" /\ d # current' /\ ~client'[d].stopped
                       => (client[d].at # "new" /\ d # current /\ ~client[d].stopped) \/ Revived(d)

LEMMA SessionStep ==
  ASSUME IInv, [Next]_vars
  PROVE  Replaced
<1> USE SessionsAssumption DEF IInv, Replaced, Revived
<1>1. ASSUME NEW c \in Clients, Register(c)
      PROVE  Replaced
  BY <1>1, Registrations DEF Client, Current, At
<1>2. ASSUME NEW c \in Clients, StopSession(c)
      PROVE  Replaced
  BY <1>2, PageStops DEF Client, Current, At, StopSession
<1>3. ASSUME NEW c \in Clients, Proceeds(c)
      PROVE  Replaced
  BY <1>3, Proceedings DEF Client, Current, At, Proceeds, Edge, Ready, Early
<1>4. ASSUME NEW c \in Clients, Breaks(c)
      PROVE  Replaced
  BY <1>4, Failures DEF Client, Current, At, Breaks
<1>5. ASSUME NEW c \in Clients, Unprepared(c)
      PROVE  Replaced
  BY <1>5, Unpreparings DEF Client, Current, At, Unprepared, ClosesAdb
<1>6. ASSUME NEW c \in Clients, Connects(c)
      PROVE  Replaced
  BY <1>6, Goings DEF Client, Current, At, Connects, Session, Places
<1>7. ASSUME NEW c \in Clients, Listens(c)
      PROVE  Replaced
  BY <1>7, Listenings DEF Client, Current, At, Listens
<1>8. ASSUME NEW c \in Clients, CancelsLate(c)
      PROVE  Replaced
  BY <1>8, Cancellings DEF Client, Current, At, CancelsLate, ClosesAdb
<1>9. ASSUME NEW c \in Clients, Begins(c)
      PROVE  Replaced
  BY <1>9, Goings DEF Client, Current, At, Begins, StartsNative, Places
<1>10. ASSUME NEW c \in Clients, Resets(c)
      PROVE  Replaced
  BY <1>10, Goings DEF Client, Current, At, Resets, StopsNative, Edge, Ready, Early
<1>11. ASSUME NEW c \in Clients, Refused(c)
      PROVE  Replaced
  BY <1>11, Failures DEF Client, Current, At, Refused
<1>12. ASSUME NEW c \in Clients, Settled(c)
      PROVE  Replaced
  BY <1>12, Settlements
<1>13. ASSUME NEW t \in Stops, StopCloses(t)
      PROVE  Replaced
  BY <1>13, Releases DEF Client, Current, At, StopCloses, ClosesAdb, Session, Stops
<1>14. CASE UNCHANGED <<client, current>>
  BY <1>14 DEF At, Client
<1>15. ASSUME NEW c \in Clients, WorkPublishes(c) \/ WorkStarts(c) \/ AdbCloseRuns(c)
      PROVE  Replaced
  BY <1>14, <1>15 DEF WorkPublishes, WorkStarts, AdbCloseRuns
<1>16. ASSUME NEW t \in Stops, StopRuns(t)
      PROVE  Replaced
  BY <1>14, <1>16 DEF StopRuns
<1> QED
  BY StepKinds, <1>1, <1>2, <1>3, <1>4, <1>5, <1>6, <1>7, <1>8, <1>9, <1>10, <1>11, <1>12, <1>13, <1>14,
     <1>15, <1>16 DEF Kinds, vars

\* A manager that is nowhere stays so, unless its own work publishes it.
LEMMA FreshKept ==
  ASSUME IInv, [Next]_vars
  PROVE  Fresh'
<1> USE SessionsAssumption DEF IInv
<1> SUFFICES ASSUME NEW m \in Managers, Unborn(m),
                    \A c \in Clients : WorkPublishes(c) \/ WorkStarts(c) => ManagerOf(c) # m
             PROVE  Unborn(m)'
  <2>1. \A c \in Clients : <<c, "reverse">> \in Managers /\ <<c, "forward">> \in Managers
    BY DEF Managers
  <2>2. ASSUME NEW c \in Clients, NEW d \in Clients, WorkPublishes(c) \/ WorkStarts(c)
        PROVE  /\ ReverseAhead(d)' => ManagerOf(c) # <<d, "reverse">>
               /\ ForwardAhead(d)' => ManagerOf(c) # <<d, "forward">>
    <3>1. work'[c] # "queued" /\ client' = client /\ work[c] # "none"
      BY <2>2 DEF WorkPublishes, WorkStarts, Work
    <3>2. client[c].at \in {"reverse_starting", "forward_starting"}
      BY <3>1 DEF Waits
    <3> QED
      BY <3>1, <3>2 DEF ReverseAhead, ForwardAhead, Early, ManagerOf, At
  <2>3. \A d \in Clients : (ReverseAhead(d)' => ReverseAhead(d)) /\ (ForwardAhead(d)' => ForwardAhead(d))
    BY AheadKept
  <2> QED
    BY <2>1, <2>2, <2>3 DEF Fresh
<1>1. m # None
  OBVIOUS
<1>2. CASE Stays
  BY <1>2 DEF Stays, Unborn
<1>3. ASSUME NEW u \in Stops, Takes(u)
      PROVE  Unborn(m)'
  BY <1>1, <1>3 DEF Takes, Unborn
<1>4. CASE Drops
  BY <1>1, <1>4 DEF Drops, Unborn, Destroyed, Life
<1>5. ASSUME NEW c \in Clients, WorkPublishes(c)
      PROVE  Unborn(m)'
  <2>1. ManagerOf(c) # m
    BY <1>5
  <2> QED
    BY <1>5, <2>1 DEF WorkPublishes, Unborn, Native, Life
<1>6. ASSUME NEW c \in Clients, WorkStarts(c)
      PROVE  Unborn(m)'
  <2>1. ManagerOf(c) # m
    BY <1>6
  <2> QED
    BY <1>6, <2>1 DEF WorkStarts, Unborn, Life
<1>7. ASSUME NEW u \in Stops, StopRuns(u)
      PROVE  Unborn(m)'
  BY <1>1, <1>7 DEF StopRuns, Unborn, Destroyed, Life, Stop, Taken, NothingNative
<1> QED
  BY <1>2, <1>3, <1>4, <1>5, <1>6, <1>7, HandKinds DEF Hands

\* A manager changes hands, and is deleted by the one who has it: only Fresh excludes that a
\* work publishes a manager that was deleted or taken.
LEMMA DeletedOnceKept ==
  ASSUME IInv, [Next]_vars
  PROVE  DeletedOnce'
<1> USE SessionsAssumption DEF IInv
<1> SUFFICES ASSUME NEW m \in Managers
             PROVE  /\ \A t, u \in Stops : stop'[t].manager = m /\ stop'[u].manager = m => t = u
                    /\ native'.manager = m => \A t \in Stops : stop'[t].manager # m
                    /\ life'[m] = "deleted" => native'.manager # m /\ \A t \in Stops : stop'[t].manager # m
  BY DEF DeletedOnce
<1> m # None
  OBVIOUS
<1>0. /\ \A t, u \in Stops : stop[t].manager = m /\ stop[u].manager = m => t = u
      /\ native.manager = m => \A t \in Stops : stop[t].manager # m
      /\ life[m] = "deleted" => native.manager # m /\ \A t \in Stops : stop[t].manager # m
  BY DEF DeletedOnce
<1>1. CASE Stays
  BY <1>0, <1>1 DEF Stays
<1>2. ASSUME NEW u \in Stops, Takes(u)
      PROVE  /\ \A t, v \in Stops : stop'[t].manager = m /\ stop'[v].manager = m => t = v
             /\ native'.manager = m => \A t \in Stops : stop'[t].manager # m
             /\ life'[m] = "deleted" => native'.manager # m /\ \A t \in Stops : stop'[t].manager # m
  BY <1>0, <1>2 DEF Takes
<1>3. CASE Drops
  BY <1>0, <1>3 DEF Drops, Destroyed, Life
<1>4. ASSUME NEW c \in Clients, WorkPublishes(c)
      PROVE  /\ \A t, v \in Stops : stop'[t].manager = m /\ stop'[v].manager = m => t = v
             /\ native'.manager = m => \A t \in Stops : stop'[t].manager # m
             /\ life'[m] = "deleted" => native'.manager # m /\ \A t \in Stops : stop'[t].manager # m
  <2>1. /\ stop' = stop /\ native'.manager = ManagerOf(c)
        /\ life' = [life EXCEPT ![ManagerOf(c)] = "published"]
    BY <1>4 DEF WorkPublishes, Native
  <2>2. Unborn(ManagerOf(c))
    <3>1. work[c] = "queued" /\ client[c].at \in {"reverse_starting", "forward_starting"}
      BY <1>4 DEF WorkPublishes, Waits
    <3> QED
      BY <3>1 DEF Fresh, ReverseAhead, ForwardAhead, ManagerOf, At
  <2> QED
    BY <1>0, <2>1, <2>2 DEF Unborn, Life
<1>5. ASSUME NEW c \in Clients, WorkStarts(c)
      PROVE  /\ \A t, v \in Stops : stop'[t].manager = m /\ stop'[v].manager = m => t = v
             /\ native'.manager = m => \A t \in Stops : stop'[t].manager # m
             /\ life'[m] = "deleted" => native'.manager # m /\ \A t \in Stops : stop'[t].manager # m
  BY <1>0, <1>5 DEF WorkStarts, Life
<1>6. ASSUME NEW u \in Stops, StopRuns(u)
      PROVE  /\ \A t, v \in Stops : stop'[t].manager = m /\ stop'[v].manager = m => t = v
             /\ native'.manager = m => \A t \in Stops : stop'[t].manager # m
             /\ life'[m] = "deleted" => native'.manager # m /\ \A t \in Stops : stop'[t].manager # m
  BY <1>0, <1>6 DEF StopRuns, Destroyed, Life, Stop, Taken, NothingNative
<1> QED
  BY <1>1, <1>2, <1>3, <1>4, <1>5, <1>6, HandKinds DEF Hands

-----------------------------------------------------------------------------
(* The theorems.                                                           *)

\* The inductive invariant holds at the start ...
LEMMA Starts == Init => IInv
<1> SUFFICES ASSUME Init PROVE IInv
  OBVIOUS
<1> USE SessionsAssumption DEF Init
<1>1. Current /\ Client /\ Adb /\ Native /\ Work /\ Life /\ Hears /\ Stop
  BY DEF Current, Client, Session, Places, Adb, Native, NothingNative, Work, Life, Hears, Stop, Taking
<1>2. Holding /\ Asked /\ Waits
  BY DEF Holding, Asked, Waits
<1>3. DeletedOnce
  BY DEF DeletedOnce, Managers, NothingNative
<1>4. Fresh
  BY DEF Fresh, Unborn, Managers, NothingNative
<1> QED
  BY <1>1, <1>2, <1>3, <1>4 DEF IInv

\* ... and is kept by every step.
THEOREM Inductive == Spec => []IInv
<1>1. ASSUME IInv, [Next]_vars
      PROVE  IInv'
  <2>1. Current' /\ Client' /\ Adb' /\ Work' /\ Life' /\ Hears'
    BY <1>1, CurrentKept, ClientKept, AdbKept, WorkKept, LifeKept, HearsKept
  <2>2. Native' /\ Stop' /\ Fresh' /\ DeletedOnce'
    BY <1>1, HandKinds, FreshKept, DeletedOnceKept
  <2>3. Holding' /\ Asked' /\ Waits'
    BY <1>1, HoldingKept, AskedKept, WaitsKept
  <2> QED
    BY <2>1, <2>2, <2>3 DEF IInv
<1> QED
  BY <1>1, Starts, PTL DEF Spec

\* Every variable keeps its type, and no client holds the number of a connection that is closed,
\* for any number of clients.
THEOREM TypeCorrect == Spec => []TypeOK
<1>1. IInv => TypeOK
  BY DEF IInv, Current, Client, Session, Adb, Native, Work, Life, Hears, Stop, Taking, Holding, TypeOK
<1> QED
  BY <1>1, Inductive, PTL

\* A session that another replaces is stopped, wherever its start is, and only its own start can
\* make it active again, for any number of clients.
THEOREM OneActive == Spec => OneSession
<1>1. IInv /\ [Next]_vars
        => [\A c \in Unowned' : c \in Unowned \/ (At(c, "registered") /\ client[c].stopped)]_vars
  <2> SUFFICES ASSUME IInv, [Next]_vars, NEW c \in Unowned'
               PROVE  c \in Unowned \/ (At(c, "registered") /\ client[c].stopped)
    OBVIOUS
  <2>1. c \in Clients /\ client'[c].at # "new" /\ c # current' /\ ~client'[c].stopped
    BY DEF Unowned, At
  <2>2. (client[c].at # "new" /\ c # current /\ ~client[c].stopped) \/ Revived(c)
    BY <2>1, SessionStep DEF Replaced
  <2> QED
    BY <2>1, <2>2 DEF Unowned, Revived, At
<1> QED
  BY <1>1, Inductive, PTL DEF Spec, OneSession

\* A manager is in one pair of hands and is deleted once, for any number of clients that start,
\* stop and replace each other.
THEOREM ManagersOnce == Spec => []DeletedOnce
<1>1. IInv => DeletedOnce
  BY DEF IInv
<1> QED
  BY <1>1, Inductive, PTL

=============================================================================
