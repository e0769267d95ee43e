--------------------------- MODULE AdbStreamsProofs ---------------------------
(***************************************************************************)
(* What AdbStreams promises, proved for any number of streams, any use of  *)
(* them, read buffers of any size and any number of payloads:              *)
(*                                                                         *)
(*   TypeCorrect   every variable has its type                             *)
(*   CallersTold   what a caller is told of its stream is what the device  *)
(*                 has done                                                *)
(*                                                                         *)
(* The second needs to know which messages of a stream are underway, the   *)
(* one the loop works on among them (number 0), because what a caller sees *)
(* lags behind what the device has done by just those.  While a stream is  *)
(* open its one payload and its credit are never both there (Credit), and  *)
(* its CLSE comes last (Last): so when the loop has closed the object,     *)
(* nothing of the stream is left behind, and what the device has written   *)
(* is in the read buffer (Closing, Written).  That holds for a command's   *)
(* stream, which only the loop and its caller use, and until the           *)
(* connection is closed.                                                   *)
(*                                                                         *)
(* The proof takes each action apart once: a lemma says what it does with  *)
(* each variable (...Does), in terms of a few effects on an object, an end *)
(* of a stream or the loop; the parts of the invariant are then kept by    *)
(* each effect (...Kept).                                                  *)
(***************************************************************************)
EXTENDS AdbStreams, SequenceTheorems, FiniteSetTheorems, TLAPS

-----------------------------------------------------------------------------
(* The invariant.                                                          *)

\* Types, a part for each variable.
ObjectType == [life : {"none", "live", "deleted"}, refused : BOOLEAN, closed : BOOLEAN,
               ring : 0..RingSpace, shut : BOOLEAN]
BridgeType == [kept : BOOLEAN, closed : BOOLEAN, fd : {"none", "open", "closed"},
       peer : {"none", "open", "closed"},
       toAdb : {"none", "check", "copy", "exit", "drop", "shut", "done"},
       toSocket : {"none", "check", "copy", "wait", "send", "exit", "drop", "shut", "done"}]
DeviceType == [at : {"none", "asked", "open", "refused", "closed"}, credit : BOOLEAN,
                             wrote : 0..MaxWrites, told : BOOLEAN]
Callers ==
  /\ use \in Mixes /\ output \in [Streams -> Nat]
  /\ caller \in [Streams -> {"idle", "poll", "found", "opened", "failed", "collect", "closing", "done"}]
Objects == object \in [Streams -> ObjectType]
Table ==
  /\ table \in [listed : SUBSET Streams, owned : SUBSET Streams, last : Streams \cup {NoStream}]
  /\ table.listed \subseteq table.owned
Handler ==
  handle \in [at : {"read", "resolve", "act", "shut", "shutAgain", "unlist", "connect", "bridge",
                       "keep", "close", "ended"},
                 msg : Messages, stream : Streams \cup {NoStream}, cached : Streams \cup {NoStream}]
Bridges == bridge \in [Streams -> BridgeType]
Connection ==
  conn \in [closed : BOOLEAN, by : {"none", "application", "send", "handle"},
               at : {"open", "send", "streams", "handle", "bridges", "done"}, seen : SUBSET Streams,
               destroyed : BOOLEAN]
Sending == toHost \in Seq(Messages)
Devices == device \in [Streams -> DeviceType]
Stale == stale \in SUBSET {"open", "caller", "handle", "pump"}
Typed == Callers /\ Objects /\ Table /\ Handler /\ Bridges /\ Connection /\ Sending /\ Devices /\ Stale

\* The messages the device has sent and handleInLoop is not done with, in their order; the one it
\* works on is number 0.
Numbers == 0..Len(toHost)
Message(n) == IF n = 0 THEN handle.msg ELSE toHost[n]
Underway(s) == {n \in Numbers : Message(n).stream = s}
Payloads(s) == {n \in Underway(s) : Message(n).cmd = "WRTE"}

\* Where the loop is fits its message, and it works on the stream of the message.
Handling ==
  /\ \A n \in 1..Len(toHost) : toHost[n].stream \in Streams /\ toHost[n].cmd # "none"
  /\ handle.at = "read" => handle.msg.stream = NoStream
  /\ handle.at \in {"resolve", "act", "shut", "shutAgain", "unlist", "connect", "bridge", "keep"} =>
       handle.msg.stream \in Streams
  /\ handle.at \in {"resolve", "act"} => handle.msg.cmd # "OPEN"
  /\ handle.at \in {"connect", "bridge", "keep"} => handle.msg.cmd = "OPEN"
  /\ handle.at \in {"shut", "shutAgain", "unlist"} => handle.msg.cmd = "CLSE" /\ handle.stream = handle.msg.stream
  /\ handle.at = "act" => handle.stream \in {NoStream, handle.msg.stream}

\* The device opens the streams of bridges, and answers the others.
Speaks(s) ==
  /\ device[s].at = "refused" => use[s] # "bridge"
  /\ \A n \in Underway(s) :
       /\ Message(n).refusal <=> device[s].at = "refused"
       /\ Message(n).cmd = "OPEN" => use[s] = "bridge"
       /\ use[s] # "bridge" => device[s].at \in {"open", "closed", "refused"}
Speaking == \A s \in Streams : Speaks(s)

\* An object is made from a message of the device, and is in the table until it is deleted.
Lives(s) ==
  /\ object[s].life = "none" => object[s] = NoObject
  /\ object[s].life # "none" =>
       /\ object[s].refused <=> device[s].at = "refused"
       /\ use[s] # "bridge" => device[s].at \in {"open", "closed", "refused"}
  /\ s \in table.owned => object[s].life = "live"
Living == \A s \in Streams : Lives(s)

\* Who has a pointer to an object: the table, the loop, the pumps.
Points(s) ==
  /\ s \in {table.last, handle.cached, handle.stream} => object[s].life # "none"
  /\ handle.at = "bridge" /\ handle.msg.stream = s => object[s].life # "none"
  /\ bridge[s].toAdb # "none" \/ bridge[s].toSocket # "none" => use[s] = "bridge" /\ object[s].life # "none"
Pointing == \A s \in Streams : Points(s)

\* A caller has a stream of its own, and the object while it works with it.
Calls(c) ==
  /\ caller[c] \notin {"idle", "done"} => use[c] \in {"command", "socket"}
  /\ caller[c] = "idle" /\ use[c] # "bridge" => device[c].at = "none"
  /\ caller[c] \in {"found", "opened", "collect", "closing"} => c \in table.owned
  /\ caller[c] \in {"opened", "collect", "closing"} => ~object[c].refused
  /\ caller[c] = "closing" => use[c] = "socket"
  /\ caller[c] = "collect" => use[c] = "command"
Calling == \A c \in Streams : Calls(c)

\* The credit of a command's stream is where its payload is, and there is one of both.
Credit(c) ==
  /\ device[c].credit <=> Payloads(c) = {}
  /\ \A m, n \in Payloads(c) : m = n

\* The CLSE is the last message of a command's stream.
Last(c) ==
  \A m \in Underway(c) : Message(m).cmd = "CLSE" =>
    device[c].at \in {"closed", "refused"} /\ \A n \in Underway(c) : n <= m

\* The loop finds the object of the stream, and closes it when it has handled all the rest.
Closing(c) ==
  /\ object[c].shut => object[c].closed
  /\ object[c].closed =>
       /\ device[c].at \in {"closed", "refused"}
       /\ \A n \in Underway(c) : n = 0 /\ handle.at \in {"shut", "unlist"}
  /\ c \in table.owned => c \in table.listed \/ object[c].closed
  /\ object[c].life = "deleted" => device[c].at = "refused"
  /\ object[c].life = "live" => c \in table.owned
  /\ 0 \in Underway(c) /\ handle.at = "act" => handle.stream = c
  /\ 0 \in Underway(c) /\ handle.at \in {"shut", "shutAgain", "unlist"} => object[c].closed

\* What the device has written is in the read buffer, or was in it when the caller took it.
Written(c) ==
  /\ device[c].at \in {"none", "asked", "refused"} => device[c].wrote = 0
  /\ caller[c] # "done" => object[c].ring + (IF device[c].credit THEN 0 ELSE 1) = device[c].wrote
  /\ caller[c] = "collect" => object[c].closed
  /\ caller[c] = "done" => output[c] = device[c].wrote /\ device[c].at = "closed"

\* close() is running, or has run, only on a closed connection.
Ending == conn.at # "open" => conn.closed

Commands ==
  ~conn.closed => \A c \in Streams : use[c] = "command" => Credit(c) /\ Last(c) /\ Closing(c) /\ Written(c)

IInv == Typed /\ Handling /\ Speaking /\ Living /\ Pointing /\ Calling /\ Ending /\ Commands

-----------------------------------------------------------------------------
(* The objects of streams.                                                 *)

\* The records of an object.
Object(l, r, c, n, s) == [life |-> l, refused |-> r, closed |-> c, ring |-> n, shut |-> s]

\* What there is in an object.
LEMMA ObjectIs ==
  ASSUME NEW o \in ObjectType
  PROVE  /\ o = Object(o.life, o.refused, o.closed, o.ring, o.shut)
         /\ o.life \in {"none", "live", "deleted"} /\ o.refused \in BOOLEAN /\ o.closed \in BOOLEAN
         /\ o.ring \in 0..RingSpace /\ o.ring \in Nat /\ o.shut \in BOOLEAN
  BY StreamsAssumption DEF ObjectType, Object

\* An object with one of its fields changed.
LEMMA ObjectChanges ==
  ASSUME NEW o \in ObjectType, NEW n \in 0..RingSpace
  PROVE  /\ Shut(o) = Object(o.life, o.refused, TRUE, o.ring, TRUE)
         /\ [o EXCEPT !.closed = TRUE] = Object(o.life, o.refused, TRUE, o.ring, o.shut)
         /\ [o EXCEPT !.shut = TRUE] = Object(o.life, o.refused, o.closed, o.ring, TRUE)
         /\ [o EXCEPT !.ring = n] = Object(o.life, o.refused, o.closed, n, o.shut)
         /\ [o EXCEPT !.life = "deleted"] = Object("deleted", o.refused, o.closed, o.ring, o.shut)
<1>1. [o EXCEPT !.closed = TRUE] = Object(o.life, o.refused, TRUE, o.ring, o.shut)
  <2>1. \A b \in BOOLEAN : [o EXCEPT !.closed = b] = Object(o.life, o.refused, b, o.ring, o.shut)
    BY DEF ObjectType, Object
  <2> QED
    BY <2>1
<1>2. [o EXCEPT !.shut = TRUE] = Object(o.life, o.refused, o.closed, o.ring, TRUE)
  <2>1. \A b \in BOOLEAN : [o EXCEPT !.shut = b] = Object(o.life, o.refused, o.closed, o.ring, b)
    BY DEF ObjectType, Object
  <2> QED
    BY <2>1
<1>3. [o EXCEPT !.ring = n] = Object(o.life, o.refused, o.closed, n, o.shut)
  BY DEF ObjectType, Object
<1>4. [o EXCEPT !.life = "deleted"] = Object("deleted", o.refused, o.closed, o.ring, o.shut)
  BY DEF ObjectType, Object
<1>5. Shut(o) = Object(o.life, o.refused, TRUE, o.ring, TRUE)
  <2>1. \A a, b \in BOOLEAN : [o EXCEPT !.closed = a, !.shut = b] = [[o EXCEPT !.closed = a] EXCEPT !.shut = b]
    OBVIOUS
  <2>2. \A a, b \in BOOLEAN : [Object(o.life, o.refused, a, o.ring, o.shut) EXCEPT !.shut = b]
                              = Object(o.life, o.refused, a, o.ring, b)
    BY DEF ObjectType, Object
  <2>3. Shut(o) = [[o EXCEPT !.closed = TRUE] EXCEPT !.shut = TRUE]
    BY <2>1 DEF Shut
  <2>4. Shut(o) = [Object(o.life, o.refused, TRUE, o.ring, o.shut) EXCEPT !.shut = TRUE]
    BY <1>1, <2>3
  <2> QED
    BY <2>2, <2>4
<1> QED
  BY <1>1, <1>2, <1>3, <1>4, <1>5

\* A new object.
LEMMA Creates == \A r \in BOOLEAN : Created(r) = Object("live", r, FALSE, 0, FALSE)
<1>1. NoObject = Object("none", FALSE, FALSE, 0, FALSE)
  BY DEF NoObject, Object
<1> TAKE r \in BOOLEAN
<1>2. Created(r) = [Object("none", FALSE, FALSE, 0, FALSE) EXCEPT !.life = "live", !.refused = r]
  BY <1>1 DEF Created
<1> QED
  BY <1>2 DEF Object

\* An object put together from its fields.
LEMMA ObjectsType ==
  ASSUME NEW l \in {"none", "live", "deleted"}, NEW r \in BOOLEAN, NEW c \in BOOLEAN, NEW n \in 0..RingSpace,
         NEW s \in BOOLEAN
  PROVE  /\ Object(l, r, c, n, s) \in ObjectType
         /\ Object(l, r, c, n, s).life = l /\ Object(l, r, c, n, s).refused = r /\ Object(l, r, c, n, s).closed = c
         /\ Object(l, r, c, n, s).ring = n /\ Object(l, r, c, n, s).shut = s
  BY DEF ObjectType, Object

\* The objects when that of s is another.
LEMMA Replaced ==
  ASSUME Objects, NEW s \in Streams, NEW n \in 0..RingSpace
  PROVE  /\ object[s] \in ObjectType
         /\ \A o : [object EXCEPT ![s] = o] = [t \in Streams |-> IF t = s THEN o ELSE object[t]]
         /\ [object EXCEPT ![s] = Shut(@)] = [t \in Streams |-> IF t = s THEN Shut(object[s]) ELSE object[t]]
         /\ [object EXCEPT ![s].closed = TRUE]
              = [t \in Streams |-> IF t = s THEN [object[s] EXCEPT !.closed = TRUE] ELSE object[t]]
         /\ [object EXCEPT ![s].shut = TRUE]
              = [t \in Streams |-> IF t = s THEN [object[s] EXCEPT !.shut = TRUE] ELSE object[t]]
         /\ [object EXCEPT ![s].ring = n]
              = [t \in Streams |-> IF t = s THEN [object[s] EXCEPT !.ring = n] ELSE object[t]]
         /\ [object EXCEPT ![s].life = "deleted"]
              = [t \in Streams |-> IF t = s THEN [object[s] EXCEPT !.life = "deleted"] ELSE object[t]]
  BY DEF Objects

\* What an action does with the object of s.
Sets(s, o) == object' = [t \in Streams |-> IF t = s THEN o ELSE object[t]]
Empties(s) == Sets(s, Object(object[s].life, object[s].refused, object[s].closed, 0, object[s].shut))
Shuts(s) == Sets(s, Object(object[s].life, object[s].refused, TRUE, object[s].ring, TRUE))
Marks(s) == Sets(s, Object(object[s].life, object[s].refused, TRUE, object[s].ring, object[s].shut))
Ends(s) == Sets(s, Object(object[s].life, object[s].refused, object[s].closed, object[s].ring, TRUE))
Fills(s) == Sets(s, Object(object[s].life, object[s].refused, object[s].closed, object[s].ring + 1, object[s].shut))
Deletes(s) == Sets(s, Object("deleted", object[s].refused, object[s].closed, object[s].ring, object[s].shut))
Makes(s, r) == Sets(s, Object("live", r, FALSE, 0, FALSE))

\* The assignments of the actions to object are these.
LEMMA ObjectEffects ==
  ASSUME Objects, NEW s \in Streams
  PROVE  /\ object' = [object EXCEPT ![s].ring = 0] => Empties(s)
         /\ object' = [object EXCEPT ![s] = Shut(@)] => Shuts(s)
         /\ object' = [object EXCEPT ![s].closed = TRUE] => Marks(s)
         /\ object' = [object EXCEPT ![s].shut = TRUE] => Ends(s)
         /\ object' = [object EXCEPT ![s].life = "deleted"] => Deletes(s)
         /\ \A r \in BOOLEAN : object' = [object EXCEPT ![s] = Created(r)] => Makes(s, r)
<1>1. object[s] \in ObjectType /\ 0 \in 0..RingSpace
  BY StreamsAssumption DEF Objects
<1> USE Replaced, ObjectChanges, <1>1
<1>2. object' = [object EXCEPT ![s].ring = 0] => Empties(s)
  BY DEF Empties, Sets
<1>3. object' = [object EXCEPT ![s] = Shut(@)] => Shuts(s)
  BY DEF Shuts, Sets
<1>4. object' = [object EXCEPT ![s].closed = TRUE] => Marks(s)
  BY DEF Marks, Sets
<1>5. object' = [object EXCEPT ![s].shut = TRUE] => Ends(s)
  BY DEF Ends, Sets
<1>6. object' = [object EXCEPT ![s].life = "deleted"] => Deletes(s)
  BY DEF Deletes, Sets
<1>7. \A r \in BOOLEAN : object' = [object EXCEPT ![s] = Created(r)] => Makes(s, r)
  BY Creates DEF Makes, Sets
<1> QED
  BY <1>2, <1>3, <1>4, <1>5, <1>6, <1>7

\* The objects, when that of s becomes o.
LEMMA SetsType ==
  ASSUME Objects, NEW s \in Streams, NEW o \in ObjectType, Sets(s, o)
  PROVE  Objects' /\ object'[s] = o /\ \A t \in Streams : t # s => object'[t] = object[t]
<1>1. /\ object' = [t \in Streams |-> IF t = s THEN o ELSE object[t]]
      /\ object \in [Streams -> ObjectType]
  BY DEF Sets, Objects
<1> QED
  BY <1>1 DEF Objects

\* The same for each of them.
LEMMA EffectsType ==
  ASSUME Objects, NEW s \in Streams
  PROVE  /\ object[s].life \in {"none", "live", "deleted"} /\ object[s].refused \in BOOLEAN
         /\ object[s].closed \in BOOLEAN /\ object[s].ring \in 0..RingSpace /\ object[s].ring \in Nat
         /\ object[s].shut \in BOOLEAN /\ 0 \in 0..RingSpace
         /\ object[s].ring < RingSpace => object[s].ring + 1 \in 0..RingSpace
<1>1. object[s] \in ObjectType
  BY DEF Objects
<1> QED
  BY <1>1, ObjectIs, StreamsAssumption

\* What each action that uses an object does.
LEMMA OpenReturnsDoes ==
  ASSUME Typed, NEW c \in Streams, OpenReturns(c)
  PROVE  /\ caller[c] = "found" /\ Uses("open", c)
         /\ \/ /\ Rejects(c) /\ caller' = [caller EXCEPT ![c] = "failed"] /\ Deletes(c)
               /\ table' = [listed |-> table.listed \ {c}, owned |-> table.owned \ {c},
                            last |-> IF table.last = c THEN NoStream ELSE table.last]
            \/ ~Rejects(c) /\ caller' = [caller EXCEPT ![c] = "opened"] /\ UNCHANGED <<table, object>>
         /\ UNCHANGED <<use, output, handle, bridge, conn, toHost, device>>
  BY ObjectEffects DEF Typed, OpenReturns

LEMMA CommandCollectsDoes ==
  ASSUME Typed, NEW c \in Streams, CommandCollects(c)
  PROVE  /\ caller[c] = "collect" /\ caller' = [caller EXCEPT ![c] = "done"]
         /\ \/ Finds(c) /\ output' = [output EXCEPT ![c] = object[c].ring] /\ Empties(c) /\ Uses("caller", c)
            \/ ~Finds(c) /\ UNCHANGED <<output, object, stale>>
         /\ UNCHANGED <<use, table, handle, bridge, conn, toHost, device>>
  BY ObjectEffects DEF Typed, CommandCollects

LEMMA SocketReadsDoes ==
  ASSUME Typed, NEW c \in Streams, SocketReads(c)
  PROVE  /\ caller[c] = "opened" /\ use[c] = "socket" /\ Empties(c) /\ Uses("caller", c)
         /\ UNCHANGED <<use, caller, output, table, handle, bridge, conn, toHost, device>>
  BY ObjectEffects DEF Typed, SocketReads

LEMMA SocketShutsDoes ==
  ASSUME Typed, NEW c \in Streams, SocketShuts(c)
  PROVE  /\ caller[c] = "closing" /\ caller' = [caller EXCEPT ![c] = "done"] /\ Shuts(c) /\ Uses("caller", c)
         /\ UNCHANGED <<use, output, table, handle, bridge, conn, toHost, device>>
  BY ObjectEffects DEF Typed, SocketShuts

LEMMA ReadReturnsDoes ==
  ASSUME Typed, NEW i \in Streams, ReadReturns(i)
  PROVE  /\ bridge[i].toSocket = "wait" /\ Empties(i) /\ Uses("pump", i)
         /\ Pump(i, "toSocket", IF object[i].ring > 0 THEN "send" ELSE "exit")
         /\ UNCHANGED <<use, caller, output, table, handle, conn, toHost, device>>
  BY ObjectEffects DEF Typed, ReadReturns

LEMMA PumpShutsDoes ==
  ASSUME Typed, NEW i \in Streams, NEW p \in Pumps, PumpShuts(i, p)
  PROVE  /\ bridge[i][p] = "shut" /\ Shuts(i) /\ Pump(i, p, "done") /\ Uses("pump", i)
         /\ UNCHANGED <<use, caller, output, table, handle, conn, toHost, device>>
  BY ObjectEffects DEF Typed, PumpShuts

-----------------------------------------------------------------------------
(* The device's ends of streams.                                           *)

\* What an action does with the device's end of s.
End(a, c, w, t) == [at |-> a, credit |-> c, wrote |-> w, told |-> t]
DeviceBecomes(s, d) == device' = [u \in Streams |-> IF u = s THEN d ELSE device[u]]
Turns(s, a) == DeviceBecomes(s, End(a, device[s].credit, device[s].wrote, device[s].told))
Acknowledges(s) == DeviceBecomes(s, End(device[s].at, TRUE, device[s].wrote, device[s].told))
Requests(s) == DeviceBecomes(s, End(device[s].at, device[s].credit, device[s].wrote, TRUE))
Writes(s) == DeviceBecomes(s, End(device[s].at, FALSE, device[s].wrote + 1, device[s].told))

\* What there is in the device's end of a stream.
LEMMA EndIs ==
  ASSUME NEW d \in DeviceType
  PROVE  /\ d = End(d.at, d.credit, d.wrote, d.told)
         /\ d.at \in {"none", "asked", "open", "refused", "closed"} /\ d.credit \in BOOLEAN
         /\ d.wrote \in 0..MaxWrites /\ d.wrote \in Nat /\ d.told \in BOOLEAN
  BY StreamsAssumption DEF DeviceType, End

\* An end with one of its fields changed.
LEMMA EndChanges ==
  ASSUME NEW d \in DeviceType
  PROVE  /\ \A a \in {"asked", "open", "refused", "closed"} : [d EXCEPT !.at = a] = End(a, d.credit, d.wrote, d.told)
         /\ [d EXCEPT !.credit = TRUE] = End(d.at, TRUE, d.wrote, d.told)
         /\ [d EXCEPT !.told = TRUE] = End(d.at, d.credit, d.wrote, TRUE)
         /\ [d EXCEPT !.credit = FALSE, !.wrote = @ + 1] = End(d.at, FALSE, d.wrote + 1, d.told)
<1>1. \A a \in {"asked", "open", "refused", "closed"} : [d EXCEPT !.at = a] = End(a, d.credit, d.wrote, d.told)
  BY DEF DeviceType, End
<1>2. \A b \in BOOLEAN : [d EXCEPT !.credit = b] = End(d.at, b, d.wrote, d.told)
  BY DEF DeviceType, End
<1>3. \A b \in BOOLEAN : [d EXCEPT !.told = b] = End(d.at, d.credit, d.wrote, b)
  BY DEF DeviceType, End
<1>4. [d EXCEPT !.credit = FALSE, !.wrote = @ + 1] = End(d.at, FALSE, d.wrote + 1, d.told)
  <2>1. \A b \in BOOLEAN : [d EXCEPT !.credit = b, !.wrote = @ + 1] = [[d EXCEPT !.credit = b] EXCEPT !.wrote = d.wrote + 1]
    BY DEF DeviceType
  <2>2. \A b \in BOOLEAN : [End(d.at, b, d.wrote, d.told) EXCEPT !.wrote = d.wrote + 1] = End(d.at, b, d.wrote + 1, d.told)
    BY DEF DeviceType, End
  <2>3. [d EXCEPT !.credit = FALSE, !.wrote = @ + 1] = [[d EXCEPT !.credit = FALSE] EXCEPT !.wrote = d.wrote + 1]
    BY <2>1
  <2>4. [d EXCEPT !.credit = FALSE] = End(d.at, FALSE, d.wrote, d.told)
    BY <1>2
  <2> QED
    BY <2>2, <2>3, <2>4
<1> QED
  BY <1>1, <1>2, <1>3, <1>4

\* The assignments of the actions to device are these.
LEMMA DeviceEffects ==
  ASSUME Devices, NEW s \in Streams
  PROVE  /\ \A a \in {"asked", "open", "refused", "closed"} : device' = [device EXCEPT ![s] = [device[s] EXCEPT !.at = a]] => Turns(s, a)
         /\ device' = [device EXCEPT ![s] = [device[s] EXCEPT !.credit = TRUE]] => Acknowledges(s)
         /\ device' = [device EXCEPT ![s] = [device[s] EXCEPT !.told = TRUE]] => Requests(s)
         /\ device' = [device EXCEPT ![s] = [device[s] EXCEPT !.credit = FALSE, !.wrote = @ + 1]] => Writes(s)
<1>1. device[s] \in DeviceType
  BY DEF Devices
<1>2. \A o : [device EXCEPT ![s] = o] = [t \in Streams |-> IF t = s THEN o ELSE device[t]]
  BY DEF Devices
<1>3. \A a \in {"asked", "open", "refused", "closed"} :
        device' = [device EXCEPT ![s] = [device[s] EXCEPT !.at = a]] => Turns(s, a)
  BY <1>1, <1>2, EndChanges DEF Turns, DeviceBecomes
<1>4. device' = [device EXCEPT ![s] = [device[s] EXCEPT !.credit = TRUE]] => Acknowledges(s)
  BY <1>1, <1>2, EndChanges DEF Acknowledges, DeviceBecomes
<1>5. device' = [device EXCEPT ![s] = [device[s] EXCEPT !.told = TRUE]] => Requests(s)
  BY <1>1, <1>2, EndChanges DEF Requests, DeviceBecomes
<1>6. device' = [device EXCEPT ![s] = [device[s] EXCEPT !.credit = FALSE, !.wrote = @ + 1]] => Writes(s)
  BY <1>1, <1>2, EndChanges DEF Writes, DeviceBecomes
<1> QED
  BY <1>3, <1>4, <1>5, <1>6

\* An end put together from its fields.
LEMMA MakesType ==
  ASSUME Devices, NEW s \in Streams, NEW d \in DeviceType, DeviceBecomes(s, d)
  PROVE  Devices' /\ device'[s] = d /\ \A u \in Streams : u # s => device'[u] = device[u]
<1>1. /\ device' = [u \in Streams |-> IF u = s THEN d ELSE device[u]]
      /\ device \in [Streams -> DeviceType]
  BY DEF DeviceBecomes, Devices
<1> QED
  BY <1>1 DEF Devices

\* What is known of an end.
LEMMA EndsType ==
  ASSUME Devices, NEW s \in Streams
  PROVE  /\ device[s].at \in {"none", "asked", "open", "refused", "closed"} /\ device[s].credit \in BOOLEAN
         /\ device[s].wrote \in 0..MaxWrites /\ device[s].wrote \in Nat /\ device[s].told \in BOOLEAN
         /\ device[s].wrote < MaxWrites => device[s].wrote + 1 \in 0..MaxWrites
<1>1. device[s] \in DeviceType
  BY DEF Devices
<1> QED
  BY <1>1, EndIs, StreamsAssumption

\* What the actions that move the device do.
LEMMA OpenDoes ==
  ASSUME Typed, NEW c \in Streams, Open(c)
  PROVE  /\ caller[c] = "idle" /\ use[c] \in {"command", "socket"} /\ caller' = [caller EXCEPT ![c] = "poll"]
         /\ IF conn.closed THEN UNCHANGED device ELSE Turns(c, "asked")
         /\ UNCHANGED <<use, output, object, table, handle, bridge, conn, toHost, stale>>
  BY DeviceEffects DEF Typed, Open, Tells

\* After close() the device is told nothing.
LEMMA TellsDoes ==
  ASSUME Typed, NEW s \in Streams
  PROVE  /\ TellClose(s) => UNCHANGED device \/ (~conn.closed /\ Requests(s))
         /\ Tells(s, [device[s] EXCEPT !.credit = TRUE]) => (conn.closed /\ UNCHANGED device) \/ (~conn.closed /\ Acknowledges(s))
         /\ Tells(s, [device[s] EXCEPT !.at = "open"]) => (conn.closed /\ UNCHANGED device) \/ (~conn.closed /\ Turns(s, "open"))
  BY DeviceEffects DEF Typed, TellClose, Tells

\* The device's steps, with the message it sends.
Posts(cmd, s, refusal) == toHost' = Append(toHost, Msg(cmd, s, refusal))
LEMMA DeviceAnswersDoes ==
  ASSUME Typed, NEW c \in Streams, DeviceAnswers(c)
  PROVE  /\ ~conn.closed /\ device[c].at = "asked" /\ use[c] # "bridge"
         /\ (Turns(c, "open") /\ Posts("OKAY", c, FALSE)) \/ (Turns(c, "refused") /\ Posts("CLSE", c, TRUE))
         /\ UNCHANGED <<use, caller, output, object, table, handle, bridge, conn, stale>>
  BY DeviceEffects DEF Typed, DeviceAnswers, Device, Sends, Posts

LEMMA DeviceOpensDoes ==
  ASSUME Typed, NEW i \in Streams, DeviceOpens(i)
  PROVE  /\ ~conn.closed /\ device[i].at = "none" /\ use[i] = "bridge"
         /\ Turns(i, "asked") /\ Posts("OPEN", i, FALSE)
         /\ UNCHANGED <<use, caller, output, object, table, handle, bridge, conn, stale>>
  BY DeviceEffects DEF Typed, DeviceOpens, Device, Sends, Posts

LEMMA DeviceWritesDoes ==
  ASSUME Typed, NEW s \in Streams, DeviceWrites(s)
  PROVE  /\ ~conn.closed /\ device[s].at = "open" /\ device[s].credit /\ device[s].wrote < MaxWrites
         /\ Writes(s) /\ Posts("WRTE", s, FALSE)
         /\ UNCHANGED <<use, caller, output, object, table, handle, bridge, conn, stale>>
  BY DeviceEffects DEF Typed, DeviceWrites, Device, Sends, Posts

LEMMA DeviceClosesDoes ==
  ASSUME Typed, NEW s \in Streams, DeviceCloses(s)
  PROVE  /\ ~conn.closed /\ device[s].at = "open"
         /\ Turns(s, "closed") /\ Posts("CLSE", s, FALSE)
         /\ UNCHANGED <<use, caller, output, object, table, handle, bridge, conn, stale>>
  BY DeviceEffects DEF Typed, DeviceCloses, Device, Sends, Posts

LEMMA DeviceGetsCloseDoes ==
  ASSUME Typed, NEW s \in Streams, DeviceGetsClose(s)
  PROVE  /\ ~conn.closed /\ device[s].told /\ device[s].at \in {"asked", "open"}
         /\ Turns(s, "closed") /\ (UNCHANGED toHost \/ (device[s].at = "open" /\ Posts("CLSE", s, FALSE)))
         /\ UNCHANGED <<use, caller, output, object, table, handle, bridge, conn, stale>>
  BY DeviceEffects DEF Typed, DeviceGetsClose, Device, Sends, Posts

-----------------------------------------------------------------------------
(* The loop.                                                               *)

\* The handler's place, message, stream and cached pointer.
At(l, m, s, c) == handle' = [at |-> l, msg |-> m, stream |-> s, cached |-> c]
NoMsg == Msg("none", NoStream, FALSE)
Rests == At("read", NoMsg, NoStream, NoStream)

\* What the loop is at a place.
LEMMA HandleIs ==
  ASSUME Typed
  PROVE  /\ handle = [at |-> handle.at, msg |-> handle.msg, stream |-> handle.stream, cached |-> handle.cached]
         /\ handle.msg \in Messages /\ handle.stream \in Streams \cup {NoStream} /\ handle.cached \in Streams \cup {NoStream}
         /\ handle.msg.refusal \in BOOLEAN /\ handle.msg.cmd \in Cmds /\ handle.msg.stream \in Streams \cup {NoStream}
         /\ handle.at \in {"read", "resolve", "act", "shut", "shutAgain", "unlist", "connect", "bridge",
                       "keep", "close", "ended"}
         /\ NoStream \notin Streams
<1>1. /\ handle \in [at : {"read", "resolve", "act", "shut", "shutAgain", "unlist", "connect", "bridge",
                       "keep", "close", "ended"},
                 msg : Messages, stream : Streams \cup {NoStream}, cached : Streams \cup {NoStream}]
  BY DEF Typed, Handler
<1>2. /\ handle = [at |-> handle.at, msg |-> handle.msg, stream |-> handle.stream, cached |-> handle.cached]
      /\ handle.msg \in Messages /\ handle.stream \in Streams \cup {NoStream} /\ handle.cached \in Streams \cup {NoStream}
      /\ handle.at \in {"read", "resolve", "act", "shut", "shutAgain", "unlist", "connect", "bridge",
                       "keep", "close", "ended"}
  BY <1>1
<1>3. handle.msg.refusal \in BOOLEAN /\ handle.msg.cmd \in Cmds /\ handle.msg.stream \in Streams \cup {NoStream}
  BY <1>2 DEF Messages
<1> QED
  BY <1>2, <1>3, StreamsAssumption

\* The end of a turn.
LEMMA TurnDoes == ASSUME Turn PROVE Rests
  BY DEF Turn, Rests, At, Reading, NoMsg

\* A step within a turn.
LEMMA OnDoes == ASSUME Typed, NEW l, On(l) PROVE At(l, handle.msg, handle.stream, handle.cached)
<1>1. \A a, m, s, c, b : [[at |-> a, msg |-> m, stream |-> s, cached |-> c] EXCEPT !.at = b]
                          = [at |-> b, msg |-> m, stream |-> s, cached |-> c]
  OBVIOUS
<1> QED
  BY <1>1, HandleIs DEF On, At

\* The fields of the loop at a place.
LEMMA AtIs ==
  ASSUME NEW l, NEW m, NEW s, NEW c, At(l, m, s, c)
  PROVE  handle'.at = l /\ handle'.msg = m /\ handle'.stream = s /\ handle'.cached = c
  BY DEF At

\* What the steps of the loop do.
LEMMA HandleReadsDoes ==
  ASSUME Typed, HandleReads
  PROVE  /\ handle.at = "read" /\ ~conn.closed /\ toHost # <<>> /\ toHost' = Tail(toHost)
         /\ Head(toHost) = toHost[1] /\ toHost[1] \in Messages
         /\ At(IF toHost[1].cmd = "OPEN" THEN "connect" ELSE "resolve", toHost[1], NoStream, table.last)
         /\ UNCHANGED <<use, caller, output, object, table, bridge, conn, device, stale>>
<1>1. toHost \in Seq(Messages)
  BY DEF Typed, Sending
<1>2. toHost # <<>>
  BY DEF HandleReads
<1>3. Head(toHost) = toHost[1] /\ toHost[1] \in Messages
  BY <1>1, <1>2, HeadTailProperties, LenProperties, ElementOfSeq, EmptySeq
<1> QED
  BY <1>2, <1>3 DEF HandleReads, At

LEMMA HandleResolvesDoes ==
  ASSUME Typed, Handling, HandleResolves
  PROVE  LET s == handle.msg.stream IN
         /\ handle.at = "resolve" /\ s \in Streams
         /\ \/ /\ At("act", handle.msg, s, NoStream)
               /\ handle.cached = s /\ ~object[s].closed /\ UNCHANGED <<object, table>>
            \/ /\ At("act", handle.msg, s, NoStream)
               /\ s \in table.listed \/ (s \in table.owned /\ ~object[s].closed)
               /\ table' = [listed |-> table.listed, owned |-> table.owned, last |-> s] /\ UNCHANGED object
            \/ /\ At("act", handle.msg, NoStream, NoStream)
               /\ s \in table.owned /\ object[s].closed /\ UNCHANGED <<object, table>>
            \/ /\ At("act", handle.msg, s, NoStream) /\ s \notin table.owned /\ s \notin table.listed
               /\ Makes(s, handle.msg.refusal)
               /\ table' = [listed |-> table.listed \cup {s}, owned |-> table.owned \cup {s}, last |-> s]
         /\ UNCHANGED <<use, caller, output, bridge, conn, toHost, device>>
<1> DEFINE s == handle.msg.stream
<1>0. handle.at = "resolve" /\ s \in Streams /\ UNCHANGED <<use, caller, output, bridge, conn, toHost, device>>
  BY DEF HandleResolves, Handling
<1>1. \A t : handle' = [handle EXCEPT !.at = "act", !.stream = t, !.cached = NoStream] => At("act", handle.msg, t, NoStream)
  <2>1. \A t : [handle EXCEPT !.at = "act", !.stream = t, !.cached = NoStream]
                 = [at |-> "act", msg |-> handle.msg, stream |-> t, cached |-> NoStream]
    <3> TAKE t
    <3> DEFINE h == [at |-> "act", msg |-> handle.msg, stream |-> handle.stream, cached |-> handle.cached]
               g == [at |-> "act", msg |-> handle.msg, stream |-> t, cached |-> handle.cached]
    <3>1. [handle EXCEPT !.at = "act", !.stream = t, !.cached = NoStream]
            = [[[handle EXCEPT !.at = "act"] EXCEPT !.stream = t] EXCEPT !.cached = NoStream]
      OBVIOUS
    <3>2. [handle EXCEPT !.at = "act"] = h
      <4>1. \A m, u, c, a : [[at |-> a, msg |-> m, stream |-> u, cached |-> c] EXCEPT !.at = "act"]
                 = [at |-> "act", msg |-> m, stream |-> u, cached |-> c]
        OBVIOUS
      <4> QED
        BY <4>1, HandleIs
    <3>3. [h EXCEPT !.stream = t] = g
      OBVIOUS
    <3>4. [g EXCEPT !.cached = NoStream] = [at |-> "act", msg |-> handle.msg, stream |-> t, cached |-> NoStream]
      OBVIOUS
    <3> HIDE DEF h, g
    <3> QED
      BY <3>1, <3>2, <3>3, <3>4
  <2> QED
    BY <2>1 DEF At
<1>2. [table EXCEPT !.last = s] = [listed |-> table.listed, owned |-> table.owned, last |-> s]
  BY DEF Typed, Table
<1>3. object' = [object EXCEPT ![s] = Created(handle.msg.refusal)] => Makes(s, handle.msg.refusal)
  BY <1>0, HandleIs, ObjectEffects DEF Typed
<1> HIDE DEF s
<1> QED
  BY <1>0, <1>1, <1>2, <1>3 DEF HandleResolves, s, Kept

LEMMA HandleWrteDoes ==
  ASSUME Typed, Handling, HandleWrte
  PROVE  /\ handle.at = "act" /\ handle.msg.cmd = "WRTE" /\ Rests
         /\ UNCHANGED <<use, caller, output, table, bridge, conn, toHost>>
         /\ \/ handle.stream = NoStream /\ UNCHANGED <<object, device>>
            \/ LET s == handle.msg.stream IN
               /\ handle.stream = s /\ s \in Streams
               /\ \/ object[s].shut /\ UNCHANGED object
                  \/ ~object[s].shut /\ object[s].ring < RingSpace /\ Fills(s)
               /\ \/ (object[s].closed \/ conn.closed) /\ UNCHANGED device
                  \/ ~object[s].closed /\ ~conn.closed /\ Acknowledges(s)
<1> DEFINE s == handle.stream
<1>1. /\ handle.at = "act" /\ handle.msg.cmd = "WRTE" /\ Rests
      /\ UNCHANGED <<use, caller, output, table, bridge, conn, toHost>>
  BY TurnDoes DEF HandleWrte
<1>2. CASE s = NoStream
  BY <1>1, <1>2 DEF HandleWrte
<1>3. CASE s # NoStream
  <2>1. s = handle.msg.stream /\ s \in Streams
    BY <1>1, <1>3 DEF Handling
  <2>2. /\ object[s].shut \/ object[s].ring < RingSpace
        /\ object' = [object EXCEPT ![s].ring = IF object[s].shut THEN @ ELSE @ + 1]
        /\ IF object[s].closed THEN UNCHANGED device ELSE Tells(s, [device[s] EXCEPT !.credit = TRUE])
    BY <1>3 DEF HandleWrte
  <2>3. object \in [Streams -> ObjectType] /\ object[s] \in ObjectType
    BY <2>1 DEF Typed, Objects
  <2>4. CASE object[s].shut
    <3>1. object' = [object EXCEPT ![s].ring = object[s].ring]
      BY <2>2, <2>4
    <3>2. [object[s] EXCEPT !.ring = object[s].ring] = object[s]
      BY <2>3 DEF ObjectType
    <3>3. object' = object
      BY <3>1, <3>2, <2>1, <2>3
    <3> QED
      BY <1>1, <2>1, <2>2, <2>4, <3>3, TellsDoes
  <2>5. CASE ~object[s].shut
    <3>1. object' = [object EXCEPT ![s].ring = object[s].ring + 1] /\ object[s].ring < RingSpace
      BY <2>2, <2>5
    <3>2. object[s].ring + 1 \in 0..RingSpace
      BY <2>1, <3>1, EffectsType DEF Typed
    <3>3. object' = [t \in Streams |-> IF t = s THEN [object[s] EXCEPT !.ring = object[s].ring + 1] ELSE object[t]]
      BY <2>1, <3>1, <3>2, Replaced DEF Typed
    <3>4. Fills(s)
      BY <2>3, <3>2, <3>3, ObjectChanges DEF Fills, Sets
    <3> QED
      BY <1>1, <2>1, <2>2, <2>5, <3>1, <3>4, TellsDoes
  <2> QED
    BY <2>4, <2>5
<1> QED
  BY <1>2, <1>3

LEMMA HandleOkayDoes ==
  ASSUME HandleOkay
  PROVE  /\ handle.at = "act" /\ handle.msg.cmd = "OKAY" /\ Rests
         /\ UNCHANGED <<use, caller, output, object, table, bridge, conn, toHost, device>>
  BY TurnDoes DEF HandleOkay

LEMMA HandleClseDoes ==
  ASSUME Typed, Handling, HandleClse
  PROVE  /\ handle.at = "act" /\ handle.msg.cmd = "CLSE"
         /\ UNCHANGED <<use, caller, output, table, bridge, conn, toHost, device>>
         /\ \/ handle.stream = NoStream /\ Rests /\ UNCHANGED object
            \/ LET s == handle.msg.stream IN
               /\ handle.stream = s /\ s \in Streams /\ Marks(s)
               /\ At(IF object[s].closed THEN "shutAgain" ELSE "shut", handle.msg, s, handle.cached)
<1>1. /\ handle.at = "act" /\ handle.msg.cmd = "CLSE"
      /\ UNCHANGED <<use, caller, output, table, bridge, conn, toHost, device>>
  BY DEF HandleClse
<1>2. CASE handle.stream = NoStream
  BY <1>1, <1>2, TurnDoes DEF HandleClse
<1>3. CASE handle.stream # NoStream
  <2>1. handle.stream = handle.msg.stream /\ handle.stream \in Streams
    BY <1>1, <1>3 DEF Handling
  <2>2. /\ object' = [object EXCEPT ![handle.stream].closed = TRUE]
        /\ On(IF object[handle.stream].closed THEN "shutAgain" ELSE "shut")
    BY <1>3 DEF HandleClse
  <2>3. Marks(handle.stream)
    BY <2>1, <2>2, ObjectEffects DEF Typed
  <2> QED
    BY <1>1, <2>1, <2>2, <2>3, OnDoes
<1> QED
  BY <1>2, <1>3

LEMMA HandleShutsDoes ==
  ASSUME Typed, Handling, HandleShuts
  PROVE  /\ handle.at \in {"shut", "shutAgain"} /\ handle.msg.cmd = "CLSE" /\ handle.stream = handle.msg.stream
         /\ handle.stream \in Streams /\ Ends(handle.stream)
         /\ UNCHANGED <<use, caller, output, table, bridge, conn, toHost, device>>
         /\ \/ handle.at = "shut" /\ At("unlist", handle.msg, handle.stream, handle.cached)
            \/ handle.at = "shutAgain" /\ Rests
<1>1. /\ handle.at \in {"shut", "shutAgain"} /\ object' = [object EXCEPT ![handle.stream].shut = TRUE]
      /\ IF handle.at = "shut" THEN On("unlist") ELSE Turn
      /\ UNCHANGED <<use, caller, output, table, bridge, conn, toHost, device>>
  BY DEF HandleShuts
<1>2. handle.msg.cmd = "CLSE" /\ handle.stream = handle.msg.stream /\ handle.stream \in Streams
  BY <1>1 DEF Handling
<1>3. Ends(handle.stream)
  BY <1>1, <1>2, ObjectEffects DEF Typed
<1> QED
  BY <1>1, <1>2, <1>3, OnDoes, TurnDoes

\* The table without s among the listed.
LEMMA UnlistedIs ==
  ASSUME Typed, NEW s
  PROVE  Unlisted(s) = [listed |-> table.listed \ {s}, owned |-> table.owned, last |-> table.last]
  BY DEF Unlisted, Typed, Table

LEMMA HandleUnlistsDoes ==
  ASSUME Typed, Handling, HandleUnlists
  PROVE  /\ handle.at = "unlist" /\ handle.msg.cmd = "CLSE" /\ handle.stream = handle.msg.stream
         /\ handle.stream \in Streams /\ Rests
         /\ table' = [listed |-> table.listed \ {handle.stream}, owned |-> table.owned,
                      last |-> IF table.last = handle.stream THEN NoStream ELSE table.last]
         /\ UNCHANGED <<use, caller, output, object, bridge, conn, toHost, device, stale>>
<1>1. /\ handle.at = "unlist" /\ handle.msg.cmd = "CLSE" /\ handle.stream = handle.msg.stream
      /\ handle.stream \in Streams /\ Rests
      /\ UNCHANGED <<use, caller, output, object, bridge, conn, toHost, device, stale>>
  BY TurnDoes DEF HandleUnlists, Handling
<1>2. \A a, b, c, d : [[listed |-> a, owned |-> b, last |-> c] EXCEPT !.last = d] = [listed |-> a, owned |-> b, last |-> d]
  OBVIOUS
<1>3. table' = [Unlisted(handle.stream) EXCEPT !.last = IF table.last = handle.stream THEN NoStream ELSE table.last]
  BY DEF HandleUnlists
<1>4. table' = [[listed |-> table.listed \ {handle.stream}, owned |-> table.owned, last |-> table.last]
                  EXCEPT !.last = IF table.last = handle.stream THEN NoStream ELSE table.last]
  BY <1>3, UnlistedIs
<1>5. table' = [listed |-> table.listed \ {handle.stream}, owned |-> table.owned,
                last |-> IF table.last = handle.stream THEN NoStream ELSE table.last]
  BY <1>2, <1>4
<1> QED
  BY <1>1, <1>5

LEMMA HandleConnectsDoes ==
  ASSUME Typed, Handling, HandleConnects
  PROVE  LET s == handle.msg.stream IN
         /\ handle.at = "connect" /\ handle.msg.cmd = "OPEN" /\ s \in Streams
         /\ \/ /\ UNCHANGED device \/ (~conn.closed /\ Requests(s))
               /\ Rests /\ UNCHANGED <<object, table, bridge>>
            \/ /\ Makes(s, FALSE)
               /\ table' = [listed |-> table.listed \cup {s}, owned |-> table.owned \cup {s}, last |-> s]
               /\ bridge' = [bridge EXCEPT ![s].fd = "open", ![s].peer = "open"]
               /\ (conn.closed /\ UNCHANGED device) \/ (~conn.closed /\ Turns(s, "open"))
               /\ At("bridge", handle.msg, handle.stream, handle.cached)
         /\ UNCHANGED <<use, caller, output, conn, toHost, stale>>
<1> DEFINE s == handle.msg.stream
<1>1. /\ handle.at = "connect" /\ handle.msg.cmd = "OPEN" /\ s \in Streams
      /\ UNCHANGED <<use, caller, output, conn, toHost, stale>>
  BY DEF HandleConnects, Handling
<1>2. \/ TellClose(s) /\ Turn /\ UNCHANGED <<object, table, bridge>>
      \/ /\ object' = [object EXCEPT ![s] = Created(FALSE)]
         /\ table' = [listed |-> table.listed \cup {s}, owned |-> Kept(s), last |-> s]
         /\ bridge' = [bridge EXCEPT ![s].fd = "open", ![s].peer = "open"]
         /\ Tells(s, [device[s] EXCEPT !.at = "open"])
         /\ On("bridge")
  BY DEF HandleConnects
<1>3. object' = [object EXCEPT ![s] = Created(FALSE)] => Makes(s, FALSE)
  BY <1>1, ObjectEffects DEF Typed
<1> HIDE DEF s
<1>4. CASE TellClose(s) /\ Turn /\ UNCHANGED <<object, table, bridge>>
  BY <1>1, <1>4, TellsDoes, TurnDoes DEF s
<1>5. CASE /\ object' = [object EXCEPT ![s] = Created(FALSE)]
         /\ table' = [listed |-> table.listed \cup {s}, owned |-> Kept(s), last |-> s]
         /\ bridge' = [bridge EXCEPT ![s].fd = "open", ![s].peer = "open"]
         /\ Tells(s, [device[s] EXCEPT !.at = "open"])
         /\ On("bridge")
  BY <1>1, <1>3, <1>5, TellsDoes, OnDoes DEF s, Kept
<1> QED
  BY <1>2, <1>4, <1>5

LEMMA HandleBridgesDoes ==
  ASSUME Typed, Handling, HandleBridges
  PROVE  /\ handle.at = "bridge" /\ handle.msg.stream \in Streams /\ handle.msg.cmd = "OPEN"
         /\ bridge' = [bridge EXCEPT ![handle.msg.stream].toAdb = "check", ![handle.msg.stream].toSocket = "check"]
         /\ At("keep", handle.msg, handle.stream, handle.cached)
         /\ UNCHANGED <<use, caller, output, object, table, conn, toHost, device, stale>>
  BY OnDoes DEF HandleBridges, Handling

LEMMA HandleKeepsDoes ==
  ASSUME Typed, Handling, HandleKeeps
  PROVE  /\ handle.at = "keep" /\ handle.msg.stream \in Streams
         /\ bridge' = [bridge EXCEPT ![handle.msg.stream].kept = TRUE] /\ Rests
         /\ UNCHANGED <<use, caller, output, object, table, conn, toHost, device, stale>>
  BY TurnDoes DEF HandleKeeps, Handling

LEMMA HandleEndsDoes ==
  ASSUME Typed, HandleEnds
  PROVE  /\ At(IF conn.closed THEN "ended" ELSE "close", NoMsg, NoStream, NoStream)
         /\ conn'.closed /\ toHost' = <<>>
         /\ UNCHANGED <<use, caller, output, object, table, bridge, device, stale>>
<1>1. [Reading EXCEPT !.at = IF conn.closed THEN "ended" ELSE "close"]
        = [at |-> IF conn.closed THEN "ended" ELSE "close", msg |-> NoMsg, stream |-> NoStream, cached |-> NoStream]
  <2>1. \A a, m, s, c, b : [[at |-> a, msg |-> m, stream |-> s, cached |-> c] EXCEPT !.at = b]
                          = [at |-> b, msg |-> m, stream |-> s, cached |-> c]
    OBVIOUS
  <2>2. Reading = [at |-> "read", msg |-> NoMsg, stream |-> NoStream, cached |-> NoStream]
    BY DEF Reading, NoMsg
  <2> DEFINE l == IF conn.closed THEN "ended" ELSE "close"
  <2>3. [Reading EXCEPT !.at = l] = [at |-> l, msg |-> NoMsg, stream |-> NoStream, cached |-> NoStream]
    <3> HIDE DEF l, NoMsg
    <3> QED
      BY <2>1, <2>2
  <2> QED
    BY <2>3
<1>2. conn'.closed
  BY DEF HandleEnds, Typed, Connection
<1> QED
  BY <1>1, <1>2 DEF HandleEnds, At

\* What close() does.
LEMMA CloseDoes ==
  ASSUME Typed, NEW t \in {"application", "send"}, Close(t)
  PROVE  /\ ~conn.closed /\ conn'.closed /\ toHost' = <<>>
         /\ UNCHANGED <<use, caller, output, object, table, handle, bridge, device, stale>>
  BY DEF Close, Typed, Connection

LEMMA CloseReturnsDoes ==
  ASSUME Typed, CloseReturns
  PROVE  /\ (conn'.closed <=> conn.closed)
         /\ UNCHANGED handle \/ At("ended", handle.msg, handle.stream, handle.cached)
         /\ UNCHANGED <<use, caller, output, object, table, bridge, toHost, device, stale>>
<1>1. (conn'.closed <=> conn.closed)
  BY DEF CloseReturns, Typed, Connection
<1>2. [handle EXCEPT !.at = "ended"] = [at |-> "ended", msg |-> handle.msg, stream |-> handle.stream, cached |-> handle.cached]
  <2>1. \A a, m, s, c, b : [[at |-> a, msg |-> m, stream |-> s, cached |-> c] EXCEPT !.at = b]
                          = [at |-> b, msg |-> m, stream |-> s, cached |-> c]
    OBVIOUS
  <2> QED
    BY <2>1, HandleIs
<1> QED
  BY <1>1, <1>2 DEF CloseReturns, At

-----------------------------------------------------------------------------
(* The effects, on each of the variables.                                  *)

\* What leaves the buffer of s empty.
LEMMA EmptiesDoes ==
  ASSUME Objects, NEW s \in Streams, Empties(s)
  PROVE  /\ Objects' /\ object'[s].life = object[s].life /\ (object'[s].refused <=> object[s].refused)
         /\ (object'[s].closed <=> object[s].closed) /\ object'[s].ring = 0 /\ (object'[s].shut <=> object[s].shut)
         /\ \A t \in Streams : t # s => object'[t] = object[t]
<1> DEFINE o == Object(object[s].life, object[s].refused, object[s].closed, 0, object[s].shut)
<1>1. o \in ObjectType
  BY EffectsType DEF ObjectType, Object
<1>2. /\ o.life = object[s].life /\ (o.refused <=> object[s].refused) /\ (o.closed <=> object[s].closed)
      /\ o.ring = 0 /\ (o.shut <=> object[s].shut)
  BY DEF Object
<1>3. Sets(s, o)
  BY DEF Empties
<1> HIDE DEF o
<1> QED
  BY <1>1, <1>2, <1>3, SetsType

\* What closes s and its buffer.
LEMMA ShutsDoes ==
  ASSUME Objects, NEW s \in Streams, Shuts(s)
  PROVE  /\ Objects' /\ object'[s].life = object[s].life /\ (object'[s].refused <=> object[s].refused)
         /\ object'[s].closed /\ object'[s].ring = object[s].ring /\ object'[s].shut
         /\ \A t \in Streams : t # s => object'[t] = object[t]
<1> DEFINE o == Object(object[s].life, object[s].refused, TRUE, object[s].ring, TRUE)
<1>1. o \in ObjectType
  BY EffectsType DEF ObjectType, Object
<1>2. /\ o.life = object[s].life /\ (o.refused <=> object[s].refused) /\ o.closed
      /\ o.ring = object[s].ring /\ o.shut
  BY DEF Object
<1>3. Sets(s, o)
  BY DEF Shuts
<1> HIDE DEF o
<1> QED
  BY <1>1, <1>2, <1>3, SetsType

\* What sets the closed flag of s.
LEMMA MarksDoes ==
  ASSUME Objects, NEW s \in Streams, Marks(s)
  PROVE  /\ Objects' /\ object'[s].life = object[s].life /\ (object'[s].refused <=> object[s].refused)
         /\ object'[s].closed /\ object'[s].ring = object[s].ring /\ (object'[s].shut <=> object[s].shut)
         /\ \A t \in Streams : t # s => object'[t] = object[t]
<1> DEFINE o == Object(object[s].life, object[s].refused, TRUE, object[s].ring, object[s].shut)
<1>1. o \in ObjectType
  BY EffectsType DEF ObjectType, Object
<1>2. /\ o.life = object[s].life /\ (o.refused <=> object[s].refused) /\ o.closed
      /\ o.ring = object[s].ring /\ (o.shut <=> object[s].shut)
  BY DEF Object
<1>3. Sets(s, o)
  BY DEF Marks
<1> HIDE DEF o
<1> QED
  BY <1>1, <1>2, <1>3, SetsType

\* What closes the buffer of s.
LEMMA EndsDoes ==
  ASSUME Objects, NEW s \in Streams, Ends(s)
  PROVE  /\ Objects' /\ object'[s].life = object[s].life /\ (object'[s].refused <=> object[s].refused)
         /\ (object'[s].closed <=> object[s].closed) /\ object'[s].ring = object[s].ring /\ object'[s].shut
         /\ \A t \in Streams : t # s => object'[t] = object[t]
<1> DEFINE o == Object(object[s].life, object[s].refused, object[s].closed, object[s].ring, TRUE)
<1>1. o \in ObjectType
  BY EffectsType DEF ObjectType, Object
<1>2. /\ o.life = object[s].life /\ (o.refused <=> object[s].refused) /\ (o.closed <=> object[s].closed)
      /\ o.ring = object[s].ring /\ o.shut
  BY DEF Object
<1>3. Sets(s, o)
  BY DEF Ends
<1> HIDE DEF o
<1> QED
  BY <1>1, <1>2, <1>3, SetsType

\* What deletes the object of s.
LEMMA DeletesDoes ==
  ASSUME Objects, NEW s \in Streams, Deletes(s)
  PROVE  /\ Objects' /\ object'[s].life = "deleted" /\ (object'[s].refused <=> object[s].refused)
         /\ (object'[s].closed <=> object[s].closed) /\ object'[s].ring = object[s].ring /\ (object'[s].shut <=> object[s].shut)
         /\ \A t \in Streams : t # s => object'[t] = object[t]
<1> DEFINE o == Object("deleted", object[s].refused, object[s].closed, object[s].ring, object[s].shut)
<1>1. o \in ObjectType
  BY EffectsType DEF ObjectType, Object
<1>2. /\ o.life = "deleted" /\ (o.refused <=> object[s].refused) /\ (o.closed <=> object[s].closed)
      /\ o.ring = object[s].ring /\ (o.shut <=> object[s].shut)
  BY DEF Object
<1>3. Sets(s, o)
  BY DEF Deletes
<1> HIDE DEF o
<1> QED
  BY <1>1, <1>2, <1>3, SetsType

\* What puts a payload into the buffer of s.
LEMMA FillsDoes ==
  ASSUME Objects, NEW s \in Streams, object[s].ring < RingSpace, Fills(s)
  PROVE  /\ Objects' /\ object'[s].life = object[s].life /\ (object'[s].refused <=> object[s].refused)
         /\ (object'[s].closed <=> object[s].closed) /\ object'[s].ring = object[s].ring + 1 /\ (object'[s].shut <=> object[s].shut)
         /\ \A t \in Streams : t # s => object'[t] = object[t]
<1> DEFINE o == Object(object[s].life, object[s].refused, object[s].closed, object[s].ring + 1, object[s].shut)
<1>1. o \in ObjectType
  BY EffectsType DEF ObjectType, Object
<1>2. /\ o.life = object[s].life /\ (o.refused <=> object[s].refused) /\ (o.closed <=> object[s].closed)
      /\ o.ring = object[s].ring + 1 /\ (o.shut <=> object[s].shut)
  BY DEF Object
<1>3. Sets(s, o)
  BY DEF Fills
<1> HIDE DEF o
<1> QED
  BY <1>1, <1>2, <1>3, SetsType

\* What makes the object of s.
LEMMA MakesDoes ==
  ASSUME Objects, NEW s \in Streams, NEW r \in BOOLEAN, Makes(s, r)
  PROVE  /\ Objects' /\ object'[s].life = "live" /\ (object'[s].refused <=> r)
         /\ ~object'[s].closed /\ object'[s].ring = 0 /\ ~object'[s].shut
         /\ \A t \in Streams : t # s => object'[t] = object[t]
<1> DEFINE o == Object("live", r, FALSE, 0, FALSE)
<1>1. o \in ObjectType
  BY EffectsType DEF ObjectType, Object
<1>2. /\ o.life = "live" /\ (o.refused <=> r) /\ ~o.closed
      /\ o.ring = 0 /\ ~o.shut
  BY DEF Object
<1>3. Sets(s, o)
  BY DEF Makes
<1> HIDE DEF o
<1> QED
  BY <1>1, <1>2, <1>3, SetsType

\* What gives s its credit.
LEMMA AcknowledgesDoes ==
  ASSUME Devices, NEW s \in Streams, Acknowledges(s)
  PROVE  /\ Devices' /\ device'[s].at = device[s].at /\ device'[s].credit
         /\ device'[s].wrote = device[s].wrote /\ (device'[s].told <=> device[s].told)
         /\ \A u \in Streams : u # s => device'[u] = device[u]
<1> DEFINE d == End(device[s].at, TRUE, device[s].wrote, device[s].told)
<1>1. d \in DeviceType
  BY EndsType DEF DeviceType, End
<1>2. d.at = device[s].at /\ d.credit /\ d.wrote = device[s].wrote /\ (d.told <=> device[s].told)
  BY DEF End
<1>3. DeviceBecomes(s, d)
  BY DEF Acknowledges
<1> HIDE DEF d
<1> QED
  BY <1>1, <1>2, <1>3, MakesType

\* What tells the device to close s.
LEMMA RequestsDoes ==
  ASSUME Devices, NEW s \in Streams, Requests(s)
  PROVE  /\ Devices' /\ device'[s].at = device[s].at /\ (device'[s].credit <=> device[s].credit)
         /\ device'[s].wrote = device[s].wrote /\ device'[s].told
         /\ \A u \in Streams : u # s => device'[u] = device[u]
<1> DEFINE d == End(device[s].at, device[s].credit, device[s].wrote, TRUE)
<1>1. d \in DeviceType
  BY EndsType DEF DeviceType, End
<1>2. d.at = device[s].at /\ (d.credit <=> device[s].credit) /\ d.wrote = device[s].wrote /\ d.told
  BY DEF End
<1>3. DeviceBecomes(s, d)
  BY DEF Requests
<1> HIDE DEF d
<1> QED
  BY <1>1, <1>2, <1>3, MakesType

\* What changes the state of s at the device.
LEMMA TurnsDoes ==
  ASSUME Devices, NEW s \in Streams, NEW a \in {"asked", "open", "refused", "closed"}, Turns(s, a)
  PROVE  /\ Devices' /\ device'[s].at = a /\ (device'[s].credit <=> device[s].credit)
         /\ device'[s].wrote = device[s].wrote /\ (device'[s].told <=> device[s].told)
         /\ \A u \in Streams : u # s => device'[u] = device[u]
<1> DEFINE d == End(a, device[s].credit, device[s].wrote, device[s].told)
<1>1. d \in DeviceType
  BY EndsType DEF DeviceType, End
<1>2. d.at = a /\ (d.credit <=> device[s].credit) /\ d.wrote = device[s].wrote /\ (d.told <=> device[s].told)
  BY DEF End
<1>3. DeviceBecomes(s, d)
  BY DEF Turns
<1> HIDE DEF d
<1> QED
  BY <1>1, <1>2, <1>3, MakesType

\* What writes on s.
LEMMA WritesDoes ==
  ASSUME Devices, NEW s \in Streams, device[s].wrote < MaxWrites, Writes(s)
  PROVE  /\ Devices' /\ device'[s].at = device[s].at /\ ~device'[s].credit
         /\ device'[s].wrote = device[s].wrote + 1 /\ (device'[s].told <=> device[s].told)
         /\ \A u \in Streams : u # s => device'[u] = device[u]
<1> DEFINE d == End(device[s].at, FALSE, device[s].wrote + 1, device[s].told)
<1>1. d \in DeviceType
  BY EndsType DEF DeviceType, End
<1>2. d.at = device[s].at /\ ~d.credit /\ d.wrote = device[s].wrote + 1 /\ (d.told <=> device[s].told)
  BY DEF End
<1>3. DeviceBecomes(s, d)
  BY DEF Writes
<1> HIDE DEF d
<1> QED
  BY <1>1, <1>2, <1>3, MakesType

\* What a caller, a pump, close() and ~Adb do with the streams they close.
LEMMA SocketClosesDoes ==
  ASSUME Typed, NEW c \in Streams, SocketCloses(c)
  PROVE  /\ caller[c] = "opened" /\ use[c] = "socket"
         /\ \/ /\ c \in table.listed /\ caller' = [caller EXCEPT ![c] = "closing"]
               /\ UNCHANGED device \/ (~conn.closed /\ Requests(c))
            \/ c \notin table.listed /\ caller' = [caller EXCEPT ![c] = "done"] /\ UNCHANGED device
         /\ table' = [listed |-> table.listed \ {c}, owned |-> table.owned, last |-> table.last]
         /\ UNCHANGED <<use, output, object, handle, bridge, conn, toHost>>
  BY TellsDoes, UnlistedIs DEF SocketCloses

LEMMA PumpClosesStreamDoes ==
  ASSUME Typed, NEW i \in Streams, NEW p \in Pumps, PumpClosesStream(i, p)
  PROVE  /\ bridge[i][p] = "drop"
         /\ \/ /\ table' = [listed |-> table.listed \ {i}, owned |-> table.owned, last |-> table.last]
               /\ Pump(i, p, "shut") /\ (UNCHANGED device \/ (~conn.closed /\ Requests(i)))
            \/ Pump(i, p, "done") /\ UNCHANGED <<table, device>>
         /\ UNCHANGED <<use, caller, output, object, handle, conn, toHost>>
  BY TellsDoes, UnlistedIs DEF PumpClosesStream

LEMMA CloseStreamsDoes ==
  ASSUME Typed, CloseStreams
  PROVE  /\ conn.at = "streams" /\ (conn'.closed <=> conn.closed) /\ Objects'
         /\ \A s \in Streams : object'[s].life = object[s].life /\ (object'[s].refused <=> object[s].refused)
         /\ \A s \in Streams : s \notin table.owned => object'[s] = object[s]
         /\ table' = [listed |-> table.listed, owned |-> table.owned, last |-> NoStream]
         /\ UNCHANGED <<use, caller, output, handle, bridge, toHost, device, stale>>
<1>1. /\ conn.at = "streams" /\ (conn'.closed <=> conn.closed)
      /\ table' = [listed |-> table.listed, owned |-> table.owned, last |-> NoStream]
      /\ UNCHANGED <<use, caller, output, handle, bridge, toHost, device, stale>>
  BY DEF CloseStreams, Typed, Connection, Table
<1>2. object' = [s \in Streams |-> IF s \in table.owned \cup table.listed THEN Shut(object[s]) ELSE object[s]]
  BY DEF CloseStreams
<1>3. \A s \in Streams : /\ Shut(object[s]) \in ObjectType /\ Shut(object[s]).life = object[s].life
                          /\ (Shut(object[s]).refused <=> object[s].refused) /\ object[s] \in ObjectType
  <2> TAKE s \in Streams
  <2>1. object[s] \in ObjectType
    BY DEF Typed, Objects
  <2>2. Shut(object[s]) = Object(object[s].life, object[s].refused, TRUE, object[s].ring, TRUE)
    BY <2>1, EffectsType, ObjectChanges DEF Typed
  <2> QED
    <3>1. Object(object[s].life, object[s].refused, TRUE, object[s].ring, TRUE) \in ObjectType
      BY EffectsType DEF ObjectType, Object, Typed
    <3> QED
      BY <2>1, <2>2, <3>1 DEF Object
<1>4. Objects'
  BY <1>2, <1>3 DEF Objects
<1>5. \A s \in Streams : object'[s].life = object[s].life /\ (object'[s].refused <=> object[s].refused)
  BY <1>2, <1>3
<1>6. \A s \in Streams : s \notin table.owned => object'[s] = object[s]
  BY <1>2, <1>3 DEF Typed, Table
<1> QED
  BY <1>1, <1>4, <1>5, <1>6

LEMMA DestroyDoes ==
  ASSUME Typed, Destroy
  PROVE  /\ conn.closed /\ conn'.closed /\ Objects'
         /\ \A c \in Streams : caller[c] \in {"idle", "opened", "failed", "done"}
         /\ caller' = [c \in Streams |-> "done"]
         /\ \A s \in Streams : /\ (object'[s].refused <=> object[s].refused)
                               /\ s \in table.owned => object'[s].life = "deleted"
                               /\ s \notin table.owned => object'[s] = object[s]
         /\ table' = [listed |-> {}, owned |-> {}, last |-> NoStream]
         /\ UNCHANGED <<use, output, handle, bridge, toHost, device, stale>>
<1>1. /\ conn.closed /\ conn'.closed /\ caller' = [c \in Streams |-> "done"]
      /\ \A c \in Streams : caller[c] \in {"idle", "opened", "failed", "done"}
      /\ table' = [listed |-> {}, owned |-> {}, last |-> NoStream]
      /\ object' = [s \in Streams |-> IF s \in table.owned THEN [object[s] EXCEPT !.life = "deleted"] ELSE object[s]]
      /\ UNCHANGED <<use, output, handle, bridge, toHost, device, stale>>
  BY DEF Destroy, Typed, Connection
<1>2. \A s \in Streams : /\ [object[s] EXCEPT !.life = "deleted"] \in ObjectType /\ object[s] \in ObjectType
                          /\ [object[s] EXCEPT !.life = "deleted"].life = "deleted"
                          /\ ([object[s] EXCEPT !.life = "deleted"].refused <=> object[s].refused)
  <2> TAKE s \in Streams
  <2>1. object[s] \in ObjectType
    BY DEF Typed, Objects
  <2>2. [object[s] EXCEPT !.life = "deleted"] = Object("deleted", object[s].refused, object[s].closed, object[s].ring, object[s].shut)
    BY <2>1, EffectsType, ObjectChanges DEF Typed
  <2> QED
    BY <2>1, <2>2, EffectsType, ObjectsType DEF Typed
<1>3. Objects'
  BY <1>1, <1>2 DEF Objects
<1>4. \A s \in Streams : /\ (object'[s].refused <=> object[s].refused)
                         /\ s \in table.owned => object'[s].life = "deleted"
                         /\ s \notin table.owned => object'[s] = object[s]
  BY <1>1, <1>2
<1> QED
  BY <1>1, <1>3, <1>4

-----------------------------------------------------------------------------
(* Types.                                                                  *)

\* A message of the device, and no message, are messages.
LEMMA MessageType ==
  /\ NoMsg \in Messages /\ NoMsg.stream = NoStream /\ NoMsg.cmd = "none"
  /\ \A cmd \in Cmds, s \in Streams, r \in BOOLEAN :
       /\ Msg(cmd, s, r) \in Messages
       /\ Msg(cmd, s, r).cmd = cmd /\ Msg(cmd, s, r).stream = s /\ (Msg(cmd, s, r).refusal <=> r)
<1>1. \A cmd, s : \A r \in BOOLEAN : /\ Msg(cmd, s, r).cmd = cmd /\ Msg(cmd, s, r).stream = s
                                      /\ (Msg(cmd, s, r).refusal <=> r)
  BY DEF Msg
<1>2. \A cmd \in Cmds, s \in Streams \cup {NoStream}, r \in BOOLEAN : Msg(cmd, s, r) \in Messages
  BY DEF Msg, Messages
<1>3. NoMsg \in Messages
  BY DEF NoMsg, Msg, Messages, Cmds
<1>4. NoMsg.stream = NoStream /\ NoMsg.cmd = "none"
  BY DEF NoMsg, Msg
<1> QED
  BY <1>1, <1>2, <1>3, <1>4

\* What the device posts is a message of the line.
LEMMA PostsType ==
  ASSUME Sending, NEW cmd \in Cmds, NEW s \in Streams, NEW r \in BOOLEAN, Posts(cmd, s, r)
  PROVE  Sending'
<1>1. Msg(cmd, s, r) \in Messages
  BY MessageType
<1> QED
  BY <1>1, AppendProperties DEF Posts, Sending

\* The loop at a place, with a message and its pointers.
LEMMA AtType ==
  ASSUME NEW l \in {"read", "resolve", "act", "shut", "shutAgain", "unlist", "connect", "bridge",
                    "keep", "close", "ended"},
         NEW m \in Messages, NEW s \in Streams \cup {NoStream}, NEW c \in Streams \cup {NoStream}, At(l, m, s, c)
  PROVE  Handler'
  BY DEF At, Handler

\* The next turn of the loop.
LEMMA RestsType == ASSUME Rests PROVE Handler' /\ handle'.msg = NoMsg /\ handle'.at = "read"
                                      /\ handle'.stream = NoStream /\ handle'.cached = NoStream
<1>1. At("read", NoMsg, NoStream, NoStream)
  BY DEF Rests
<1> QED
  BY <1>1, AtType, AtIs, MessageType

\* A bridge with one of its parts changed.
LEMMA BridgeChanges ==
  ASSUME NEW b \in BridgeType
  PROVE  /\ \A l \in {"check", "copy", "exit", "drop", "shut", "done"}, p \in Pumps : [b EXCEPT ![p] = l] \in BridgeType
         /\ \A l \in {"wait", "send"} : [b EXCEPT !["toSocket"] = l] \in BridgeType
         /\ \A l \in {"none", "open", "closed"} : [b EXCEPT !.fd = l] \in BridgeType /\ [b EXCEPT !.peer = l] \in BridgeType
         /\ \A c \in BOOLEAN : [b EXCEPT !.kept = c] \in BridgeType /\ [b EXCEPT !.closed = c] \in BridgeType
  BY DEF BridgeType, Pumps

\* A bridge of which the first pump to come closes the socket.
LEMMA BridgeCloses ==
  ASSUME NEW b \in BridgeType, NEW p \in Pumps, NEW f \in {"none", "open", "closed"}
  PROVE  [b EXCEPT ![p] = "drop", !.closed = TRUE, !.fd = f] \in BridgeType
<1>1. \A c \in BOOLEAN : [b EXCEPT ![p] = "drop", !.closed = c, !.fd = f]
                          = [[[b EXCEPT ![p] = "drop"] EXCEPT !.closed = c] EXCEPT !.fd = f]
  OBVIOUS
<1>2. [b EXCEPT ![p] = "drop"] \in BridgeType
  BY BridgeChanges
<1>3. \A c \in BOOLEAN : [[b EXCEPT ![p] = "drop"] EXCEPT !.closed = c] \in BridgeType
  BY <1>2, BridgeChanges
<1>4. \A c \in BOOLEAN : [[[b EXCEPT ![p] = "drop"] EXCEPT !.closed = c] EXCEPT !.fd = f] \in BridgeType
  BY <1>3, BridgeChanges
<1> QED
  BY <1>1, <1>4

\* A pump's step leaves the other bridges alone.
LEMMA PumpDoes ==
  ASSUME Bridges, NEW i \in Streams, NEW p \in Pumps, NEW l, Pump(i, p, l),
         l \in {"check", "copy", "exit", "drop", "shut", "done"} \/ (p = "toSocket" /\ l \in {"wait", "send"})
  PROVE  Bridges' /\ \A t \in Streams : t # i => bridge'[t] = bridge[t]
<1>1. bridge \in [Streams -> BridgeType] /\ bridge[i] \in BridgeType
  BY DEF Bridges
<1>2. [bridge[i] EXCEPT ![p] = l] \in BridgeType
  BY <1>1, BridgeChanges
<1>3. bridge' = [bridge EXCEPT ![i] = [bridge[i] EXCEPT ![p] = l]]
  BY <1>1 DEF Pump
<1> QED
  BY <1>1, <1>2, <1>3 DEF Bridges
\* What the loop does with the bridge of its message.
LEMMA LoopBridges ==
  ASSUME Bridges, NEW s \in Streams,
         \/ bridge' = [bridge EXCEPT ![s].fd = "open", ![s].peer = "open"]
         \/ bridge' = [bridge EXCEPT ![s].toAdb = "check", ![s].toSocket = "check"]
         \/ bridge' = [bridge EXCEPT ![s].kept = TRUE]
  PROVE  /\ Bridges' /\ \A t \in Streams : t # s => bridge'[t] = bridge[t]
         /\ \/ bridge' = [bridge EXCEPT ![s].toAdb = "check", ![s].toSocket = "check"]
            \/ bridge'[s].toAdb = bridge[s].toAdb /\ bridge'[s].toSocket = bridge[s].toSocket
<1>1. bridge \in [Streams -> BridgeType] /\ bridge[s] \in BridgeType
  BY DEF Bridges
<1>2. \A b \in BridgeType : bridge' = [bridge EXCEPT ![s] = b] => Bridges' /\ \A t \in Streams : t # s => bridge'[t] = bridge[t]
  BY <1>1 DEF Bridges
<1>3. CASE bridge' = [bridge EXCEPT ![s].fd = "open", ![s].peer = "open"]
  <2>1. [[bridge[s] EXCEPT !.fd = "open"] EXCEPT !.peer = "open"] \in BridgeType
    BY <1>1, BridgeChanges
  <2>2. bridge' = [bridge EXCEPT ![s] = [[bridge[s] EXCEPT !.fd = "open"] EXCEPT !.peer = "open"]]
    BY <1>1, <1>3
  <2>3. bridge'[s].toAdb = bridge[s].toAdb /\ bridge'[s].toSocket = bridge[s].toSocket
    BY <1>1, <2>2 DEF BridgeType
  <2> QED
    BY <1>2, <2>1, <2>2, <2>3
<1>4. CASE bridge' = [bridge EXCEPT ![s].toAdb = "check", ![s].toSocket = "check"]
  <2>1. [[bridge[s] EXCEPT !.toAdb = "check"] EXCEPT !.toSocket = "check"] \in BridgeType
    BY <1>1, BridgeChanges DEF Pumps
  <2>2. bridge' = [bridge EXCEPT ![s] = [[bridge[s] EXCEPT !.toAdb = "check"] EXCEPT !.toSocket = "check"]]
    BY <1>1, <1>4
  <2> QED
    BY <1>2, <1>4, <2>1, <2>2
<1>5. CASE bridge' = [bridge EXCEPT ![s].kept = TRUE]
  <2>1. [bridge[s] EXCEPT !.kept = TRUE] \in BridgeType
    BY <1>1, BridgeChanges
  <2>2. bridge' = [bridge EXCEPT ![s] = [bridge[s] EXCEPT !.kept = TRUE]]
    BY <1>1, <1>5
  <2>3. bridge'[s].toAdb = bridge[s].toAdb /\ bridge'[s].toSocket = bridge[s].toSocket
    BY <1>1, <2>2 DEF BridgeType
  <2> QED
    BY <1>2, <2>1, <2>2, <2>3
<1> QED
  BY <1>3, <1>4, <1>5

\* What handleIncomingOpen leaves to the rest of the connection.
LEMMA HandleConnectsHas ==
  ASSUME Typed, Handling, HandleConnects
  PROVE  LET s == handle.msg.stream IN
         /\ s \in Streams
         /\ \/ Rests /\ UNCHANGED <<object, table, bridge>>
            \/ /\ table' = [listed |-> table.listed \cup {s}, owned |-> table.owned \cup {s}, last |-> s]
               /\ At("bridge", handle.msg, handle.stream, handle.cached)
  BY HandleConnectsDoes

\* What a step of a pump leaves as it was: the other bridges; and it is running already.
LEMMA PumpActs ==
  ASSUME Typed, NEW i \in Streams,
         \/ RecvCopies(i) \/ RecvEnds(i) \/ ReadStarts(i) \/ ReadReturns(i) \/ SocketWritten(i)
         \/ \E p \in Pumps : PumpChecks(i, p) \/ PumpClosesBridge(i, p) \/ PumpClosesStream(i, p) \/ PumpShuts(i, p)
  PROVE  /\ bridge[i].toAdb # "none" \/ bridge[i].toSocket # "none"
         /\ \A t \in Streams : t # i => bridge'[t] = bridge[t]
<1>1. bridge \in [Streams -> BridgeType]
  BY DEF Typed, Bridges
<1>2. \A t \in Streams : t # i => bridge'[t] = bridge[t]
  BY <1>1 DEF RecvCopies, RecvEnds, ReadStarts, ReadReturns, SocketWritten, PumpChecks, PumpClosesBridge,
     PumpClosesStream,
              PumpShuts, Pump
<1>3. bridge[i].toAdb # "none" \/ bridge[i].toSocket # "none"
  BY DEF RecvCopies, RecvEnds, ReadStarts, ReadReturns, SocketWritten, PumpChecks, PumpClosesBridge,
     PumpClosesStream,
         PumpShuts, Pumps
<1> QED
  BY <1>2, <1>3

\* What the rest does with the bridges leaves the pumps as they are.
LEMMA PumpsSame ==
  ASSUME Typed, CloseBridges \/ \E i \in Streams : PeerCloses(i)
  PROVE  \A s \in Streams : bridge'[s].toAdb = bridge[s].toAdb /\ bridge'[s].toSocket = bridge[s].toSocket
<1>1. bridge \in [Streams -> BridgeType]
  BY DEF Typed, Bridges
<1>2. CASE CloseBridges
  BY <1>1, <1>2 DEF CloseBridges, BridgeType
<1>3. CASE \E i \in Streams : PeerCloses(i)
  BY <1>1, <1>3 DEF PeerCloses, BridgeType
<1> QED
  BY <1>2, <1>3

-----------------------------------------------------------------------------
(* The line of messages underway.                                          *)

\* The line as it was.
LEMMA LineSame ==
  ASSUME handle'.msg = handle.msg, toHost' = toHost
  PROVE  /\ Numbers' = Numbers
         /\ \A n \in Numbers : Message(n)' = Message(n)
         /\ \A s \in Streams : Underway(s)' = Underway(s) /\ Payloads(s)' = Payloads(s)
<1>1. Numbers' = Numbers
  BY DEF Numbers
<1>2. \A n : Message(n)' = Message(n)
  BY DEF Message
<1> QED
  BY <1>1, <1>2 DEF Underway, Payloads

\* The line without the message the loop worked on.
LEMMA LineTurns ==
  ASSUME Typed, Rests, toHost' = toHost
  PROVE  /\ Numbers' = Numbers
         /\ \A n \in Numbers : n # 0 => Message(n)' = Message(n)
         /\ \A s \in Streams : Underway(s)' = Underway(s) \ {0} /\ Payloads(s)' = Payloads(s) \ {0}
<1>1. Numbers' = Numbers
  BY DEF Numbers
<1>2. \A n : n # 0 => Message(n)' = Message(n)
  BY DEF Message
<1>3. Message(0)' = NoMsg
  BY RestsType DEF Message
<1>4. \A s \in Streams : NoMsg.stream # s
  BY MessageType, StreamsAssumption
<1> QED
  BY <1>1, <1>2, <1>3, <1>4 DEF Underway, Payloads

\* The line with the message that the loop has read moved to its front.
LEMMA LineMoves ==
  ASSUME Typed, Handling, HandleReads
  PROVE  /\ handle'.msg = toHost[1]
         /\ \A s \in Streams : /\ \A n \in Underway(s)' : n \in Nat /\ n + 1 \in Underway(s) /\ Message(n)' = Message(n + 1)
                               /\ \A n \in Underway(s) : n # 0 /\ n - 1 \in Underway(s)' /\ Message(n - 1)' = Message(n)
<1>1. /\ handle.at = "read" /\ toHost # <<>> /\ toHost' = Tail(toHost) /\ handle'.msg = toHost[1]
  BY HandleReadsDoes, AtIs
<1>2. /\ Len(toHost) \in Nat \ {0} /\ Len(toHost') = Len(toHost) - 1
      /\ \A n \in 1..Len(toHost') : toHost'[n] = toHost[n + 1]
  BY <1>1, HeadTailProperties, EmptySeq, LenProperties DEF Typed, Sending
<1>3. Numbers' = 0..(Len(toHost) - 1) /\ Numbers = 0..Len(toHost)
  BY <1>2 DEF Numbers
<1>4. \A n \in Numbers' : n \in Nat /\ n + 1 \in Numbers /\ Message(n)' = Message(n + 1)
  <2> TAKE n \in Numbers'
  <2>1. n \in 0..(Len(toHost) - 1)
    BY <1>3
  <2>2. CASE n = 0
    BY <1>1, <1>2, <1>3, <2>1, <2>2 DEF Message
  <2>3. CASE n # 0
    <3>1. n \in 1..Len(toHost')
      BY <1>2, <2>1, <2>3
    <3>2. toHost'[n] = toHost[n + 1]
      BY <1>2, <3>1
    <3> QED
      BY <1>2, <1>3, <2>1, <2>3, <3>2 DEF Message
  <2> QED
    BY <2>2, <2>3
<1>5. \A s \in Streams : 0 \notin Underway(s)
  BY <1>1, StreamsAssumption DEF Underway, Message, Handling
<1>6. \A n \in Numbers : n # 0 => n - 1 \in Numbers' /\ Message(n - 1)' = Message(n)
  <2> SUFFICES ASSUME NEW n \in Numbers, n # 0
               PROVE  n - 1 \in Numbers' /\ Message(n - 1)' = Message(n)
    OBVIOUS
  <2>1. n \in Nat /\ n - 1 \in Numbers' /\ (n - 1) + 1 = n
    BY <1>2, <1>3
  <2>2. Message(n - 1)' = Message((n - 1) + 1)
    BY <1>4, <2>1
  <2> QED
    BY <2>1, <2>2
<1>7. ASSUME NEW s \in Streams, NEW n \in Underway(s)'
      PROVE  n \in Nat /\ n + 1 \in Underway(s) /\ Message(n)' = Message(n + 1)
  BY <1>4 DEF Underway
<1>8. ASSUME NEW s \in Streams, NEW n \in Underway(s)
      PROVE  n # 0 /\ n - 1 \in Underway(s)' /\ Message(n - 1)' = Message(n)
  <2>1. n # 0 /\ n \in Numbers /\ Message(n).stream = s
    BY <1>5 DEF Underway
  <2>2. n - 1 \in Numbers' /\ Message(n - 1)' = Message(n)
    BY <1>6, <2>1
  <2> QED
    BY <2>1, <2>2 DEF Underway
<1> QED
  BY <1>1, <1>7, <1>8

\* The line with a message that the device posts at its end.
LEMMA LineGrows ==
  ASSUME Typed, NEW cmd \in Cmds, NEW s \in Streams, NEW r \in BOOLEAN, Posts(cmd, s, r), UNCHANGED handle
  PROVE  \E e \in Nat \ {0} :
           /\ \A n \in Numbers : n < e /\ Message(n)' = Message(n)
           /\ e \in Numbers' /\ Message(e)'.cmd = cmd /\ Message(e)'.stream = s /\ (Message(e)'.refusal <=> r)
           /\ \A t \in Streams : t # s => Underway(t)' = Underway(t) /\ Payloads(t)' = Payloads(t)
           /\ Underway(s)' = Underway(s) \cup {e}
           /\ Payloads(s)' = IF cmd = "WRTE" THEN Payloads(s) \cup {e} ELSE Payloads(s)
<1> DEFINE m == Msg(cmd, s, r)
<1>0. m \in Messages /\ m.cmd = cmd /\ m.stream = s /\ (m.refusal <=> r)
  BY MessageType
<1>9. Len(toHost) \in Nat
  BY LenProperties DEF Typed, Sending
<1> SUFFICES ASSUME NEW e \in Nat, e = Len(toHost) + 1
             PROVE  /\ \A n \in Numbers : n < e /\ Message(n)' = Message(n)
                    /\ e \in Numbers' /\ Message(e)' = m
                    /\ \A t \in Streams : t # s => Underway(t)' = Underway(t) /\ Payloads(t)' = Payloads(t)
                    /\ Underway(s)' = Underway(s) \cup {e}
                    /\ Payloads(s)' = IF cmd = "WRTE" THEN Payloads(s) \cup {e} ELSE Payloads(s)
  <2>1. Len(toHost) + 1 \in Nat \ {0}
    BY <1>9
  <2> HIDE DEF m
  <2> QED
    BY <1>0, <2>1
<1>1. toHost' = Append(toHost, m)
  BY DEF Posts
<1> HIDE DEF m
<1>2. /\ Len(toHost) \in Nat /\ Len(toHost') = Len(toHost) + 1 /\ toHost'[e] = m
      /\ \A n \in 1..Len(toHost) : toHost'[n] = toHost[n]
  BY <1>0, <1>1, AppendProperties, LenProperties DEF Typed, Sending
<1>3. Numbers = 0..Len(toHost) /\ Numbers' = Numbers \cup {e} /\ e \notin Numbers /\ e \in Nat \ {0}
  BY <1>2 DEF Numbers
<1>4. \A n \in Numbers : Message(n)' = Message(n)
  <2> TAKE n \in Numbers
  <2>1. n = 0 \/ n \in 1..Len(toHost)
    BY <1>2, <1>3
  <2>2. CASE n = 0
    BY <2>2 DEF Message
  <2>3. CASE n # 0
    BY <1>2, <2>1, <2>3 DEF Message
  <2> QED
    BY <2>2, <2>3
<1>5. Message(e)' = m
  BY <1>2, <1>3 DEF Message
<1>6. \A t \in Streams : Underway(t)' = IF t = s THEN Underway(t) \cup {e} ELSE Underway(t)
  <2> TAKE t \in Streams
  <2>1. \A n : n \in Underway(t)' <=> n \in Numbers' /\ Message(n)'.stream = t
    BY DEF Underway
  <2>2. \A n : n \in Underway(t) <=> n \in Numbers /\ Message(n).stream = t
    BY DEF Underway
  <2>3. \A n : n \in Underway(t)' <=> n \in Underway(t) \/ (n = e /\ s = t)
    BY <1>0, <1>3, <1>4, <1>5, <2>1, <2>2
  <2> QED
    BY <2>3
<1>7. \A t \in Streams : Payloads(t)' = IF t = s /\ cmd = "WRTE" THEN Payloads(t) \cup {e} ELSE Payloads(t)
  <2> TAKE t \in Streams
  <2>1. \A n : n \in Payloads(t)' <=> n \in Underway(t)' /\ Message(n)'.cmd = "WRTE"
    BY DEF Payloads
  <2>2. \A n : n \in Payloads(t) <=> n \in Underway(t) /\ Message(n).cmd = "WRTE"
    BY DEF Payloads
  <2>3. \A n \in Underway(t) : n \in Numbers
    BY DEF Underway
  <2>4. \A n : n \in Underway(t)' <=> n \in Underway(t) \/ (n = e /\ t = s)
    BY <1>6
  <2>5. \A n : n \in Payloads(t)' <=> n \in Payloads(t) \/ (n = e /\ t = s /\ cmd = "WRTE")
    BY <1>0, <1>4, <1>5, <2>1, <2>2, <2>3, <2>4
  <2> QED
    BY <2>5
<1>8. \A n \in Numbers : n < e
  BY <1>2, <1>3
<1> QED
  BY <1>0, <1>3, <1>4, <1>5, <1>6, <1>7, <1>8

\* The line when the connection is closed: nothing of it but the message of the loop is left.
LEMMA LineCleared ==
  ASSUME Typed, toHost' = <<>>, handle'.msg \in {handle.msg, NoMsg}
  PROVE  /\ \A s \in Streams : Underway(s)' \subseteq Underway(s) /\ Underway(s)' \subseteq {0}
         /\ \A s \in Streams : \A n \in Underway(s)' : Message(n)' = Message(n)
<1>1. Numbers' = 0..0
  <2>1. Len(<<>>) = 0
    BY EmptySeq
  <2> QED
    BY <2>1 DEF Numbers
<1>2. \A s \in Streams : \A n \in Underway(s)' : n = 0 /\ handle'.msg.stream = s
  BY <1>1 DEF Underway, Message
<1>3. \A s \in Streams : NoMsg.stream # s
  BY MessageType, StreamsAssumption
<1>4. ASSUME NEW s \in Streams, NEW n \in Underway(s)'
      PROVE  n = 0 /\ handle'.msg = handle.msg /\ handle.msg.stream = s
  BY <1>2, <1>3
<1>5. ASSUME Typed PROVE 0 \in Numbers
  BY LenProperties DEF Typed, Sending, Numbers
<1> QED
  BY <1>4, <1>5 DEF Underway, Message
\* The messages underway are of those that were, and each is still what it was.
Fewer ==
  \A s \in Streams : Underway(s)' \subseteq Underway(s) /\ \A n \in Underway(s)' : Message(n)' = Message(n)

\* No message is added when the loop keeps its message, ...
LEMMA Fewer1 == ASSUME handle'.msg = handle.msg, toHost' = toHost PROVE Fewer
<1>1. \A s \in Streams : \A n \in Underway(s) : n \in Numbers
  BY DEF Underway
<1> QED
  BY <1>1, LineSame DEF Fewer

\* ... or drops it.
LEMMA Fewer2 == ASSUME Typed, Rests, toHost' = toHost PROVE Fewer
<1>1. \A s \in Streams : \A n \in Underway(s) : n \in Numbers
  BY DEF Underway
<1> QED
  BY <1>1, LineTurns DEF Fewer

\* The steps of the loop but the first, and those that end it, add no message.
LEMMA LoopFewer ==
  ASSUME Typed, Handling,
         \/ HandleResolves \/ HandleWrte \/ HandleOkay \/ HandleClse \/ HandleShuts \/ HandleUnlists \/ HandleConnects
         \/ HandleBridges \/ HandleKeeps \/ HandleEnds \/ CloseReturns \/ \E t \in {"application", "send"} : Close(t)
  PROVE  Fewer
<1>1. ASSUME NEW l, NEW s, NEW c, At(l, handle.msg, s, c), toHost' = toHost PROVE Fewer
  BY <1>1, AtIs, Fewer1
<1>2. CASE HandleResolves
  BY <1>1, <1>2, HandleResolvesDoes
<1>3. CASE HandleWrte
  BY <1>3, HandleWrteDoes, Fewer2
<1>4. CASE HandleOkay
  BY <1>4, HandleOkayDoes, Fewer2
<1>5. CASE HandleClse
  BY <1>1, <1>5, HandleClseDoes, Fewer2
<1>6. CASE HandleShuts
  BY <1>1, <1>6, HandleShutsDoes, Fewer2
<1>7. CASE HandleUnlists
  BY <1>7, HandleUnlistsDoes, Fewer2
<1>8. CASE HandleConnects
  <2>1. toHost' = toHost
    BY <1>8 DEF HandleConnects
  <2> QED
    BY <1>1, <1>8, <2>1, HandleConnectsHas, Fewer2
<1>9. CASE HandleBridges
  BY <1>1, <1>9, HandleBridgesDoes
<1>10. CASE HandleKeeps
  BY <1>10, HandleKeepsDoes, Fewer2
<1>11. CASE HandleEnds
  <2>1. handle'.msg = NoMsg /\ toHost' = <<>>
    BY <1>11, HandleEndsDoes, AtIs
  <2> QED
    BY <2>1, LineCleared DEF Fewer
<1>12. CASE CloseReturns
  <2>1. handle'.msg = handle.msg /\ toHost' = toHost
    BY <1>12, CloseReturnsDoes, AtIs
  <2> QED
    BY <2>1, Fewer1
<1>13. CASE \E t \in {"application", "send"} : Close(t)
  <2>1. handle'.msg = handle.msg /\ toHost' = <<>>
    BY <1>13, CloseDoes
  <2> QED
    BY <2>1, LineCleared DEF Fewer
<1> QED
  BY <1>2, <1>3, <1>4, <1>5, <1>6, <1>7, <1>8, <1>9, <1>10, <1>11, <1>12, <1>13

\* The device's end of s is now at a, and the others are where they were.
Moves(s, a) == device'[s].at = a /\ \A t \in Streams : t # s => device'[t].at = device[t].at
Unmoved == \A t \in Streams : device'[t].at = device[t].at

\* The steps that tell the device something do not move it, unless they open a stream.
LEMMA HostMoves ==
  ASSUME Typed, Handling
  PROVE  /\ \A c \in Streams : Open(c) => Unmoved \/ (~conn.closed /\ Moves(c, "asked"))
         /\ HandleWrte \/ (\E c \in Streams : SocketCloses(c)) \/ (\E i \in Streams, p \in Pumps : PumpClosesStream(i, p)) => Unmoved
         /\ HandleConnects => Unmoved \/ (~conn.closed /\ Moves(handle.msg.stream, "open"))
<1>1. ASSUME NEW c \in Streams, Open(c) PROVE Unmoved \/ (~conn.closed /\ Moves(c, "asked"))
  BY <1>1, OpenDoes, TurnsDoes DEF Typed, Unmoved, Moves
<1>2. ASSUME NEW c \in Streams, UNCHANGED device \/ Requests(c) PROVE Unmoved
  BY <1>2, RequestsDoes DEF Typed, Unmoved
<1>3. ASSUME NEW c \in Streams, SocketCloses(c) PROVE Unmoved
  BY <1>2, <1>3, SocketClosesDoes
<1>4. ASSUME NEW i \in Streams, NEW p \in Pumps, PumpClosesStream(i, p) PROVE Unmoved
  BY <1>2, <1>4, PumpClosesStreamDoes
<1>5. ASSUME HandleWrte PROVE Unmoved
  <2>1. UNCHANGED device \/ (handle.msg.stream \in Streams /\ Acknowledges(handle.msg.stream))
    BY <1>5, HandleWrteDoes
  <2> QED
    BY <2>1, AcknowledgesDoes DEF Typed, Unmoved
<1>6. ASSUME HandleConnects PROVE Unmoved \/ (~conn.closed /\ Moves(handle.msg.stream, "open"))
  <2>1. /\ handle.msg.stream \in Streams
        /\ \/ UNCHANGED device \/ Requests(handle.msg.stream)
           \/ ~conn.closed /\ Turns(handle.msg.stream, "open")
    BY <1>6, HandleConnectsDoes
  <2>2. CASE UNCHANGED device \/ Requests(handle.msg.stream)
    BY <1>2, <2>1, <2>2
  <2>3. CASE ~conn.closed /\ Turns(handle.msg.stream, "open")
    BY <2>1, <2>3, TurnsDoes DEF Typed, Moves
  <2> QED
    BY <2>1, <2>2, <2>3
<1> QED
  BY <1>1, <1>3, <1>4, <1>5, <1>6

\* The steps of the device move it, and it says so.
LEMMA DeviceMoves ==
  ASSUME Typed, NEW s \in Streams
  PROVE  /\ DeviceAnswers(s) => device[s].at = "asked" /\ use[s] # "bridge" /\ (Moves(s, "open") \/ Moves(s, "refused"))
         /\ DeviceOpens(s) => device[s].at = "none" /\ use[s] = "bridge" /\ Moves(s, "asked")
         /\ DeviceWrites(s) => device[s].at = "open" /\ Unmoved
         /\ DeviceCloses(s) => device[s].at = "open" /\ Moves(s, "closed")
         /\ DeviceGetsClose(s) => device[s].at \in {"asked", "open"} /\ Moves(s, "closed")
<1>1. \A a \in {"asked", "open", "refused", "closed"} : Turns(s, a) => Moves(s, a)
  BY TurnsDoes DEF Typed, Moves
<1>2. device[s].wrote < MaxWrites /\ Writes(s) => Unmoved
  BY WritesDoes DEF Typed, Unmoved
<1>3. DeviceAnswers(s) => device[s].at = "asked" /\ use[s] # "bridge" /\ (Moves(s, "open") \/ Moves(s, "refused"))
  BY <1>1, DeviceAnswersDoes
<1>4. DeviceOpens(s) => device[s].at = "none" /\ use[s] = "bridge" /\ Moves(s, "asked")
  BY <1>1, DeviceOpensDoes
<1>5. DeviceWrites(s) => device[s].at = "open" /\ Unmoved
  BY <1>2, DeviceWritesDoes
<1>6. DeviceCloses(s) => device[s].at = "open" /\ Moves(s, "closed")
  BY <1>1, DeviceClosesDoes
<1>7. DeviceGetsClose(s) => device[s].at \in {"asked", "open"} /\ Moves(s, "closed")
  BY <1>1, DeviceGetsCloseDoes
<1> QED
  BY <1>3, <1>4, <1>5, <1>6, <1>7
\* The loop fits its message when its turn ends, ...
LEMMA HandlingRests == ASSUME Typed, Handling, Rests, toHost' = toHost PROVE Handling'
  BY RestsType, MessageType DEF Handling

\* ... and when the device posts another.
LEMMA HandlingPosts ==
  ASSUME Typed, Handling, NEW cmd \in Cmds \ {"none"}, NEW s \in Streams, NEW r \in BOOLEAN, Posts(cmd, s, r),
         UNCHANGED handle
  PROVE  Handling'
<1> DEFINE m == Msg(cmd, s, r)
<1>1. m \in Messages /\ m.cmd = cmd /\ m.stream = s
  BY MessageType
<1>2. toHost' = Append(toHost, m)
  BY DEF Posts
<1> HIDE DEF m
<1>3. /\ Len(toHost) \in Nat /\ Len(toHost') = Len(toHost) + 1 /\ toHost'[Len(toHost) + 1] = m
      /\ \A n \in 1..Len(toHost) : toHost'[n] = toHost[n]
  BY <1>1, <1>2, AppendProperties, LenProperties DEF Typed, Sending
<1>4. \A n \in 1..Len(toHost') : toHost'[n].stream \in Streams /\ toHost'[n].cmd # "none"
  BY <1>1, <1>3 DEF Handling
<1> QED
  BY <1>4 DEF Handling

\* What the device has said of its streams, when it says no more and moves none ...
LEMMA SpeaksFewer == ASSUME Speaking, Fewer, Unmoved, UNCHANGED use PROVE Speaking'
<1> SUFFICES ASSUME NEW s \in Streams PROVE Speaks(s)'
  BY DEF Speaking
<1>1. Speaks(s) /\ device'[s].at = device[s].at
  BY DEF Speaking, Unmoved
<1>2. Underway(s)' \subseteq Underway(s) /\ \A n \in Underway(s)' : Message(n)' = Message(n)
  BY DEF Fewer
<1> QED
  BY <1>1, <1>2 DEF Speaks

\* ... when it moves one of which it has said nothing, or that goes on as it was ...
LEMMA SpeaksMoved ==
  ASSUME Speaking, Fewer, UNCHANGED use, NEW s \in Streams, NEW a, Moves(s, a), a # "refused", device[s].at # "refused",
         use[s] # "bridge" => device[s].at \in {"none", "asked"} \/ a \in {"open", "closed"}
  PROVE  Speaking'
<1> SUFFICES ASSUME NEW t \in Streams PROVE Speaks(t)'
  BY DEF Speaking
<1>1. Speaks(t) /\ IF t = s THEN device'[t].at = a ELSE device'[t].at = device[t].at
  BY DEF Speaking, Moves
<1>2. Underway(t)' \subseteq Underway(t) /\ \A n \in Underway(t)' : Message(n)' = Message(n)
  BY DEF Fewer
<1> QED
  BY <1>1, <1>2 DEF Speaks

\* ... and when it says something.
LEMMA SpeaksMore ==
  ASSUME Typed, Speaking, UNCHANGED <<use, handle>>, NEW cmd \in Cmds, NEW s \in Streams, NEW r \in BOOLEAN,
         Posts(cmd, s, r), Unmoved \/ \E a : Moves(s, a),
         r <=> device'[s].at = "refused", cmd = "OPEN" => use[s] = "bridge", r => use[s] # "bridge",
         use[s] # "bridge" => device'[s].at \in {"open", "closed", "refused"},
         \/ use[s] # "bridge" /\ device[s].at \in {"none", "asked"}
         \/ device[s].at = "refused" <=> device'[s].at = "refused"
  PROVE  Speaking'
<1> SUFFICES ASSUME NEW t \in Streams PROVE Speaks(t)'
  BY DEF Speaking
<1>1. Speaks(t) /\ (t # s => device'[t].at = device[t].at)
  BY DEF Speaking, Moves, Unmoved
<1>2. PICK e \in Nat \ {0} :
        /\ \A n \in Numbers : Message(n)' = Message(n)
        /\ Message(e)'.cmd = cmd /\ (Message(e)'.refusal <=> r)
        /\ Underway(t)' = IF t = s THEN Underway(t) \cup {e} ELSE Underway(t)
  BY LineGrows
<1>3. \A n \in Underway(t) : Message(n)' = Message(n)
  BY <1>2 DEF Underway
<1>4. CASE t # s
  BY <1>1, <1>2, <1>3, <1>4 DEF Speaks
<1>5. CASE t = s
  <2>1. device'[s].at = "refused" => use[s] # "bridge"
    OBVIOUS
  <2>2. ASSUME NEW n \in Underway(s)'
        PROVE  /\ Message(n)'.refusal <=> device'[s].at = "refused"
               /\ Message(n)'.cmd = "OPEN" => use[s] = "bridge"
               /\ use[s] # "bridge" => device'[s].at \in {"open", "closed", "refused"}
    <3>1. CASE n = e
      BY <1>2, <3>1
    <3>2. CASE n \in Underway(s)
      BY <1>1, <1>3, <1>5, <3>2 DEF Speaks
    <3> QED
      BY <1>2, <1>5, <2>2, <3>1, <3>2
  <2> QED
    BY <1>5, <2>1, <2>2 DEF Speaks
<1> QED
  BY <1>4, <1>5
\* The object of s is another one, but the same stream's, and it has not come or gone.
Touches(s) ==
  /\ s \in Streams /\ object[s].life # "none" /\ object'[s].life = object[s].life
  /\ object'[s].refused <=> object[s].refused
  /\ \A t \in Streams : t # s => object'[t] = object[t]

\* What uses the object of a stream has one.
LEMMA Touching ==
  ASSUME Typed, Handling, Living, Pointing, Calling,
         \/ \E c \in Streams : CommandCollects(c) \/ SocketReads(c) \/ SocketShuts(c)
         \/ \E i \in Streams : ReadReturns(i) \/ \E p \in Pumps : PumpShuts(i, p)
         \/ HandleWrte \/ HandleClse \/ HandleShuts
  PROVE  UNCHANGED object \/ \E s \in Streams : Touches(s)
<1>1. ASSUME NEW s \in Streams, object[s].life # "none",
             Empties(s) \/ Shuts(s) \/ Marks(s) \/ Ends(s) \/ (object[s].ring < RingSpace /\ Fills(s))
      PROVE  Touches(s)
  BY <1>1, EmptiesDoes, ShutsDoes, MarksDoes, EndsDoes, FillsDoes DEF Typed, Touches
<1>2. \A s \in Streams : s \in table.owned \/ s = handle.stream => object[s].life # "none"
  BY DEF Living, Lives, Pointing, Points
<1>3. ASSUME NEW c \in Streams, CommandCollects(c) PROVE UNCHANGED object \/ Touches(c)
  <2>1. UNCHANGED object \/ (Empties(c) /\ c \in table.owned)
    BY <1>3, CommandCollectsDoes DEF Finds, Typed, Table
  <2> QED
    BY <1>1, <1>2, <2>1
<1>4. ASSUME NEW c \in Streams, SocketReads(c) PROVE Touches(c)
  <2>1. Empties(c) /\ c \in table.owned
    BY <1>4, SocketReadsDoes DEF Calling, Calls
  <2> QED
    BY <1>1, <1>2, <2>1
<1>5. ASSUME NEW c \in Streams, SocketShuts(c) PROVE Touches(c)
  <2>1. Shuts(c) /\ c \in table.owned
    BY <1>5, SocketShutsDoes DEF Calling, Calls
  <2> QED
    BY <1>1, <1>2, <2>1
<1>6. ASSUME NEW i \in Streams, ReadReturns(i) PROVE Touches(i)
  <2>1. Empties(i) /\ object[i].life # "none"
    BY <1>6, ReadReturnsDoes DEF Pointing, Points
  <2> QED
    BY <1>1, <2>1
<1>7. ASSUME NEW i \in Streams, NEW p \in Pumps, PumpShuts(i, p) PROVE Touches(i)
  <2>1. Shuts(i) /\ object[i].life # "none"
    BY <1>7, PumpShutsDoes DEF Pointing, Points, Pumps
  <2> QED
    BY <1>1, <2>1
<1>8. CASE HandleWrte
  <2>1. \/ UNCHANGED object
        \/ /\ handle.stream \in Streams /\ object[handle.stream].ring < RingSpace /\ Fills(handle.stream)
    BY <1>8, HandleWrteDoes
  <2> QED
    BY <1>1, <1>2, <2>1
<1>9. CASE HandleClse
  <2>1. UNCHANGED object \/ (handle.stream \in Streams /\ Marks(handle.stream))
    BY <1>9, HandleClseDoes
  <2> QED
    BY <1>1, <1>2, <2>1
<1>10. CASE HandleShuts
  <2>1. handle.stream \in Streams /\ Ends(handle.stream)
    BY <1>10, HandleShutsDoes
  <2> QED
    BY <1>1, <1>2, <2>1
<1> QED
  BY <1>3, <1>4, <1>5, <1>6, <1>7, <1>8, <1>9, <1>10

\* The objects there are when one of them is used, ...
LEMMA LivesTouched ==
  ASSUME Living, Unmoved, UNCHANGED use, table'.owned \subseteq table.owned,
         UNCHANGED object \/ \E s \in Streams : Touches(s)
  PROVE  Living'
<1> SUFFICES ASSUME NEW t \in Streams PROVE Lives(t)'
  BY DEF Living
<1>1. Lives(t) /\ device'[t].at = device[t].at
  BY DEF Living, Unmoved
<1>2. CASE UNCHANGED object
  BY <1>1, <1>2 DEF Lives
<1>3. CASE \E s \in Streams : Touches(s)
  <2>1. PICK s \in Streams : Touches(s)
    BY <1>3
  <2>2. CASE t = s
    BY <1>1, <2>1, <2>2 DEF Lives, Touches
  <2>3. CASE t # s
    BY <1>1, <2>1, <2>3 DEF Lives, Touches
  <2> QED
    BY <2>2, <2>3
<1> QED
  BY <1>2, <1>3

\* ... when the device moves a stream, ...
LEMMA LivesMoved ==
  ASSUME Living, UNCHANGED <<use, object, table>>, NEW s \in Streams, NEW a, Moves(s, a),
         \/ a # "refused" /\ device[s].at # "refused" /\ (use[s] # "bridge" => device[s].at \in {"none", "asked"} \/ a \in {"open", "closed"})
         \/ device[s].at = "asked" /\ use[s] # "bridge"
  PROVE  Living'
<1> SUFFICES ASSUME NEW t \in Streams PROVE Lives(t)'
  BY DEF Living
<1>1. Lives(t) /\ IF t = s THEN device'[t].at = a ELSE device'[t].at = device[t].at
  BY DEF Living, Moves
<1> QED
  BY <1>1 DEF Lives

\* ... and when one is made.
LEMMA LivesMade ==
  ASSUME Typed, Living, UNCHANGED use, NEW s \in Streams, NEW r \in BOOLEAN, Makes(s, r), Unmoved \/ \E a : Moves(s, a),
         table'.owned = table.owned \cup {s}, r <=> device'[s].at = "refused",
         use[s] # "bridge" => device'[s].at \in {"open", "closed", "refused"}
  PROVE  Living'
<1> SUFFICES ASSUME NEW t \in Streams PROVE Lives(t)'
  BY DEF Living
<1>1. Lives(t) /\ (t # s => device'[t].at = device[t].at)
  BY DEF Living, Moves, Unmoved
<1>2. /\ object'[s].life = "live" /\ (object'[s].refused <=> r)
      /\ \A u \in Streams : u # s => object'[u] = object[u]
  BY MakesDoes DEF Typed
<1>3. CASE t = s
  BY <1>2, <1>3 DEF Lives
<1>4. CASE t # s
  BY <1>1, <1>2, <1>4 DEF Lives
<1> QED
  BY <1>3, <1>4
\* An object that there was is still there, or its memory is.
Alive == \A s \in Streams : object[s].life # "none" => object'[s].life # "none"

\* Using an object keeps all that there are.
LEMMA AliveTouched == ASSUME UNCHANGED object \/ \E s \in Streams : Touches(s) PROVE Alive
  BY DEF Touches, Alive

\* No pump is started.
StartsNone ==
  \A s \in Streams : bridge'[s].toAdb # "none" \/ bridge'[s].toSocket # "none" =>
                       bridge[s].toAdb # "none" \/ bridge[s].toSocket # "none"

\* The pointers of a step are those that there were, none, or one to an object that there is.
LEMMA PointsOn ==
  ASSUME Typed, Pointing, Alive, UNCHANGED use, StartsNone, NEW q, q \in Streams => object'[q].life # "none",
         table'.last \in {table.last, NoStream, q},
         handle'.cached \in {table.last, handle.cached, NoStream, q},
         handle'.stream \in {handle.stream, NoStream, q},
         handle'.at = "bridge" => handle'.msg.stream = q \/ (handle.at = "bridge" /\ handle'.msg = handle.msg)
  PROVE  Pointing'
<1> SUFFICES ASSUME NEW s \in Streams PROVE Points(s)'
  BY DEF Pointing
<1>1. Points(s) /\ (object[s].life # "none" => object'[s].life # "none")
  BY DEF Pointing, Alive
<1>2. s # NoStream
  BY StreamsAssumption
<1>3. s \in {table'.last, handle'.cached, handle'.stream} => object'[s].life # "none"
  BY <1>1, <1>2 DEF Points
<1>4. handle'.at = "bridge" /\ handle'.msg.stream = s => object'[s].life # "none"
  BY <1>1 DEF Points
<1>5. bridge'[s].toAdb # "none" \/ bridge'[s].toSocket # "none" => use'[s] = "bridge" /\ object'[s].life # "none"
  BY <1>1 DEF Points, StartsNone
<1> QED
  BY <1>3, <1>4, <1>5 DEF Points

\* The steps of a pump are those of one that has started.
LEMMA PumpsStarted ==
  ASSUME Typed, NEW i \in Streams,
         \/ RecvCopies(i) \/ RecvEnds(i) \/ ReadStarts(i) \/ ReadReturns(i) \/ SocketWritten(i)
         \/ \E p \in Pumps : PumpChecks(i, p) \/ PumpClosesBridge(i, p) \/ PumpClosesStream(i, p) \/ PumpShuts(i, p)
  PROVE  StartsNone
  BY PumpActs DEF StartsNone

\* What the loop sets in a bridge is nothing of its pumps.
LEMMA LoopKeeps ==
  ASSUME Bridges, NEW s \in Streams,
         \/ bridge' = [bridge EXCEPT ![s].fd = "open", ![s].peer = "open"]
         \/ bridge' = [bridge EXCEPT ![s].kept = TRUE]
  PROVE  bridge'[s].toAdb = bridge[s].toAdb /\ bridge'[s].toSocket = bridge[s].toSocket
<1>1. bridge \in [Streams -> BridgeType]
  BY DEF Bridges
<1>2. CASE bridge' = [bridge EXCEPT ![s].fd = "open", ![s].peer = "open"]
  BY <1>1, <1>2 DEF BridgeType
<1>3. CASE bridge' = [bridge EXCEPT ![s].kept = TRUE]
  BY <1>1, <1>3 DEF BridgeType
<1> QED
  BY <1>2, <1>3

\* The loop starts no pump but those of a bridge it has made.
LEMMA LoopStarts == ASSUME Typed, Handling, HandleConnects \/ HandleKeeps PROVE StartsNone
<1>1. /\ handle.msg.stream \in Streams
      /\ \/ UNCHANGED bridge
         \/ bridge' = [bridge EXCEPT ![handle.msg.stream].fd = "open", ![handle.msg.stream].peer = "open"]
         \/ bridge' = [bridge EXCEPT ![handle.msg.stream].kept = TRUE]
  BY DEF HandleConnects, HandleKeeps, Handling
<1>2. CASE UNCHANGED bridge
  BY <1>2 DEF StartsNone
<1>3. ASSUME \/ bridge' = [bridge EXCEPT ![handle.msg.stream].fd = "open", ![handle.msg.stream].peer = "open"]
             \/ bridge' = [bridge EXCEPT ![handle.msg.stream].kept = TRUE]
      PROVE  StartsNone
  <2>1. bridge'[handle.msg.stream].toAdb = bridge[handle.msg.stream].toAdb
        /\ bridge'[handle.msg.stream].toSocket = bridge[handle.msg.stream].toSocket
    BY <1>1, <1>3, LoopKeeps DEF Typed
  <2>2. \A t \in Streams : t # handle.msg.stream => bridge'[t] = bridge[t]
    BY <1>1, <1>3, LoopBridges DEF Typed
  <2> QED
    BY <2>1, <2>2 DEF StartsNone
<1> QED
  BY <1>1, <1>2, <1>3
\* A caller goes to l, which fits its stream.
Goes(c, l) ==
  /\ c \in Streams /\ caller' = [caller EXCEPT ![c] = l] /\ l # "idle"
  /\ l # "done" => use[c] \in {"command", "socket"}
  /\ l \in {"found", "opened", "collect", "closing"} => c \in table.owned
  /\ l \in {"opened", "collect", "closing"} => ~object[c].refused
  /\ l = "closing" => use[c] = "socket"
  /\ l = "collect" => use[c] = "command"

\* No stream leaves the table, and none that is there becomes a refused one.
Stays ==
  /\ table.owned \subseteq table'.owned
  /\ \A s \in table.owned : object'[s].refused => object[s].refused

\* At most one caller goes on, with what its next place asks for, and no caller loses what it has.
LEMMA CallsOn ==
  ASSUME Typed, Calling, UNCHANGED use, Stays, UNCHANGED caller \/ \E c, l : Goes(c, l),
         Unmoved \/ \E s \in Streams : \E a : Moves(s, a) /\ (use[s] = "bridge" \/ caller'[s] # "idle")
  PROVE  Calling'
<1> SUFFICES ASSUME NEW c \in Streams PROVE Calls(c)'
  BY DEF Calling
<1>1. Calls(c) /\ use'[c] = use[c]
  BY DEF Calling
<1>2. device'[c].at = device[c].at \/ use[c] = "bridge" \/ caller'[c] # "idle"
  BY DEF Unmoved, Moves
<1>3. c \in table.owned => c \in table'.owned /\ (object'[c].refused => object[c].refused)
  BY DEF Stays
<1>4. caller'[c] = caller[c] \/ Goes(c, caller'[c])
  BY DEF Goes, Typed, Callers
<1>5. CASE caller'[c] = caller[c]
  BY <1>1, <1>2, <1>3, <1>5 DEF Calls
<1>6. CASE Goes(c, caller'[c])
  BY <1>1, <1>2, <1>3, <1>6 DEF Calls, Goes
<1> QED
  BY <1>4, <1>5, <1>6

\* The use of an object takes none out of the table, and refuses none.
LEMMA StaysTouched ==
  ASSUME Typed, table.owned \subseteq table'.owned, UNCHANGED object \/ \E s \in Streams : Touches(s)
  PROVE  Stays
<1>1. \A s \in table.owned : s \in Streams
  BY DEF Typed, Table
<1> QED
  BY <1>1 DEF Stays, Touches
\* While the connection is open, nobody closes it, and every stream keeps its use.
LEMMA OpenStep ==
  ASSUME Typed, Ending, [Next]_vars, ~conn'.closed
  PROVE  /\ ~conn.closed /\ UNCHANGED use
         /\ ~HandleEnds /\ ~CloseSteps /\ ~Destroy /\ \A t \in {"application", "send"} : ~Close(t)
<1>1. ~HandleEnds
  BY HandleEndsDoes
<1>2. \A t \in {"application", "send"} : ~Close(t)
  BY CloseDoes
<1>3. CloseSteps => conn.closed /\ conn'.closed
  BY DEF CloseSteps, CloseBridges, CloseStreams, CloseJoins, CloseReturns, Typed, Connection, Ending
<1>4. ~Destroy
  BY DestroyDoes
<1>5. UNCHANGED conn
  BY <1>1, <1>2, <1>3, <1>4
     DEF Next, HandleSteps, PumpSteps, ToAdbSteps, ToSocketSteps, vars,
         Open, OpenPolls, OpenReturns, CommandEnds, CommandCollects, SocketReads, SocketCloses, SocketShuts, DeviceAnswers,
         HandleReads, HandleResolves, HandleWrte, HandleOkay, HandleClse, HandleShuts, HandleUnlists, HandleConnects,
         HandleBridges, HandleKeeps, RecvCopies, RecvEnds, ReadStarts, ReadReturns, SocketWritten, PeerCloses, DeviceOpens,
         PumpChecks, PumpClosesBridge, PumpClosesStream, PumpShuts, DeviceWrites, DeviceCloses, DeviceGetsClose
<1>6. UNCHANGED use
  BY <1>1, <1>2, <1>3, <1>4
     DEF Next, HandleSteps, PumpSteps, ToAdbSteps, ToSocketSteps, vars,
         Open, OpenPolls, OpenReturns, CommandEnds, CommandCollects, SocketReads, SocketCloses, SocketShuts, DeviceAnswers,
         HandleReads, HandleResolves, HandleWrte, HandleOkay, HandleClse, HandleShuts, HandleUnlists, HandleConnects,
         HandleBridges, HandleKeeps, RecvCopies, RecvEnds, ReadStarts, ReadReturns, SocketWritten, PeerCloses, DeviceOpens,
         PumpChecks, PumpClosesBridge, PumpClosesStream, PumpShuts, DeviceWrites, DeviceCloses, DeviceGetsClose
<1> QED
  BY <1>1, <1>2, <1>3, <1>4, <1>5, <1>6

\* Nobody writes, and no credit comes or goes.
Unpaid == \A t \in Streams : (device'[t].credit <=> device[t].credit) /\ device'[t].wrote = device[t].wrote

\* Who neither writes nor acknowledges leaves credits and payloads as they are.
LEMMA NonePaid ==
  ASSUME Typed, Handling,
         \/ UNCHANGED device
         \/ \E c \in Streams : Open(c) \/ SocketCloses(c) \/ DeviceAnswers(c)
         \/ \E i \in Streams, p \in Pumps : PumpClosesStream(i, p)
         \/ \E s \in Streams : DeviceOpens(s) \/ DeviceCloses(s) \/ DeviceGetsClose(s)
         \/ HandleConnects
  PROVE  Unpaid
<1>1. UNCHANGED device => Unpaid
  BY DEF Unpaid
<1>2. ASSUME NEW s \in Streams, Requests(s) PROVE Unpaid
  BY <1>2, RequestsDoes DEF Typed, Unpaid
<1>3. ASSUME NEW s \in Streams, NEW a \in {"asked", "open", "refused", "closed"}, Turns(s, a) PROVE Unpaid
  BY <1>3, TurnsDoes DEF Typed, Unpaid
<1>4. ASSUME NEW c \in Streams, Open(c) PROVE Unpaid
  BY <1>1, <1>3, <1>4, OpenDoes
<1>5. ASSUME NEW c \in Streams, SocketCloses(c) PROVE Unpaid
  BY <1>1, <1>2, <1>5, SocketClosesDoes
<1>6. ASSUME NEW c \in Streams, DeviceAnswers(c) PROVE Unpaid
  BY <1>3, <1>6, DeviceAnswersDoes
<1>7. ASSUME NEW i \in Streams, NEW p \in Pumps, PumpClosesStream(i, p) PROVE Unpaid
  BY <1>1, <1>2, <1>7, PumpClosesStreamDoes
<1>8. ASSUME NEW s \in Streams, DeviceOpens(s) \/ DeviceCloses(s) \/ DeviceGetsClose(s) PROVE Unpaid
  BY <1>3, <1>8, DeviceOpensDoes, DeviceClosesDoes, DeviceGetsCloseDoes
<1>9. CASE HandleConnects
  <2>1. /\ handle.msg.stream \in Streams
        /\ UNCHANGED device \/ Requests(handle.msg.stream) \/ Turns(handle.msg.stream, "open")
    BY <1>9, HandleConnectsDoes
  <2> QED
    BY <1>1, <1>2, <1>3, <2>1
<1> QED
  BY <1>1, <1>4, <1>5, <1>6, <1>7, <1>8, <1>9

\* A turn of the loop takes no payload of k unless it was one of k.
LEMMA PayloadsRest ==
  ASSUME Typed, Rests, toHost' = toHost, NEW k \in Streams, handle.msg.cmd # "WRTE" \/ handle.msg.stream # k
  PROVE  Payloads(k)' = Payloads(k)
<1>1. 0 \notin Payloads(k)
  BY DEF Payloads, Underway, Message
<1> QED
  BY <1>1, LineTurns

\* A message that is no payload leaves the payloads of k alone.
LEMMA PayloadsPosts ==
  ASSUME Typed, UNCHANGED handle, NEW cmd \in Cmds, cmd # "WRTE", NEW s \in Streams, NEW r \in BOOLEAN, Posts(cmd, s, r),
         NEW k \in Streams
  PROVE  Payloads(k)' = Payloads(k)
  BY LineGrows

\* The steps that take no payload and bring none.
LEMMA PayloadsSame ==
  ASSUME Typed, Handling, NEW k \in Streams,
         \/ HandleResolves \/ HandleOkay \/ HandleClse \/ HandleShuts \/ HandleUnlists \/ HandleConnects \/ HandleBridges
         \/ HandleKeeps
         \/ \E s \in Streams : DeviceAnswers(s) \/ DeviceOpens(s) \/ DeviceCloses(s) \/ DeviceGetsClose(s)
  PROVE  Payloads(k)' = Payloads(k)
<1>1. ASSUME NEW l, NEW s, NEW c, At(l, handle.msg, s, c), toHost' = toHost PROVE Payloads(k)' = Payloads(k)
  BY <1>1, AtIs, LineSame
<1>2. CASE HandleResolves
  BY <1>1, <1>2, HandleResolvesDoes
<1>3. CASE HandleOkay
  BY <1>3, HandleOkayDoes, PayloadsRest
<1>4. CASE HandleClse
  BY <1>1, <1>4, HandleClseDoes, PayloadsRest
<1>5. CASE HandleShuts
  BY <1>1, <1>5, HandleShutsDoes, PayloadsRest
<1>6. CASE HandleUnlists
  BY <1>6, HandleUnlistsDoes, PayloadsRest
<1>7. CASE HandleConnects
  <2>1. toHost' = toHost /\ handle.msg.cmd = "OPEN"
    BY <1>7 DEF HandleConnects, Handling
  <2> QED
    BY <1>1, <1>7, <2>1, HandleConnectsHas, PayloadsRest
<1>8. CASE HandleBridges
  BY <1>1, <1>8, HandleBridgesDoes
<1>9. CASE HandleKeeps
  <2>1. handle.msg.cmd = "OPEN"
    BY <1>9 DEF HandleKeeps, Handling
  <2> QED
    BY <1>9, <2>1, HandleKeepsDoes, PayloadsRest
<1>10. CASE \E s \in Streams : DeviceAnswers(s) \/ DeviceOpens(s) \/ DeviceCloses(s) \/ DeviceGetsClose(s)
  <2>1. PICK s \in Streams : DeviceAnswers(s) \/ DeviceOpens(s) \/ DeviceCloses(s) \/ DeviceGetsClose(s)
    BY <1>10
  <2>2. UNCHANGED handle
    BY <2>1 DEF DeviceAnswers, DeviceOpens, DeviceCloses, DeviceGetsClose
  <2>3. UNCHANGED toHost \/ \E cmd \in {"OPEN", "OKAY", "CLSE"}, r \in BOOLEAN : Posts(cmd, s, r)
    BY <2>1, DeviceAnswersDoes, DeviceOpensDoes, DeviceClosesDoes, DeviceGetsCloseDoes
  <2> QED
    BY <2>2, <2>3, LineSame, PayloadsPosts DEF Cmds
<1> QED
  BY <1>2, <1>3, <1>4, <1>5, <1>6, <1>7, <1>8, <1>9, <1>10
\* The CLSE stays last when messages go, ...
LEMMA LastFewer ==
  ASSUME NEW k \in Streams, Last(k), Fewer,
         device[k].at \in {"closed", "refused"} => device'[k].at \in {"closed", "refused"}
  PROVE  Last(k)'
<1>1. Underway(k)' \subseteq Underway(k) /\ \A n \in Underway(k)' : Message(n)' = Message(n)
  BY DEF Fewer
<1> QED
  BY <1>1 DEF Last

\* ... and when one comes, which may be the CLSE if there was none.
LEMMA LastPosts ==
  ASSUME Typed, NEW k \in Streams, Last(k), UNCHANGED handle, NEW cmd \in Cmds, NEW s \in Streams, NEW r \in BOOLEAN,
         Posts(cmd, s, r), Unmoved \/ \E a : Moves(s, a),
         device[s].at \notin {"closed", "refused"}, cmd = "CLSE" => device'[s].at \in {"closed", "refused"}
  PROVE  Last(k)'
<1>1. PICK e \in Nat \ {0} :
        /\ \A n \in Numbers : n < e /\ Message(n)' = Message(n)
        /\ Message(e)'.cmd = cmd
        /\ \A t \in Streams : t # s => Underway(t)' = Underway(t) /\ Payloads(t)' = Payloads(t)
        /\ Underway(s)' = Underway(s) \cup {e}
  BY LineGrows
<1>2. \A n \in Underway(k) : n \in Numbers /\ n \in Nat /\ n < e /\ Message(n)' = Message(n)
  BY <1>1, LenProperties DEF Underway, Numbers, Typed, Sending
<1>3. CASE k # s
  <2>1. device'[k].at = device[k].at /\ Underway(k)' = Underway(k)
    BY <1>1, <1>3 DEF Unmoved, Moves
  <2> QED
    BY <1>2, <2>1 DEF Last
<1>4. CASE k = s
  <2>1. \A m \in Underway(k) : Message(m).cmd # "CLSE"
    BY <1>4 DEF Last
  <2>2. ASSUME NEW m \in Underway(k)', Message(m)'.cmd = "CLSE"
        PROVE  m = e
    BY <1>1, <1>2, <1>4, <2>1, <2>2
  <2>3. \A n \in Underway(k)' : n <= e
    BY <1>1, <1>2, <1>4
  <2>4. cmd = "CLSE" => device'[k].at \in {"closed", "refused"}
    BY <1>4
  <2> QED
    BY <1>1, <2>2, <2>3, <2>4 DEF Last
<1> QED
  BY <1>3, <1>4
\* For the closing of k, its object and its place in the table are as they were.
SameFor(k) ==
  /\ object'[k].closed <=> object[k].closed
  /\ object'[k].shut <=> object[k].shut
  /\ object'[k].life = object[k].life
  /\ k \in table'.owned <=> k \in table.owned
  /\ k \in table'.listed <=> k \in table.listed

\* What is the same for all streams is the same for k.
LEMMA SameForAll ==
  ASSUME NEW k \in Streams, UNCHANGED <<object, table>> PROVE SameFor(k)
  BY DEF SameFor

\* Steps of others, while the loop does nothing.
LEMMA ClosingSame ==
  ASSUME NEW k \in Streams, Closing(k), SameFor(k), UNCHANGED handle,
         0 \in Underway(k)' => 0 \in Underway(k),
         object[k].closed => Underway(k)' \subseteq Underway(k),
         device[k].at \in {"closed", "refused"} => device'[k].at = device[k].at
  PROVE  Closing(k)'
  BY DEF Closing, SameFor

\* Steps of the loop for another stream, or for a message that says nothing of the closing.
LEMMA ClosingTurn ==
  ASSUME NEW k \in Streams, Closing(k), SameFor(k), device'[k].at = device[k].at,
         object[k].closed => Underway(k)' = {},
         0 \notin Underway(k)' \/ handle'.at \notin {"act", "shut", "shutAgain", "unlist"}
  PROVE  Closing(k)'
  BY DEF Closing, SameFor

\* A closed stream of a command has no message but the CLSE that the loop handles.
LEMMA ClosedQuiet ==
  ASSUME NEW k \in Streams, Closing(k), Fewer, handle.at \notin {"shut", "unlist"}
  PROVE  object[k].closed => Underway(k)' = {}
  BY DEF Closing, Fewer

\* What the loop has rested from, or works on for another stream, is not a message of k.
LEMMA NotOfK ==
  ASSUME Typed, NEW k \in Streams
  PROVE  /\ Rests => 0 \notin Underway(k)'
         /\ handle'.msg = handle.msg /\ handle.msg.stream # k => 0 \notin Underway(k)'
<1>1. ASSUME Rests PROVE 0 \notin Underway(k)'
  <2>1. handle'.msg.stream # k
    BY <1>1, RestsType, MessageType, StreamsAssumption
  <2> QED
    BY <2>1 DEF Underway, Message
<1>2. ASSUME handle'.msg = handle.msg, handle.msg.stream # k PROVE 0 \notin Underway(k)'
  BY <1>2 DEF Underway, Message
<1> QED
  BY <1>1, <1>2

\* The message of the loop is number 0.
LEMMA OfK == ASSUME Typed, NEW k \in Streams PROVE 0 \in Underway(k) <=> handle.msg.stream = k
  BY LenProperties DEF Typed, Sending, Numbers, Underway, Message
\* Nothing that is written, or read, of k.
LEMMA WrittenSame ==
  ASSUME NEW k \in Streams, Written(k), caller'[k] = caller[k], output'[k] = output[k],
         object'[k].ring = object[k].ring, object[k].closed => object'[k].closed,
         device'[k].credit <=> device[k].credit, device'[k].wrote = device[k].wrote,
         device[k].at = "closed" => device'[k].at = "closed",
         device'[k].at \in {"none", "asked", "refused"} => device[k].at \in {"none", "asked", "refused"}
  PROVE  Written(k)'
  BY DEF Written

\* The steps that use only the objects of sockets and bridges.
LEMMA OthersObjects ==
  ASSUME Typed, Handling, Pointing, Calling, NEW k \in Streams, use[k] = "command",
         \/ \E c \in Streams : SocketReads(c) \/ SocketShuts(c)
         \/ \E i \in Streams : ReadReturns(i) \/ \E p \in Pumps : PumpShuts(i, p)
  PROVE  object'[k] = object[k] /\ UNCHANGED <<device, output>> /\ caller'[k] = caller[k]
<1>1. ASSUME NEW c \in Streams, SocketReads(c) PROVE object'[k] = object[k] /\ UNCHANGED <<device, output>> /\ caller'[k] = caller[k]
  <2>1. c # k /\ Empties(c) /\ UNCHANGED <<device, output, caller>>
    BY <1>1, SocketReadsDoes
  <2> QED
    BY <2>1, EmptiesDoes DEF Typed
<1>2. ASSUME NEW c \in Streams, SocketShuts(c) PROVE object'[k] = object[k] /\ UNCHANGED <<device, output>> /\ caller'[k] = caller[k]
  <2>1. c # k /\ Shuts(c) /\ UNCHANGED <<device, output>> /\ caller' = [caller EXCEPT ![c] = "done"]
    BY <1>2, SocketShutsDoes DEF Calling, Calls
  <2> QED
    BY <2>1, ShutsDoes DEF Typed, Callers
<1>3. ASSUME NEW i \in Streams, ReadReturns(i) PROVE object'[k] = object[k] /\ UNCHANGED <<device, output>> /\ caller'[k] = caller[k]
  <2>1. i # k /\ Empties(i) /\ UNCHANGED <<device, output, caller>>
    BY <1>3, ReadReturnsDoes DEF Pointing, Points
  <2> QED
    BY <2>1, EmptiesDoes DEF Typed
<1>4. ASSUME NEW i \in Streams, NEW p \in Pumps, PumpShuts(i, p)
      PROVE  object'[k] = object[k] /\ UNCHANGED <<device, output>> /\ caller'[k] = caller[k]
  <2>1. i # k /\ Shuts(i) /\ UNCHANGED <<device, output, caller>>
    BY <1>4, PumpShutsDoes DEF Pointing, Points, Pumps
  <2> QED
    BY <2>1, ShutsDoes DEF Typed
<1> QED
  BY <1>1, <1>2, <1>3, <1>4

\* When the loop has closed the stream of a command, no payload is on its way.
LEMMA ClosedEmpty ==
  ASSUME Typed, Handling, NEW k \in Streams, Credit(k), Closing(k), object[k].closed
  PROVE  device[k].credit
<1>1. \A n \in Underway(k) : Message(n).cmd = "CLSE"
  BY DEF Closing, Handling, Message
<1>2. Payloads(k) = {}
  BY <1>1 DEF Payloads
<1> QED
  BY <1>2 DEF Credit

-----------------------------------------------------------------------------
(* The types are kept.                                                     *)

\* Each step keeps the types.
LEMMA CallersKept ==
  ASSUME Typed, [Next]_vars
  PROVE  Callers'
<1> USE StreamsAssumption DEF Callers
<1>1. CASE \E c \in Streams : Open(c)
  <2>1. PICK c \in Streams : Open(c)
    BY <1>1
  <2> QED
    BY <2>1, OpenDoes DEF Typed
<1>2. CASE \E c \in Streams : OpenPolls(c)
  <2>1. PICK c \in Streams : OpenPolls(c)
    BY <1>2
  <2> QED
    BY <2>1 DEF OpenPolls, Typed
<1>3. CASE \E c \in Streams : OpenReturns(c)
  <2>1. PICK c \in Streams : OpenReturns(c)
    BY <1>3
  <2> QED
    BY <2>1, OpenReturnsDoes DEF Typed
<1>4. CASE \E c \in Streams : CommandEnds(c)
  <2>1. PICK c \in Streams : CommandEnds(c)
    BY <1>4
  <2> QED
    BY <2>1 DEF CommandEnds, Uses, Typed
<1>5. CASE \E c \in Streams : CommandCollects(c)
  <2>1. PICK c \in Streams : CommandCollects(c)
    BY <1>5
  <2> QED
    BY <2>1, CommandCollectsDoes, EffectsType DEF Typed
<1>6. CASE \E c \in Streams : SocketCloses(c)
  <2>1. PICK c \in Streams : SocketCloses(c)
    BY <1>6
  <2> QED
    BY <2>1, SocketClosesDoes DEF Typed
<1>7. CASE \E c \in Streams : SocketShuts(c)
  <2>1. PICK c \in Streams : SocketShuts(c)
    BY <1>7
  <2> QED
    BY <2>1, SocketShutsDoes DEF Typed
<1>8. CASE Destroy
  BY <1>8, DestroyDoes DEF Typed
<1>9. CASE UNCHANGED <<use, caller, output>>
  BY <1>9 DEF Typed
<1>10. CASE (\E c \in Streams : SocketReads(c)) \/ (\E c \in Streams : DeviceAnswers(c)) \/ HandleReads
            \/ HandleResolves \/ HandleWrte \/ HandleOkay \/ HandleClse \/ HandleShuts \/ HandleUnlists
            \/ HandleConnects \/ HandleBridges \/ HandleKeeps \/ HandleEnds
            \/ (\E i \in Streams : RecvCopies(i)) \/ (\E i \in Streams : RecvEnds(i))
            \/ (\E i \in Streams : ReadStarts(i)) \/ (\E i \in Streams : ReadReturns(i))
            \/ (\E i \in Streams : SocketWritten(i)) \/ (\E i \in Streams : PeerCloses(i))
            \/ (\E i \in Streams : DeviceOpens(i)) \/ (\E i \in Streams, p \in Pumps : PumpChecks(i, p))
            \/ (\E i \in Streams, p \in Pumps : PumpClosesBridge(i, p))
            \/ (\E i \in Streams, p \in Pumps : PumpClosesStream(i, p))
            \/ (\E i \in Streams, p \in Pumps : PumpShuts(i, p))
            \/ (\E t \in {"application", "send"} : Close(t)) \/ CloseBridges \/ CloseStreams \/ CloseJoins
            \/ CloseReturns \/ (\E s \in Streams : DeviceWrites(s)) \/ (\E s \in Streams : DeviceCloses(s))
            \/ (\E s \in Streams : DeviceGetsClose(s))
  BY <1>9, <1>10 DEF SocketReads, DeviceAnswers, HandleReads, HandleResolves, HandleWrte, HandleOkay,
     HandleClse, HandleShuts, HandleUnlists, HandleConnects, HandleBridges, HandleKeeps, HandleEnds,
     RecvCopies, RecvEnds, ReadStarts, ReadReturns, SocketWritten, PeerCloses, DeviceOpens, PumpChecks,
     PumpClosesBridge, PumpClosesStream, PumpShuts, Close, CloseBridges, CloseStreams, CloseJoins,
     CloseReturns, DeviceWrites, DeviceCloses, DeviceGetsClose
<1> QED
  BY <1>1, <1>2, <1>3, <1>4, <1>5, <1>6, <1>7, <1>8, <1>9, <1>10 DEF Next, HandleSteps, PumpSteps,
     ToAdbSteps, ToSocketSteps, CloseSteps, Pumps, vars

LEMMA ObjectsKept ==
  ASSUME Typed, Handling, [Next]_vars
  PROVE  Objects'
<1> USE StreamsAssumption DEF Objects
<1>1. CASE \E c \in Streams : OpenReturns(c)
  <2>1. PICK c \in Streams : OpenReturns(c)
    BY <1>1
  <2> QED
    BY <2>1, OpenReturnsDoes, DeletesDoes DEF Typed
<1>2. CASE \E c \in Streams : CommandCollects(c)
  <2>1. PICK c \in Streams : CommandCollects(c)
    BY <1>2
  <2> QED
    BY <2>1, CommandCollectsDoes, EmptiesDoes DEF Typed
<1>3. CASE \E c \in Streams : SocketReads(c)
  <2>1. PICK c \in Streams : SocketReads(c)
    BY <1>3
  <2> QED
    BY <2>1, SocketReadsDoes, EmptiesDoes DEF Typed
<1>4. CASE \E c \in Streams : SocketShuts(c)
  <2>1. PICK c \in Streams : SocketShuts(c)
    BY <1>4
  <2> QED
    BY <2>1, SocketShutsDoes, ShutsDoes DEF Typed
<1>5. CASE HandleResolves
  BY <1>5, HandleResolvesDoes, MakesDoes, HandleIs DEF Typed
<1>6. CASE HandleWrte
  BY <1>6, HandleWrteDoes, FillsDoes DEF Typed
<1>7. CASE HandleClse
  BY <1>7, HandleClseDoes, MarksDoes DEF Typed
<1>8. CASE HandleShuts
  BY <1>8, HandleShutsDoes, EndsDoes DEF Typed
<1>9. CASE HandleConnects
  BY <1>9, HandleConnectsDoes, MakesDoes DEF Typed
<1>10. CASE \E i \in Streams : ReadReturns(i)
  <2>1. PICK i \in Streams : ReadReturns(i)
    BY <1>10
  <2> QED
    BY <2>1, ReadReturnsDoes, EmptiesDoes DEF Typed
<1>11. CASE \E i \in Streams, p \in Pumps : PumpShuts(i, p)
  <2>1. PICK i \in Streams, p \in Pumps : PumpShuts(i, p)
    BY <1>11
  <2> QED
    BY <2>1, PumpShutsDoes, ShutsDoes DEF Typed
<1>12. CASE CloseStreams
  BY <1>12, CloseStreamsDoes DEF Typed
<1>13. CASE Destroy
  BY <1>13, DestroyDoes DEF Typed
<1>14. CASE UNCHANGED <<object>>
  BY <1>14 DEF Typed
<1>15. CASE (\E c \in Streams : Open(c)) \/ (\E c \in Streams : OpenPolls(c))
            \/ (\E c \in Streams : CommandEnds(c)) \/ (\E c \in Streams : SocketCloses(c))
            \/ (\E c \in Streams : DeviceAnswers(c)) \/ HandleReads \/ HandleOkay \/ HandleUnlists
            \/ HandleBridges \/ HandleKeeps \/ HandleEnds \/ (\E i \in Streams : RecvCopies(i))
            \/ (\E i \in Streams : RecvEnds(i)) \/ (\E i \in Streams : ReadStarts(i))
            \/ (\E i \in Streams : SocketWritten(i)) \/ (\E i \in Streams : PeerCloses(i))
            \/ (\E i \in Streams : DeviceOpens(i)) \/ (\E i \in Streams, p \in Pumps : PumpChecks(i, p))
            \/ (\E i \in Streams, p \in Pumps : PumpClosesBridge(i, p))
            \/ (\E i \in Streams, p \in Pumps : PumpClosesStream(i, p))
            \/ (\E t \in {"application", "send"} : Close(t)) \/ CloseBridges \/ CloseJoins \/ CloseReturns
            \/ (\E s \in Streams : DeviceWrites(s)) \/ (\E s \in Streams : DeviceCloses(s))
            \/ (\E s \in Streams : DeviceGetsClose(s))
  BY <1>14, <1>15 DEF Open, OpenPolls, CommandEnds, SocketCloses, DeviceAnswers, HandleReads, HandleOkay,
     HandleUnlists, HandleBridges, HandleKeeps, HandleEnds, RecvCopies, RecvEnds, ReadStarts, SocketWritten,
     PeerCloses, DeviceOpens, PumpChecks, PumpClosesBridge, PumpClosesStream, Close, CloseBridges,
     CloseJoins, CloseReturns, DeviceWrites, DeviceCloses, DeviceGetsClose
<1> QED
  BY <1>1, <1>2, <1>3, <1>4, <1>5, <1>6, <1>7, <1>8, <1>9, <1>10, <1>11, <1>12, <1>13, <1>14, <1>15 DEF
     Next, HandleSteps, PumpSteps, ToAdbSteps, ToSocketSteps, CloseSteps, Pumps, vars

LEMMA TableKept ==
  ASSUME Typed, Handling, [Next]_vars
  PROVE  Table'
<1> USE StreamsAssumption DEF Table
<1>1. CASE \E c \in Streams : OpenReturns(c)
  <2>1. PICK c \in Streams : OpenReturns(c)
    BY <1>1
  <2> QED
    BY <2>1, OpenReturnsDoes DEF Typed
<1>2. CASE \E c \in Streams : SocketCloses(c)
  <2>1. PICK c \in Streams : SocketCloses(c)
    BY <1>2
  <2> QED
    BY <2>1, SocketClosesDoes DEF Typed
<1>3. CASE HandleResolves
  BY <1>3, HandleResolvesDoes DEF Typed
<1>4. CASE HandleUnlists
  BY <1>4, HandleUnlistsDoes DEF Typed
<1>5. CASE HandleConnects
  BY <1>5, HandleConnectsHas DEF Typed
<1>6. CASE \E i \in Streams, p \in Pumps : PumpClosesStream(i, p)
  <2>1. PICK i \in Streams, p \in Pumps : PumpClosesStream(i, p)
    BY <1>6
  <2> QED
    BY <2>1, PumpClosesStreamDoes DEF Typed
<1>7. CASE CloseStreams
  BY <1>7, CloseStreamsDoes DEF Typed
<1>8. CASE Destroy
  BY <1>8, DestroyDoes DEF Typed
<1>9. CASE UNCHANGED <<table>>
  BY <1>9 DEF Typed
<1>10. CASE (\E c \in Streams : Open(c)) \/ (\E c \in Streams : OpenPolls(c))
            \/ (\E c \in Streams : CommandEnds(c)) \/ (\E c \in Streams : CommandCollects(c))
            \/ (\E c \in Streams : SocketReads(c)) \/ (\E c \in Streams : SocketShuts(c))
            \/ (\E c \in Streams : DeviceAnswers(c)) \/ HandleReads \/ HandleWrte \/ HandleOkay
            \/ HandleClse \/ HandleShuts \/ HandleBridges \/ HandleKeeps \/ HandleEnds
            \/ (\E i \in Streams : RecvCopies(i)) \/ (\E i \in Streams : RecvEnds(i))
            \/ (\E i \in Streams : ReadStarts(i)) \/ (\E i \in Streams : ReadReturns(i))
            \/ (\E i \in Streams : SocketWritten(i)) \/ (\E i \in Streams : PeerCloses(i))
            \/ (\E i \in Streams : DeviceOpens(i)) \/ (\E i \in Streams, p \in Pumps : PumpChecks(i, p))
            \/ (\E i \in Streams, p \in Pumps : PumpClosesBridge(i, p))
            \/ (\E i \in Streams, p \in Pumps : PumpShuts(i, p))
            \/ (\E t \in {"application", "send"} : Close(t)) \/ CloseBridges \/ CloseJoins \/ CloseReturns
            \/ (\E s \in Streams : DeviceWrites(s)) \/ (\E s \in Streams : DeviceCloses(s))
            \/ (\E s \in Streams : DeviceGetsClose(s))
  BY <1>9, <1>10 DEF Open, OpenPolls, CommandEnds, CommandCollects, SocketReads, SocketShuts, DeviceAnswers,
     HandleReads, HandleWrte, HandleOkay, HandleClse, HandleShuts, HandleBridges, HandleKeeps, HandleEnds,
     RecvCopies, RecvEnds, ReadStarts, ReadReturns, SocketWritten, PeerCloses, DeviceOpens, PumpChecks,
     PumpClosesBridge, PumpShuts, Close, CloseBridges, CloseJoins, CloseReturns, DeviceWrites, DeviceCloses,
     DeviceGetsClose
<1> QED
  BY <1>1, <1>2, <1>3, <1>4, <1>5, <1>6, <1>7, <1>8, <1>9, <1>10 DEF Next, HandleSteps, PumpSteps,
     ToAdbSteps, ToSocketSteps, CloseSteps, Pumps, vars

LEMMA HandlerKept ==
  ASSUME Typed, Handling, [Next]_vars
  PROVE  Handler'
<1> USE StreamsAssumption DEF Handler
<1>1. CASE HandleReads
  <2>1. handle.at = "read" /\ toHost[1] \in Messages
        /\ At(IF toHost[1].cmd = "OPEN" THEN "connect" ELSE "resolve", toHost[1], NoStream, table.last)
    BY <1>1, HandleReadsDoes
  <2>2. table.last \in Streams \cup {NoStream}
    BY DEF Typed, Table
  <2> QED
    BY <2>1, <2>2, AtType
<1>2. CASE HandleResolves
  BY <1>2, HandleResolvesDoes, HandleIs, HandleIs, AtType, RestsType, MessageType DEF Typed
<1>3. CASE HandleWrte
  BY <1>3, HandleWrteDoes, HandleIs, HandleIs, AtType, RestsType, MessageType DEF Typed
<1>4. CASE HandleOkay
  BY <1>4, HandleOkayDoes, HandleIs, HandleIs, AtType, RestsType, MessageType DEF Typed
<1>5. CASE HandleClse
  BY <1>5, HandleClseDoes, HandleIs, HandleIs, AtType, RestsType, MessageType DEF Typed
<1>6. CASE HandleShuts
  BY <1>6, HandleShutsDoes, HandleIs, HandleIs, AtType, RestsType, MessageType DEF Typed
<1>7. CASE HandleUnlists
  BY <1>7, HandleUnlistsDoes, HandleIs, HandleIs, AtType, RestsType, MessageType DEF Typed
<1>8. CASE HandleConnects
  BY <1>8, HandleConnectsHas, HandleIs, AtType, RestsType
<1>9. CASE HandleBridges
  BY <1>9, HandleBridgesDoes, HandleIs, HandleIs, AtType, RestsType, MessageType DEF Typed
<1>10. CASE HandleKeeps
  BY <1>10, HandleKeepsDoes, HandleIs, HandleIs, AtType, RestsType, MessageType DEF Typed
<1>11. CASE HandleEnds
  BY <1>11, HandleEndsDoes, HandleIs, HandleIs, AtType, RestsType, MessageType DEF Typed
<1>12. CASE CloseReturns
  BY <1>12, CloseReturnsDoes, HandleIs, HandleIs, AtType, RestsType, MessageType DEF Typed
<1>13. CASE UNCHANGED <<handle>>
  BY <1>13 DEF Typed
<1>14. CASE (\E c \in Streams : Open(c)) \/ (\E c \in Streams : OpenPolls(c))
            \/ (\E c \in Streams : OpenReturns(c)) \/ (\E c \in Streams : CommandEnds(c))
            \/ (\E c \in Streams : CommandCollects(c)) \/ (\E c \in Streams : SocketReads(c))
            \/ (\E c \in Streams : SocketCloses(c)) \/ (\E c \in Streams : SocketShuts(c))
            \/ (\E c \in Streams : DeviceAnswers(c)) \/ (\E i \in Streams : RecvCopies(i))
            \/ (\E i \in Streams : RecvEnds(i)) \/ (\E i \in Streams : ReadStarts(i))
            \/ (\E i \in Streams : ReadReturns(i)) \/ (\E i \in Streams : SocketWritten(i))
            \/ (\E i \in Streams : PeerCloses(i)) \/ (\E i \in Streams : DeviceOpens(i))
            \/ (\E i \in Streams, p \in Pumps : PumpChecks(i, p))
            \/ (\E i \in Streams, p \in Pumps : PumpClosesBridge(i, p))
            \/ (\E i \in Streams, p \in Pumps : PumpClosesStream(i, p))
            \/ (\E i \in Streams, p \in Pumps : PumpShuts(i, p))
            \/ (\E t \in {"application", "send"} : Close(t)) \/ CloseBridges \/ CloseStreams \/ CloseJoins
            \/ Destroy \/ (\E s \in Streams : DeviceWrites(s)) \/ (\E s \in Streams : DeviceCloses(s))
            \/ (\E s \in Streams : DeviceGetsClose(s))
  BY <1>13, <1>14 DEF Open, OpenPolls, OpenReturns, CommandEnds, CommandCollects, SocketReads, SocketCloses,
     SocketShuts, DeviceAnswers, RecvCopies, RecvEnds, ReadStarts, ReadReturns, SocketWritten, PeerCloses,
     DeviceOpens, PumpChecks, PumpClosesBridge, PumpClosesStream, PumpShuts, Close, CloseBridges,
     CloseStreams, CloseJoins, Destroy, DeviceWrites, DeviceCloses, DeviceGetsClose
<1> QED
  BY <1>1, <1>2, <1>3, <1>4, <1>5, <1>6, <1>7, <1>8, <1>9, <1>10, <1>11, <1>12, <1>13, <1>14 DEF Next,
     HandleSteps, PumpSteps, ToAdbSteps, ToSocketSteps, CloseSteps, Pumps, vars

LEMMA BridgesKept ==
  ASSUME Typed, Handling, [Next]_vars
  PROVE  Bridges'
<1> USE StreamsAssumption DEF Bridges
<1>1. CASE HandleConnects
  <2>1. bridge' = [bridge EXCEPT ![handle.msg.stream].fd = "open", ![handle.msg.stream].peer = "open"] \/ bridge' = bridge
    BY <1>1 DEF HandleConnects
  <2>2. handle.msg.stream \in Streams
    BY <1>1, HandleConnectsHas
  <2> QED
    BY <2>1, <2>2, LoopBridges DEF Typed, Bridges
<1>2. CASE HandleBridges
  BY <1>2, HandleBridgesDoes, LoopBridges DEF Typed
<1>3. CASE HandleKeeps
  BY <1>3, HandleKeepsDoes, LoopBridges DEF Typed
<1>4. CASE \E i \in Streams : RecvCopies(i)
  <2>1. PICK i \in Streams : RecvCopies(i)
    BY <1>4
  <2>2. PICK l \in {"exit", "check"} : Pump(i, "toAdb", l)
    BY <2>1 DEF RecvCopies
  <2> HIDE DEF Bridges
  <2> QED
    BY <2>2, PumpDoes DEF Typed, Pumps
<1>5. CASE \E i \in Streams : RecvEnds(i)
  <2>1. PICK i \in Streams : RecvEnds(i)
    BY <1>5
  <2>2. PICK l \in {"exit"} : Pump(i, "toAdb", l)
    BY <2>1 DEF RecvEnds
  <2> HIDE DEF Bridges
  <2> QED
    BY <2>2, PumpDoes DEF Typed, Pumps
<1>6. CASE \E i \in Streams : ReadStarts(i)
  <2>1. PICK i \in Streams : ReadStarts(i)
    BY <1>6
  <2>2. PICK l \in {"exit", "wait"} : Pump(i, "toSocket", l)
    BY <2>1 DEF ReadStarts
  <2> HIDE DEF Bridges
  <2> QED
    BY <2>2, PumpDoes DEF Typed, Pumps
<1>7. CASE \E i \in Streams : ReadReturns(i)
  <2>1. PICK i \in Streams : ReadReturns(i)
    BY <1>7
  <2>2. PICK l \in {"send", "exit"} : Pump(i, "toSocket", l)
    BY <2>1 DEF ReadReturns
  <2> HIDE DEF Bridges
  <2> QED
    BY <2>2, PumpDoes DEF Typed, Pumps
<1>8. CASE \E i \in Streams : SocketWritten(i)
  <2>1. PICK i \in Streams : SocketWritten(i)
    BY <1>8
  <2>2. PICK l \in {"check", "exit"} : Pump(i, "toSocket", l)
    BY <2>1 DEF SocketWritten
  <2> HIDE DEF Bridges
  <2> QED
    BY <2>2, PumpDoes DEF Typed, Pumps
<1>9. CASE \E i \in Streams : PeerCloses(i)
  <2>1. PICK i \in Streams : PeerCloses(i)
    BY <1>9
  <2>2. bridge \in [Streams -> BridgeType] /\ bridge[i] \in BridgeType
    BY DEF Typed
  <2>3. bridge' = [bridge EXCEPT ![i] = [bridge[i] EXCEPT !.peer = "closed"]]
    BY <2>1, <2>2 DEF PeerCloses
  <2>4. [bridge[i] EXCEPT !.peer = "closed"] \in BridgeType
    BY <2>2, BridgeChanges
  <2> QED
    BY <2>2, <2>3, <2>4
<1>10. CASE \E i \in Streams, p \in Pumps : PumpChecks(i, p)
  <2>1. PICK i \in Streams, p \in Pumps : PumpChecks(i, p)
    BY <1>10
  <2>2. PICK l \in {"exit", "copy"} : Pump(i, p, l)
    BY <2>1 DEF PumpChecks
  <2> HIDE DEF Bridges
  <2> QED
    BY <2>2, PumpDoes DEF Typed, Pumps
<1>11. CASE \E i \in Streams, p \in Pumps : PumpClosesBridge(i, p)
  <2>1. PICK i \in Streams, p \in Pumps : PumpClosesBridge(i, p)
    BY <1>11
  <2>2. bridge \in [Streams -> BridgeType] /\ bridge[i] \in BridgeType
    BY DEF Typed
  <2> DEFINE f == IF bridge[i].closed THEN bridge[i].fd ELSE "closed"
  <2>3. f \in {"none", "open", "closed"}
    BY <2>2 DEF BridgeType
  <2>4. bridge' = [bridge EXCEPT ![i] = [bridge[i] EXCEPT ![p] = "drop", !.closed = TRUE, !.fd = f]]
    BY <2>1, <2>2 DEF PumpClosesBridge, FdOfClosedBridge
  <2> HIDE DEF f
  <2>5. [bridge[i] EXCEPT ![p] = "drop", !.closed = TRUE, !.fd = f] \in BridgeType
    BY <2>2, <2>3, BridgeCloses
  <2> QED
    BY <2>2, <2>4, <2>5
<1>12. CASE \E i \in Streams, p \in Pumps : PumpClosesStream(i, p)
  <2>1. PICK i \in Streams, p \in Pumps : PumpClosesStream(i, p)
    BY <1>12
  <2>2. PICK l \in {"shut", "done"} : Pump(i, p, l)
    BY <2>1 DEF PumpClosesStream
  <2> HIDE DEF Bridges
  <2> QED
    BY <2>2, PumpDoes DEF Typed, Pumps
<1>13. CASE \E i \in Streams, p \in Pumps : PumpShuts(i, p)
  <2>1. PICK i \in Streams, p \in Pumps : PumpShuts(i, p)
    BY <1>13
  <2>2. PICK l \in {"done"} : Pump(i, p, l)
    BY <2>1 DEF PumpShuts
  <2> HIDE DEF Bridges
  <2> QED
    BY <2>2, PumpDoes DEF Typed, Pumps
<1>14. CASE CloseBridges
  <2>1. \A i \in Streams : bridge[i] \in BridgeType
    BY DEF Typed
  <2>2. \A b \in BridgeType : [b EXCEPT !.closed = TRUE, !.fd = "closed"] \in BridgeType
    <3> TAKE b \in BridgeType
    <3>1. \A c \in BOOLEAN : [b EXCEPT !.closed = c, !.fd = "closed"] = [[b EXCEPT !.closed = c] EXCEPT !.fd = "closed"]
      OBVIOUS
    <3>2. \A c \in BOOLEAN : [[b EXCEPT !.closed = c] EXCEPT !.fd = "closed"] \in BridgeType
      BY BridgeChanges
    <3> QED
      BY <3>1, <3>2
  <2>3. bridge' = [i \in Streams |->
       IF bridge[i].kept THEN [bridge[i] EXCEPT !.closed = TRUE, !.fd = "closed"] ELSE bridge[i]]
    BY <1>14 DEF CloseBridges, FdOfClosedBridge
  <2> QED
    BY <2>1, <2>2, <2>3
<1>15. CASE UNCHANGED <<bridge>>
  BY <1>15 DEF Typed
<1>16. CASE (\E c \in Streams : Open(c)) \/ (\E c \in Streams : OpenPolls(c))
            \/ (\E c \in Streams : OpenReturns(c)) \/ (\E c \in Streams : CommandEnds(c))
            \/ (\E c \in Streams : CommandCollects(c)) \/ (\E c \in Streams : SocketReads(c))
            \/ (\E c \in Streams : SocketCloses(c)) \/ (\E c \in Streams : SocketShuts(c))
            \/ (\E c \in Streams : DeviceAnswers(c)) \/ HandleReads \/ HandleResolves \/ HandleWrte
            \/ HandleOkay \/ HandleClse \/ HandleShuts \/ HandleUnlists \/ HandleEnds
            \/ (\E i \in Streams : DeviceOpens(i)) \/ (\E t \in {"application", "send"} : Close(t))
            \/ CloseStreams \/ CloseJoins \/ CloseReturns \/ Destroy \/ (\E s \in Streams : DeviceWrites(s))
            \/ (\E s \in Streams : DeviceCloses(s)) \/ (\E s \in Streams : DeviceGetsClose(s))
  BY <1>15, <1>16 DEF Open, OpenPolls, OpenReturns, CommandEnds, CommandCollects, SocketReads, SocketCloses,
     SocketShuts, DeviceAnswers, HandleReads, HandleResolves, HandleWrte, HandleOkay, HandleClse,
     HandleShuts, HandleUnlists, HandleEnds, DeviceOpens, Close, CloseStreams, CloseJoins, CloseReturns,
     Destroy, DeviceWrites, DeviceCloses, DeviceGetsClose
<1> QED
  BY <1>1, <1>2, <1>3, <1>4, <1>5, <1>6, <1>7, <1>8, <1>9, <1>10, <1>11, <1>12, <1>13, <1>14, <1>15, <1>16
     DEF Next, HandleSteps, PumpSteps, ToAdbSteps, ToSocketSteps, CloseSteps, Pumps, vars

LEMMA ConnectionKept ==
  ASSUME Typed, [Next]_vars
  PROVE  Connection'
<1> USE StreamsAssumption DEF Connection
<1>1. CASE HandleEnds
  BY <1>1 DEF HandleEnds, Reading, Msg, Typed
<1>2. CASE \E t \in {"application", "send"} : Close(t)
  <2>1. PICK t \in {"application", "send"} : Close(t)
    BY <1>2
  <2> QED
    BY <2>1 DEF Close, Typed
<1>3. CASE CloseBridges
  BY <1>3 DEF CloseBridges, FdOfClosedBridge, Typed
<1>4. CASE CloseStreams
  BY <1>4 DEF CloseStreams, Shut, Typed
<1>5. CASE CloseJoins
  BY <1>5 DEF CloseJoins, Typed
<1>6. CASE CloseReturns
  BY <1>6 DEF CloseReturns, Typed
<1>7. CASE Destroy
  BY <1>7 DEF Destroy, Typed
<1>8. CASE UNCHANGED <<conn>>
  BY <1>8 DEF Typed
<1>9. CASE (\E c \in Streams : Open(c)) \/ (\E c \in Streams : OpenPolls(c))
           \/ (\E c \in Streams : OpenReturns(c)) \/ (\E c \in Streams : CommandEnds(c))
           \/ (\E c \in Streams : CommandCollects(c)) \/ (\E c \in Streams : SocketReads(c))
           \/ (\E c \in Streams : SocketCloses(c)) \/ (\E c \in Streams : SocketShuts(c))
           \/ (\E c \in Streams : DeviceAnswers(c)) \/ HandleReads \/ HandleResolves \/ HandleWrte
           \/ HandleOkay \/ HandleClse \/ HandleShuts \/ HandleUnlists \/ HandleConnects \/ HandleBridges
           \/ HandleKeeps \/ (\E i \in Streams : RecvCopies(i)) \/ (\E i \in Streams : RecvEnds(i))
           \/ (\E i \in Streams : ReadStarts(i)) \/ (\E i \in Streams : ReadReturns(i))
           \/ (\E i \in Streams : SocketWritten(i)) \/ (\E i \in Streams : PeerCloses(i))
           \/ (\E i \in Streams : DeviceOpens(i)) \/ (\E i \in Streams, p \in Pumps : PumpChecks(i, p))
           \/ (\E i \in Streams, p \in Pumps : PumpClosesBridge(i, p))
           \/ (\E i \in Streams, p \in Pumps : PumpClosesStream(i, p))
           \/ (\E i \in Streams, p \in Pumps : PumpShuts(i, p)) \/ (\E s \in Streams : DeviceWrites(s))
           \/ (\E s \in Streams : DeviceCloses(s)) \/ (\E s \in Streams : DeviceGetsClose(s))
  BY <1>8, <1>9 DEF Open, OpenPolls, OpenReturns, CommandEnds, CommandCollects, SocketReads, SocketCloses,
     SocketShuts, DeviceAnswers, HandleReads, HandleResolves, HandleWrte, HandleOkay, HandleClse,
     HandleShuts, HandleUnlists, HandleConnects, HandleBridges, HandleKeeps, RecvCopies, RecvEnds,
     ReadStarts, ReadReturns, SocketWritten, PeerCloses, DeviceOpens, PumpChecks, PumpClosesBridge,
     PumpClosesStream, PumpShuts, DeviceWrites, DeviceCloses, DeviceGetsClose
<1> QED
  BY <1>1, <1>2, <1>3, <1>4, <1>5, <1>6, <1>7, <1>8, <1>9 DEF Next, HandleSteps, PumpSteps, ToAdbSteps,
     ToSocketSteps, CloseSteps, Pumps, vars

LEMMA SendingKept ==
  ASSUME Typed, [Next]_vars
  PROVE  Sending'
<1> USE StreamsAssumption DEF Sending
<1>1. CASE \E c \in Streams : DeviceAnswers(c)
  <2>1. PICK c \in Streams : DeviceAnswers(c)
    BY <1>1
  <2> QED
    BY <2>1, DeviceAnswersDoes, PostsType DEF Typed, Cmds
<1>2. CASE HandleReads
  BY <1>2, HandleReadsDoes, HeadTailProperties DEF Typed
<1>3. CASE HandleEnds
  BY <1>3, HandleEndsDoes, EmptySeq DEF Typed
<1>4. CASE \E i \in Streams : DeviceOpens(i)
  <2>1. PICK i \in Streams : DeviceOpens(i)
    BY <1>4
  <2> QED
    BY <2>1, DeviceOpensDoes, PostsType DEF Typed, Cmds
<1>5. CASE \E t \in {"application", "send"} : Close(t)
  <2>1. PICK t \in {"application", "send"} : Close(t)
    BY <1>5
  <2> QED
    BY <2>1, CloseDoes, EmptySeq DEF Typed
<1>6. CASE \E s \in Streams : DeviceWrites(s)
  <2>1. PICK s \in Streams : DeviceWrites(s)
    BY <1>6
  <2> QED
    BY <2>1, DeviceWritesDoes, PostsType DEF Typed, Cmds
<1>7. CASE \E s \in Streams : DeviceCloses(s)
  <2>1. PICK s \in Streams : DeviceCloses(s)
    BY <1>7
  <2> QED
    BY <2>1, DeviceClosesDoes, PostsType DEF Typed, Cmds
<1>8. CASE \E s \in Streams : DeviceGetsClose(s)
  <2>1. PICK s \in Streams : DeviceGetsClose(s)
    BY <1>8
  <2> QED
    BY <2>1, DeviceGetsCloseDoes, PostsType DEF Typed, Cmds
<1>9. CASE UNCHANGED <<toHost>>
  BY <1>9 DEF Typed
<1>10. CASE (\E c \in Streams : Open(c)) \/ (\E c \in Streams : OpenPolls(c))
            \/ (\E c \in Streams : OpenReturns(c)) \/ (\E c \in Streams : CommandEnds(c))
            \/ (\E c \in Streams : CommandCollects(c)) \/ (\E c \in Streams : SocketReads(c))
            \/ (\E c \in Streams : SocketCloses(c)) \/ (\E c \in Streams : SocketShuts(c)) \/ HandleResolves
            \/ HandleWrte \/ HandleOkay \/ HandleClse \/ HandleShuts \/ HandleUnlists \/ HandleConnects
            \/ HandleBridges \/ HandleKeeps \/ (\E i \in Streams : RecvCopies(i))
            \/ (\E i \in Streams : RecvEnds(i)) \/ (\E i \in Streams : ReadStarts(i))
            \/ (\E i \in Streams : ReadReturns(i)) \/ (\E i \in Streams : SocketWritten(i))
            \/ (\E i \in Streams : PeerCloses(i)) \/ (\E i \in Streams, p \in Pumps : PumpChecks(i, p))
            \/ (\E i \in Streams, p \in Pumps : PumpClosesBridge(i, p))
            \/ (\E i \in Streams, p \in Pumps : PumpClosesStream(i, p))
            \/ (\E i \in Streams, p \in Pumps : PumpShuts(i, p)) \/ CloseBridges \/ CloseStreams
            \/ CloseJoins \/ CloseReturns \/ Destroy
  BY <1>9, <1>10 DEF Open, OpenPolls, OpenReturns, CommandEnds, CommandCollects, SocketReads, SocketCloses,
     SocketShuts, HandleResolves, HandleWrte, HandleOkay, HandleClse, HandleShuts, HandleUnlists,
     HandleConnects, HandleBridges, HandleKeeps, RecvCopies, RecvEnds, ReadStarts, ReadReturns,
     SocketWritten, PeerCloses, PumpChecks, PumpClosesBridge, PumpClosesStream, PumpShuts, CloseBridges,
     CloseStreams, CloseJoins, CloseReturns, Destroy
<1> QED
  BY <1>1, <1>2, <1>3, <1>4, <1>5, <1>6, <1>7, <1>8, <1>9, <1>10 DEF Next, HandleSteps, PumpSteps,
     ToAdbSteps, ToSocketSteps, CloseSteps, Pumps, vars

LEMMA DevicesKept ==
  ASSUME Typed, Handling, [Next]_vars
  PROVE  Devices'
<1> USE StreamsAssumption DEF Devices
<1>1. CASE \E c \in Streams : Open(c)
  <2>1. PICK c \in Streams : Open(c)
    BY <1>1
  <2> QED
    BY <2>1, OpenDoes, TurnsDoes DEF Typed
<1>2. CASE \E c \in Streams : SocketCloses(c)
  <2>1. PICK c \in Streams : SocketCloses(c)
    BY <1>2
  <2> QED
    BY <2>1, SocketClosesDoes, RequestsDoes DEF Typed
<1>3. CASE \E c \in Streams : DeviceAnswers(c)
  <2>1. PICK c \in Streams : DeviceAnswers(c)
    BY <1>3
  <2> QED
    BY <2>1, DeviceAnswersDoes, TurnsDoes DEF Typed
<1>4. CASE HandleWrte
  BY <1>4, HandleWrteDoes, AcknowledgesDoes DEF Typed
<1>5. CASE HandleConnects
  BY <1>5, HandleConnectsDoes, TurnsDoes, RequestsDoes DEF Typed
<1>6. CASE \E i \in Streams : DeviceOpens(i)
  <2>1. PICK i \in Streams : DeviceOpens(i)
    BY <1>6
  <2> QED
    BY <2>1, DeviceOpensDoes, TurnsDoes DEF Typed
<1>7. CASE \E i \in Streams, p \in Pumps : PumpClosesStream(i, p)
  <2>1. PICK i \in Streams, p \in Pumps : PumpClosesStream(i, p)
    BY <1>7
  <2> QED
    BY <2>1, PumpClosesStreamDoes, RequestsDoes DEF Typed
<1>8. CASE \E s \in Streams : DeviceWrites(s)
  <2>1. PICK s \in Streams : DeviceWrites(s)
    BY <1>8
  <2> QED
    BY <2>1, DeviceWritesDoes, WritesDoes DEF Typed
<1>9. CASE \E s \in Streams : DeviceCloses(s)
  <2>1. PICK s \in Streams : DeviceCloses(s)
    BY <1>9
  <2> QED
    BY <2>1, DeviceClosesDoes, TurnsDoes DEF Typed
<1>10. CASE \E s \in Streams : DeviceGetsClose(s)
  <2>1. PICK s \in Streams : DeviceGetsClose(s)
    BY <1>10
  <2> QED
    BY <2>1, DeviceGetsCloseDoes, TurnsDoes DEF Typed
<1>11. CASE UNCHANGED <<device>>
  BY <1>11 DEF Typed
<1>12. CASE (\E c \in Streams : OpenPolls(c)) \/ (\E c \in Streams : OpenReturns(c))
            \/ (\E c \in Streams : CommandEnds(c)) \/ (\E c \in Streams : CommandCollects(c))
            \/ (\E c \in Streams : SocketReads(c)) \/ (\E c \in Streams : SocketShuts(c)) \/ HandleReads
            \/ HandleResolves \/ HandleOkay \/ HandleClse \/ HandleShuts \/ HandleUnlists \/ HandleBridges
            \/ HandleKeeps \/ HandleEnds \/ (\E i \in Streams : RecvCopies(i))
            \/ (\E i \in Streams : RecvEnds(i)) \/ (\E i \in Streams : ReadStarts(i))
            \/ (\E i \in Streams : ReadReturns(i)) \/ (\E i \in Streams : SocketWritten(i))
            \/ (\E i \in Streams : PeerCloses(i)) \/ (\E i \in Streams, p \in Pumps : PumpChecks(i, p))
            \/ (\E i \in Streams, p \in Pumps : PumpClosesBridge(i, p))
            \/ (\E i \in Streams, p \in Pumps : PumpShuts(i, p))
            \/ (\E t \in {"application", "send"} : Close(t)) \/ CloseBridges \/ CloseStreams \/ CloseJoins
            \/ CloseReturns \/ Destroy
  BY <1>11, <1>12 DEF OpenPolls, OpenReturns, CommandEnds, CommandCollects, SocketReads, SocketShuts,
     HandleReads, HandleResolves, HandleOkay, HandleClse, HandleShuts, HandleUnlists, HandleBridges,
     HandleKeeps, HandleEnds, RecvCopies, RecvEnds, ReadStarts, ReadReturns, SocketWritten, PeerCloses,
     PumpChecks, PumpClosesBridge, PumpShuts, Close, CloseBridges, CloseStreams, CloseJoins, CloseReturns,
     Destroy
<1> QED
  BY <1>1, <1>2, <1>3, <1>4, <1>5, <1>6, <1>7, <1>8, <1>9, <1>10, <1>11, <1>12 DEF Next, HandleSteps,
     PumpSteps, ToAdbSteps, ToSocketSteps, CloseSteps, Pumps, vars

LEMMA StaleKept ==
  ASSUME Typed, [Next]_vars
  PROVE  Stale'
<1> USE StreamsAssumption DEF Stale
<1>1. CASE \E c \in Streams : OpenReturns(c)
  <2>1. PICK c \in Streams : OpenReturns(c)
    BY <1>1
  <2> QED
    BY <2>1 DEF OpenReturns, Uses, Rejects, Typed
<1>2. CASE \E c \in Streams : CommandEnds(c)
  <2>1. PICK c \in Streams : CommandEnds(c)
    BY <1>2
  <2> QED
    BY <2>1 DEF CommandEnds, Uses, Typed
<1>3. CASE \E c \in Streams : CommandCollects(c)
  <2>1. PICK c \in Streams : CommandCollects(c)
    BY <1>3
  <2> QED
    BY <2>1 DEF CommandCollects, Uses, Finds, Typed
<1>4. CASE \E c \in Streams : SocketReads(c)
  <2>1. PICK c \in Streams : SocketReads(c)
    BY <1>4
  <2> QED
    BY <2>1 DEF SocketReads, Uses, Finds, Typed
<1>5. CASE \E c \in Streams : SocketCloses(c)
  <2>1. PICK c \in Streams : SocketCloses(c)
    BY <1>5
  <2> QED
    BY <2>1 DEF SocketCloses, Uses, TellClose, Tells, Unlisted, Typed
<1>6. CASE \E c \in Streams : SocketShuts(c)
  <2>1. PICK c \in Streams : SocketShuts(c)
    BY <1>6
  <2> QED
    BY <2>1 DEF SocketShuts, Uses, Shut, Typed
<1>7. CASE HandleResolves
  BY <1>7 DEF HandleResolves, Uses, Created, NoObject, Kept, Typed
<1>8. CASE HandleWrte
  BY <1>8 DEF HandleWrte, Uses, Tells, Turn, Reading, Msg, Typed
<1>9. CASE HandleOkay
  BY <1>9 DEF HandleOkay, Uses, Turn, Reading, Msg, Typed
<1>10. CASE HandleClse
  BY <1>10 DEF HandleClse, Uses, Turn, On, Reading, Msg, Typed
<1>11. CASE HandleShuts
  BY <1>11 DEF HandleShuts, Uses, Turn, On, Reading, Msg, Typed
<1>12. CASE \E i \in Streams : RecvCopies(i)
  <2>1. PICK i \in Streams : RecvCopies(i)
    BY <1>12
  <2> QED
    BY <2>1 DEF RecvCopies, Uses, Pump, Typed
<1>13. CASE \E i \in Streams : ReadStarts(i)
  <2>1. PICK i \in Streams : ReadStarts(i)
    BY <1>13
  <2> QED
    BY <2>1 DEF ReadStarts, Uses, Pump, Typed
<1>14. CASE \E i \in Streams : ReadReturns(i)
  <2>1. PICK i \in Streams : ReadReturns(i)
    BY <1>14
  <2> QED
    BY <2>1 DEF ReadReturns, Uses, Pump, Typed
<1>15. CASE \E i \in Streams, p \in Pumps : PumpClosesStream(i, p)
  <2>1. PICK i \in Streams, p \in Pumps : PumpClosesStream(i, p)
    BY <1>15
  <2> QED
    BY <2>1 DEF PumpClosesStream, Uses, Pump, TellClose, Tells, Unlisted, Pumps, Typed
<1>16. CASE \E i \in Streams, p \in Pumps : PumpShuts(i, p)
  <2>1. PICK i \in Streams, p \in Pumps : PumpShuts(i, p)
    BY <1>16
  <2> QED
    BY <2>1 DEF PumpShuts, Uses, Pump, Shut, Pumps, Typed
<1>17. CASE UNCHANGED <<stale>>
  BY <1>17 DEF Typed, Uses
<1>18. CASE (\E c \in Streams : Open(c)) \/ (\E c \in Streams : OpenPolls(c))
            \/ (\E c \in Streams : DeviceAnswers(c)) \/ HandleReads \/ HandleUnlists \/ HandleConnects
            \/ HandleBridges \/ HandleKeeps \/ HandleEnds \/ (\E i \in Streams : RecvEnds(i))
            \/ (\E i \in Streams : SocketWritten(i)) \/ (\E i \in Streams : PeerCloses(i))
            \/ (\E i \in Streams : DeviceOpens(i)) \/ (\E i \in Streams, p \in Pumps : PumpChecks(i, p))
            \/ (\E i \in Streams, p \in Pumps : PumpClosesBridge(i, p))
            \/ (\E t \in {"application", "send"} : Close(t)) \/ CloseBridges \/ CloseStreams \/ CloseJoins
            \/ CloseReturns \/ Destroy \/ (\E s \in Streams : DeviceWrites(s))
            \/ (\E s \in Streams : DeviceCloses(s)) \/ (\E s \in Streams : DeviceGetsClose(s))
  BY <1>17, <1>18 DEF Open, OpenPolls, DeviceAnswers, HandleReads, HandleUnlists, HandleConnects,
     HandleBridges, HandleKeeps, HandleEnds, RecvEnds, SocketWritten, PeerCloses, DeviceOpens, PumpChecks,
     PumpClosesBridge, Close, CloseBridges, CloseStreams, CloseJoins, CloseReturns, Destroy, DeviceWrites,
     DeviceCloses, DeviceGetsClose
<1> QED
  BY <1>1, <1>2, <1>3, <1>4, <1>5, <1>6, <1>7, <1>8, <1>9, <1>10, <1>11, <1>12, <1>13, <1>14, <1>15, <1>16,
     <1>17, <1>18 DEF Next, HandleSteps, PumpSteps, ToAdbSteps, ToSocketSteps, CloseSteps, Pumps, vars

\* Each step keeps the parts of the invariant that hold on a closed connection too.
LEMMA HandlingKept ==
  ASSUME Typed, Handling, [Next]_vars
  PROVE  Handling'
<1> USE StreamsAssumption DEF Handling
<1>1. CASE \E c \in Streams : DeviceAnswers(c)
  <2>1. PICK c \in Streams : DeviceAnswers(c)
    BY <1>1
  <2>2. UNCHANGED handle
    BY <2>1, DeviceAnswersDoes
  <2>3. UNCHANGED toHost \/ \E cmd \in Cmds \ {"none"}, r \in BOOLEAN : Posts(cmd, c, r)
    BY <2>1, DeviceAnswersDoes DEF Cmds
  <2>4. CASE UNCHANGED toHost
    BY <2>2, <2>4
  <2>5. CASE \E cmd \in Cmds \ {"none"}, r \in BOOLEAN : Posts(cmd, c, r)
    <3> HIDE DEF Handling
    <3> QED
      BY <2>2, <2>5, HandlingPosts
  <2> QED
    BY <2>3, <2>4, <2>5
<1>2. CASE HandleReads
  <2>1. /\ toHost # <<>> /\ toHost' = Tail(toHost)
        /\ At(IF toHost[1].cmd = "OPEN" THEN "connect" ELSE "resolve", toHost[1], NoStream, table.last)
    BY <1>2, HandleReadsDoes
  <2>2. /\ Len(toHost) \in Nat \ {0} /\ Len(toHost') = Len(toHost) - 1
        /\ \A n \in 1..Len(toHost') : toHost'[n] = toHost[n + 1]
    BY <2>1, HeadTailProperties, LenProperties, EmptySeq DEF Typed, Sending
  <2>3. \A n \in 1..Len(toHost') : toHost'[n].stream \in Streams /\ toHost'[n].cmd # "none"
    BY <2>2
  <2>4. toHost[1].stream \in Streams
    BY <2>2
  <2>5. /\ handle'.at = (IF toHost[1].cmd = "OPEN" THEN "connect" ELSE "resolve") /\ handle'.msg = toHost[1]
        /\ handle'.stream = NoStream
    BY <2>1, AtIs
  <2> QED
    BY <2>3, <2>4, <2>5
<1>3. CASE HandleResolves
  BY <1>3, HandleResolvesDoes, HandleIs, AtIs
<1>4. CASE HandleWrte
  BY <1>4, HandleWrteDoes, HandleIs, AtIs, HandlingRests
<1>5. CASE HandleOkay
  BY <1>5, HandleOkayDoes, HandleIs, AtIs, HandlingRests
<1>6. CASE HandleClse
  <2>1. (Rests /\ UNCHANGED toHost) \/ (\E l \in {"shut", "shutAgain"} : At(l, handle.msg, handle.msg.stream, handle.cached)
             /\ handle.msg.stream \in Streams /\ handle.msg.cmd = "CLSE" /\ UNCHANGED toHost)
    BY <1>6, HandleClseDoes
  <2>2. CASE Rests /\ UNCHANGED toHost
    BY <2>2, HandlingRests
  <2>3. CASE \E l \in {"shut", "shutAgain"} : At(l, handle.msg, handle.msg.stream, handle.cached)
             /\ handle.msg.stream \in Streams /\ handle.msg.cmd = "CLSE" /\ UNCHANGED toHost
    BY <2>3, AtIs
  <2> QED
    BY <2>1, <2>2, <2>3
<1>7. CASE HandleShuts
  <2>1. (Rests /\ UNCHANGED toHost) \/ (At("unlist", handle.msg, handle.msg.stream, handle.cached)
             /\ handle.msg.stream \in Streams /\ handle.msg.cmd = "CLSE" /\ UNCHANGED toHost)
    BY <1>7, HandleShutsDoes
  <2>2. CASE Rests /\ UNCHANGED toHost
    BY <2>2, HandlingRests
  <2>3. CASE At("unlist", handle.msg, handle.msg.stream, handle.cached)
             /\ handle.msg.stream \in Streams /\ handle.msg.cmd = "CLSE" /\ UNCHANGED toHost
    BY <2>3, AtIs
  <2> QED
    BY <2>1, <2>2, <2>3
<1>8. CASE HandleUnlists
  BY <1>8, HandleUnlistsDoes, HandleIs, AtIs, HandlingRests
<1>9. CASE HandleConnects
  <2>1. toHost' = toHost
    BY <1>9 DEF HandleConnects
  <2>2. handle.msg.stream \in Streams /\ handle.msg.cmd = "OPEN"
    BY <1>9 DEF HandleConnects
  <2>3. Rests \/ At("bridge", handle.msg, handle.stream, handle.cached)
    BY <1>9, HandleConnectsHas
  <2>4. CASE Rests
    BY <2>1, <2>4, HandlingRests
  <2>5. CASE At("bridge", handle.msg, handle.stream, handle.cached)
    BY <2>1, <2>2, <2>5, AtIs
  <2> QED
    BY <2>3, <2>4, <2>5
<1>10. CASE HandleBridges
  BY <1>10, HandleBridgesDoes, HandleIs, AtIs
<1>11. CASE HandleKeeps
  BY <1>11, HandleKeepsDoes, HandleIs, AtIs, HandlingRests
<1>12. CASE HandleEnds
  BY <1>12, HandleEndsDoes, HandleIs, AtIs, EmptySeq, MessageType
<1>13. CASE \E i \in Streams : DeviceOpens(i)
  <2>1. PICK i \in Streams : DeviceOpens(i)
    BY <1>13
  <2>2. UNCHANGED handle
    BY <2>1, DeviceOpensDoes
  <2>3. UNCHANGED toHost \/ \E cmd \in Cmds \ {"none"}, r \in BOOLEAN : Posts(cmd, i, r)
    BY <2>1, DeviceOpensDoes DEF Cmds
  <2>4. CASE UNCHANGED toHost
    BY <2>2, <2>4
  <2>5. CASE \E cmd \in Cmds \ {"none"}, r \in BOOLEAN : Posts(cmd, i, r)
    <3> HIDE DEF Handling
    <3> QED
      BY <2>2, <2>5, HandlingPosts
  <2> QED
    BY <2>3, <2>4, <2>5
<1>14. CASE \E t \in {"application", "send"} : Close(t)
  <2>1. PICK t \in {"application", "send"} : Close(t)
    BY <1>14
  <2> QED
    BY <2>1, CloseDoes, EmptySeq, MessageType
<1>15. CASE CloseReturns
  BY <1>15, CloseReturnsDoes, HandleIs, AtIs
<1>16. CASE \E s \in Streams : DeviceWrites(s)
  <2>1. PICK s \in Streams : DeviceWrites(s)
    BY <1>16
  <2>2. UNCHANGED handle
    BY <2>1, DeviceWritesDoes
  <2>3. UNCHANGED toHost \/ \E cmd \in Cmds \ {"none"}, r \in BOOLEAN : Posts(cmd, s, r)
    BY <2>1, DeviceWritesDoes DEF Cmds
  <2>4. CASE UNCHANGED toHost
    BY <2>2, <2>4
  <2>5. CASE \E cmd \in Cmds \ {"none"}, r \in BOOLEAN : Posts(cmd, s, r)
    <3> HIDE DEF Handling
    <3> QED
      BY <2>2, <2>5, HandlingPosts
  <2> QED
    BY <2>3, <2>4, <2>5
<1>17. CASE \E s \in Streams : DeviceCloses(s)
  <2>1. PICK s \in Streams : DeviceCloses(s)
    BY <1>17
  <2>2. UNCHANGED handle
    BY <2>1, DeviceClosesDoes
  <2>3. UNCHANGED toHost \/ \E cmd \in Cmds \ {"none"}, r \in BOOLEAN : Posts(cmd, s, r)
    BY <2>1, DeviceClosesDoes DEF Cmds
  <2>4. CASE UNCHANGED toHost
    BY <2>2, <2>4
  <2>5. CASE \E cmd \in Cmds \ {"none"}, r \in BOOLEAN : Posts(cmd, s, r)
    <3> HIDE DEF Handling
    <3> QED
      BY <2>2, <2>5, HandlingPosts
  <2> QED
    BY <2>3, <2>4, <2>5
<1>18. CASE \E s \in Streams : DeviceGetsClose(s)
  <2>1. PICK s \in Streams : DeviceGetsClose(s)
    BY <1>18
  <2>2. UNCHANGED handle
    BY <2>1, DeviceGetsCloseDoes
  <2>3. UNCHANGED toHost \/ \E cmd \in Cmds \ {"none"}, r \in BOOLEAN : Posts(cmd, s, r)
    BY <2>1, DeviceGetsCloseDoes DEF Cmds
  <2>4. CASE UNCHANGED toHost
    BY <2>2, <2>4
  <2>5. CASE \E cmd \in Cmds \ {"none"}, r \in BOOLEAN : Posts(cmd, s, r)
    <3> HIDE DEF Handling
    <3> QED
      BY <2>2, <2>5, HandlingPosts
  <2> QED
    BY <2>3, <2>4, <2>5
<1>19. CASE UNCHANGED <<handle, toHost>>
  BY <1>19
<1>20. CASE (\E c \in Streams : Open(c)) \/ (\E c \in Streams : OpenPolls(c))
            \/ (\E c \in Streams : OpenReturns(c)) \/ (\E c \in Streams : CommandEnds(c))
            \/ (\E c \in Streams : CommandCollects(c)) \/ (\E c \in Streams : SocketReads(c))
            \/ (\E c \in Streams : SocketCloses(c)) \/ (\E c \in Streams : SocketShuts(c))
            \/ (\E i \in Streams : RecvCopies(i)) \/ (\E i \in Streams : RecvEnds(i))
            \/ (\E i \in Streams : ReadStarts(i)) \/ (\E i \in Streams : ReadReturns(i))
            \/ (\E i \in Streams : SocketWritten(i)) \/ (\E i \in Streams : PeerCloses(i))
            \/ (\E i \in Streams, p \in Pumps : PumpChecks(i, p))
            \/ (\E i \in Streams, p \in Pumps : PumpClosesBridge(i, p))
            \/ (\E i \in Streams, p \in Pumps : PumpClosesStream(i, p))
            \/ (\E i \in Streams, p \in Pumps : PumpShuts(i, p)) \/ CloseBridges \/ CloseStreams
            \/ CloseJoins \/ Destroy
  BY <1>19, <1>20 DEF Open, OpenPolls, OpenReturns, CommandEnds, CommandCollects, SocketReads, SocketCloses,
     SocketShuts, RecvCopies, RecvEnds, ReadStarts, ReadReturns, SocketWritten, PeerCloses, PumpChecks,
     PumpClosesBridge, PumpClosesStream, PumpShuts, CloseBridges, CloseStreams, CloseJoins, Destroy
<1> QED
  BY <1>1, <1>2, <1>3, <1>4, <1>5, <1>6, <1>7, <1>8, <1>9, <1>10, <1>11, <1>12, <1>13, <1>14, <1>15, <1>16,
     <1>17, <1>18, <1>19, <1>20 DEF Next, HandleSteps, PumpSteps, ToAdbSteps, ToSocketSteps, CloseSteps,
     Pumps, vars

LEMMA SpeakingKept ==
  ASSUME Typed, Handling, Speaking, Calling, [Next]_vars
  PROVE  Speaking'
<1> USE StreamsAssumption DEF Speaking
<1>1. CASE \E c \in Streams : Open(c)
  <2>1. PICK c \in Streams : Open(c)
    BY <1>1
  <2>2. Fewer /\ UNCHANGED use /\ (Unmoved \/ Moves(c, "asked")) /\ device[c].at = "none"
    BY <2>1, Fewer1, HostMoves DEF Open, Calling, Calls
  <2> HIDE DEF Speaking
  <2> QED
    BY <2>2, SpeaksFewer, SpeaksMoved
<1>2. CASE \E c \in Streams : SocketCloses(c)
  <2>1. PICK c \in Streams : SocketCloses(c)
    BY <1>2
  <2>2. Fewer /\ UNCHANGED use /\ Unmoved
    BY <2>1, Fewer1, HostMoves DEF SocketCloses
  <2> HIDE DEF Speaking
  <2> QED
    BY <2>2, SpeaksFewer
<1>3. CASE \E c \in Streams : DeviceAnswers(c)
  <2>1. PICK c \in Streams : DeviceAnswers(c)
    BY <1>3
  <2>2. UNCHANGED <<use, handle>> /\ device[c].at = "asked" /\ use[c] # "bridge"
    BY <2>1, DeviceAnswersDoes
  <2>3. \E r \in BOOLEAN, cmd \in {"OKAY", "CLSE"} :
          Posts(cmd, c, r) /\ Moves(c, IF r THEN "refused" ELSE "open")
    BY <2>1, DeviceAnswersDoes, TurnsDoes DEF Typed, Moves
  <2>4. \A r \in BOOLEAN : Moves(c, IF r THEN "refused" ELSE "open") =>
          (r <=> device'[c].at = "refused") /\ device'[c].at \in {"open", "closed", "refused"}
    BY DEF Moves
  <2> HIDE DEF Speaking
  <2> QED
    BY <2>2, <2>3, <2>4, SpeaksMore DEF Cmds
<1>4. CASE HandleReads
  <2>1. UNCHANGED <<use, device>>
    BY <1>4 DEF HandleReads
  <2>2. \A s \in Streams : \A n \in Underway(s)' : n + 1 \in Underway(s) /\ Message(n)' = Message(n + 1)
    BY <1>4, LineMoves
  <2> QED
    BY <2>1, <2>2 DEF Speaks
<1>5. CASE HandleResolves
  <2>1. Fewer /\ UNCHANGED use /\ Unmoved
    BY <1>5, LoopFewer, HostMoves DEF HandleResolves, Unmoved
  <2> HIDE DEF Speaking
  <2> QED
    BY <2>1, SpeaksFewer
<1>6. CASE HandleWrte
  <2>1. Fewer /\ UNCHANGED use /\ Unmoved
    BY <1>6, LoopFewer, HostMoves DEF HandleWrte, Unmoved
  <2> HIDE DEF Speaking
  <2> QED
    BY <2>1, SpeaksFewer
<1>7. CASE HandleOkay
  <2>1. Fewer /\ UNCHANGED use /\ Unmoved
    BY <1>7, LoopFewer, HostMoves DEF HandleOkay, Unmoved
  <2> HIDE DEF Speaking
  <2> QED
    BY <2>1, SpeaksFewer
<1>8. CASE HandleClse
  <2>1. Fewer /\ UNCHANGED use /\ Unmoved
    BY <1>8, LoopFewer, HostMoves DEF HandleClse, Unmoved
  <2> HIDE DEF Speaking
  <2> QED
    BY <2>1, SpeaksFewer
<1>9. CASE HandleShuts
  <2>1. Fewer /\ UNCHANGED use /\ Unmoved
    BY <1>9, LoopFewer, HostMoves DEF HandleShuts, Unmoved
  <2> HIDE DEF Speaking
  <2> QED
    BY <2>1, SpeaksFewer
<1>10. CASE HandleUnlists
  <2>1. Fewer /\ UNCHANGED use /\ Unmoved
    BY <1>10, LoopFewer, HostMoves DEF HandleUnlists, Unmoved
  <2> HIDE DEF Speaking
  <2> QED
    BY <2>1, SpeaksFewer
<1>11. CASE HandleConnects
  <2>1. Fewer /\ UNCHANGED use /\ (Unmoved \/ Moves(handle.msg.stream, "open"))
    BY <1>11, LoopFewer, HostMoves DEF HandleConnects
  <2>2. handle.msg.stream \in Streams /\ handle.msg.cmd = "OPEN" /\ 0 \in Numbers
    BY <1>11, LenProperties DEF HandleConnects, Handling, Typed, Sending, Numbers
  <2>3. use[handle.msg.stream] = "bridge" /\ device[handle.msg.stream].at # "refused"
    BY <2>2 DEF Speaks, Underway, Message
  <2> HIDE DEF Speaking
  <2> QED
    BY <2>1, <2>2, <2>3, SpeaksFewer, SpeaksMoved
<1>12. CASE HandleBridges
  <2>1. Fewer /\ UNCHANGED use /\ Unmoved
    BY <1>12, LoopFewer, HostMoves DEF HandleBridges, Unmoved
  <2> HIDE DEF Speaking
  <2> QED
    BY <2>1, SpeaksFewer
<1>13. CASE HandleKeeps
  <2>1. Fewer /\ UNCHANGED use /\ Unmoved
    BY <1>13, LoopFewer, HostMoves DEF HandleKeeps, Unmoved
  <2> HIDE DEF Speaking
  <2> QED
    BY <2>1, SpeaksFewer
<1>14. CASE HandleEnds
  <2>1. Fewer /\ UNCHANGED use /\ Unmoved
    BY <1>14, LoopFewer, HostMoves DEF HandleEnds, Unmoved
  <2> HIDE DEF Speaking
  <2> QED
    BY <2>1, SpeaksFewer
<1>15. CASE \E i \in Streams : DeviceOpens(i)
  <2>1. PICK i \in Streams : DeviceOpens(i)
    BY <1>15
  <2>2. UNCHANGED <<use, handle>> /\ device[i].at = "none" /\ use[i] = "bridge"
    BY <2>1, DeviceOpensDoes
  <2>3. (Unmoved \/ \E a : Moves(i, a)) /\ device'[i].at \in {"asked", "open", "closed"} /\ (use[i] # "bridge" => device'[i].at # "asked")
    BY <2>1, <2>2, DeviceMoves DEF Moves, Unmoved
  <2>4. \E r \in BOOLEAN : Posts("OPEN", i, r) /\ ~r
    BY <2>1, DeviceOpensDoes
  <2> HIDE DEF Speaking
  <2> QED
    BY <2>2, <2>3, <2>4, SpeaksMore DEF Cmds
<1>16. CASE \E i \in Streams, p \in Pumps : PumpClosesStream(i, p)
  <2>1. PICK i \in Streams, p \in Pumps : PumpClosesStream(i, p)
    BY <1>16
  <2>2. Fewer /\ UNCHANGED use /\ Unmoved
    BY <2>1, Fewer1, HostMoves DEF PumpClosesStream
  <2> HIDE DEF Speaking
  <2> QED
    BY <2>2, SpeaksFewer
<1>17. CASE \E t \in {"application", "send"} : Close(t)
  <2>1. PICK t \in {"application", "send"} : Close(t)
    BY <1>17
  <2>2. Fewer /\ UNCHANGED use /\ Unmoved
    BY <2>1, LoopFewer, HostMoves DEF Close, Unmoved
  <2> HIDE DEF Speaking
  <2> QED
    BY <2>2, SpeaksFewer
<1>18. CASE CloseReturns
  <2>1. Fewer /\ UNCHANGED use /\ Unmoved
    BY <1>18, LoopFewer, HostMoves DEF CloseReturns, Unmoved
  <2> HIDE DEF Speaking
  <2> QED
    BY <2>1, SpeaksFewer
<1>19. CASE \E s \in Streams : DeviceWrites(s)
  <2>1. PICK s \in Streams : DeviceWrites(s)
    BY <1>19
  <2>2. UNCHANGED <<use, handle>> /\ device[s].at = "open"
    BY <2>1, DeviceWritesDoes
  <2>3. (Unmoved \/ \E a : Moves(s, a)) /\ device'[s].at \in {"asked", "open", "closed"} /\ (use[s] # "bridge" => device'[s].at # "asked")
    BY <2>1, <2>2, DeviceMoves DEF Moves, Unmoved
  <2>4. \E r \in BOOLEAN : Posts("WRTE", s, r) /\ ~r
    BY <2>1, DeviceWritesDoes
  <2> HIDE DEF Speaking
  <2> QED
    BY <2>2, <2>3, <2>4, SpeaksMore DEF Cmds
<1>20. CASE \E s \in Streams : DeviceCloses(s)
  <2>1. PICK s \in Streams : DeviceCloses(s)
    BY <1>20
  <2>2. UNCHANGED <<use, handle>> /\ device[s].at = "open"
    BY <2>1, DeviceClosesDoes
  <2>3. (Unmoved \/ \E a : Moves(s, a)) /\ device'[s].at \in {"asked", "open", "closed"} /\ (use[s] # "bridge" => device'[s].at # "asked")
    BY <2>1, <2>2, DeviceMoves DEF Moves, Unmoved
  <2>4. \E r \in BOOLEAN : Posts("CLSE", s, r) /\ ~r
    BY <2>1, DeviceClosesDoes
  <2> HIDE DEF Speaking
  <2> QED
    BY <2>2, <2>3, <2>4, SpeaksMore DEF Cmds
<1>21. CASE \E s \in Streams : DeviceGetsClose(s)
  <2>1. PICK s \in Streams : DeviceGetsClose(s)
    BY <1>21
  <2>2. UNCHANGED <<use, handle>> /\ device[s].at \in {"asked", "open"} /\ Moves(s, "closed")
    BY <2>1, DeviceGetsCloseDoes, DeviceMoves
  <2>3. UNCHANGED toHost \/ \E r \in BOOLEAN : Posts("CLSE", s, r) /\ ~r
    BY <2>1, DeviceGetsCloseDoes
  <2>4. device'[s].at = "closed"
    BY <2>2 DEF Moves
  <2> HIDE DEF Speaking
  <2>5. CASE UNCHANGED toHost
    BY <2>2, <2>5, Fewer1, SpeaksMoved
  <2>6. CASE \E r \in BOOLEAN : Posts("CLSE", s, r) /\ ~r
    BY <2>2, <2>4, <2>6, SpeaksMore DEF Cmds
  <2> QED
    BY <2>3, <2>5, <2>6
<1>22. CASE UNCHANGED <<use, handle, toHost, device>>
  <2>1. Fewer /\ UNCHANGED use /\ Unmoved
    BY <1>22, Fewer1 DEF Unmoved
  <2> HIDE DEF Speaking
  <2> QED
    BY <2>1, SpeaksFewer
<1>23. CASE (\E c \in Streams : OpenPolls(c)) \/ (\E c \in Streams : OpenReturns(c))
            \/ (\E c \in Streams : CommandEnds(c)) \/ (\E c \in Streams : CommandCollects(c))
            \/ (\E c \in Streams : SocketReads(c)) \/ (\E c \in Streams : SocketShuts(c))
            \/ (\E i \in Streams : RecvCopies(i)) \/ (\E i \in Streams : RecvEnds(i))
            \/ (\E i \in Streams : ReadStarts(i)) \/ (\E i \in Streams : ReadReturns(i))
            \/ (\E i \in Streams : SocketWritten(i)) \/ (\E i \in Streams : PeerCloses(i))
            \/ (\E i \in Streams, p \in Pumps : PumpChecks(i, p))
            \/ (\E i \in Streams, p \in Pumps : PumpClosesBridge(i, p))
            \/ (\E i \in Streams, p \in Pumps : PumpShuts(i, p)) \/ CloseBridges \/ CloseStreams
            \/ CloseJoins \/ Destroy
  BY <1>22, <1>23 DEF OpenPolls, OpenReturns, CommandEnds, CommandCollects, SocketReads, SocketShuts,
     RecvCopies, RecvEnds, ReadStarts, ReadReturns, SocketWritten, PeerCloses, PumpChecks, PumpClosesBridge,
     PumpShuts, CloseBridges, CloseStreams, CloseJoins, Destroy
<1> QED
  BY <1>1, <1>2, <1>3, <1>4, <1>5, <1>6, <1>7, <1>8, <1>9, <1>10, <1>11, <1>12, <1>13, <1>14, <1>15, <1>16,
     <1>17, <1>18, <1>19, <1>20, <1>21, <1>22, <1>23 DEF Next, HandleSteps, PumpSteps, ToAdbSteps,
     ToSocketSteps, CloseSteps, Pumps, vars

LEMMA LivingKept ==
  ASSUME Typed, Handling, Speaking, Living, Pointing, Calling, [Next]_vars
  PROVE  Living'
<1> USE StreamsAssumption DEF Living
<1>1. CASE \E c \in Streams : Open(c)
  <2>1. PICK c \in Streams : Open(c)
    BY <1>1
  <2>2. UNCHANGED <<use, object, table>> /\ (Unmoved \/ Moves(c, "asked")) /\ device[c].at = "none"
    BY <2>1, HostMoves DEF Open, Calling, Calls
  <2> HIDE DEF Living
  <2> QED
    BY <2>2, LivesTouched, LivesMoved
<1>2. CASE \E c \in Streams : OpenReturns(c)
  <2>1. PICK c \in Streams : OpenReturns(c)
    BY <1>2
  <2>2. UNCHANGED use /\ Unmoved
    BY <2>1 DEF OpenReturns, Unmoved
  <2>3. \/ UNCHANGED <<object, table>>
        \/ Deletes(c) /\ c \in table.owned /\ table'.owned = table.owned \ {c}
    BY <2>1, OpenReturnsDoes DEF Calling, Calls
  <2>4. CASE UNCHANGED <<object, table>>
    <3> HIDE DEF Living
    <3> QED
      BY <2>2, <2>4, LivesTouched
  <2>5. CASE Deletes(c) /\ c \in table.owned /\ table'.owned = table.owned \ {c}
    <3> TAKE t \in Streams
    <3>1. Lives(t) /\ Lives(c) /\ device'[t].at = device[t].at
      BY <2>2 DEF Unmoved
    <3>2. IF t = c THEN object'[t].life = "deleted" /\ (object'[t].refused <=> object[t].refused) ELSE object'[t] = object[t]
      BY <2>5, DeletesDoes DEF Typed
    <3> QED
      BY <2>2, <2>5, <3>1, <3>2 DEF Lives
  <2> QED
    BY <2>3, <2>4, <2>5
<1>3. CASE \E c \in Streams : CommandCollects(c)
  <2>1. PICK c \in Streams : CommandCollects(c)
    BY <1>3
  <2>2. Unmoved /\ UNCHANGED use /\ table'.owned \subseteq table.owned
    BY <2>1 DEF CommandCollects, Unmoved
  <2> HIDE DEF Living
  <2>3. UNCHANGED object \/ \E t \in Streams : Touches(t)
    BY <2>1, Touching
  <2> QED
    BY <2>2, <2>3, LivesTouched
<1>4. CASE \E c \in Streams : SocketReads(c)
  <2>1. PICK c \in Streams : SocketReads(c)
    BY <1>4
  <2>2. Unmoved /\ UNCHANGED use /\ table'.owned \subseteq table.owned
    BY <2>1 DEF SocketReads, Unmoved
  <2> HIDE DEF Living
  <2>3. UNCHANGED object \/ \E t \in Streams : Touches(t)
    BY <2>1, Touching
  <2> QED
    BY <2>2, <2>3, LivesTouched
<1>5. CASE \E c \in Streams : SocketCloses(c)
  <2>1. PICK c \in Streams : SocketCloses(c)
    BY <1>5
  <2>2. Unmoved /\ UNCHANGED <<use, object>>
    BY <2>1, HostMoves DEF SocketCloses
  <2>3. table'.owned \subseteq table.owned
    BY <2>1, SocketClosesDoes
  <2> HIDE DEF Living
  <2> QED
    BY <2>2, <2>3, LivesTouched
<1>6. CASE \E c \in Streams : SocketShuts(c)
  <2>1. PICK c \in Streams : SocketShuts(c)
    BY <1>6
  <2>2. Unmoved /\ UNCHANGED use /\ table'.owned \subseteq table.owned
    BY <2>1 DEF SocketShuts, Unmoved
  <2> HIDE DEF Living
  <2>3. UNCHANGED object \/ \E t \in Streams : Touches(t)
    BY <2>1, Touching
  <2> QED
    BY <2>2, <2>3, LivesTouched
<1>7. CASE \E c \in Streams : DeviceAnswers(c)
  <2>1. PICK c \in Streams : DeviceAnswers(c)
    BY <1>7
  <2>2. UNCHANGED <<use, object, table>> /\ device[c].at = "asked" /\ use[c] # "bridge" /\ \E a \in {"open", "refused"} : Moves(c, a)
    BY <2>1, DeviceMoves DEF DeviceAnswers
  <2> HIDE DEF Living
  <2> QED
    BY <2>2, LivesMoved
<1>8. CASE HandleResolves
  <2>1. Unmoved /\ UNCHANGED use
    BY <1>8 DEF HandleResolves, Unmoved
  <2>2. /\ handle.msg.stream \in Streams
        /\ \/ UNCHANGED object /\ table'.owned = table.owned
           \/ Makes(handle.msg.stream, handle.msg.refusal) /\ table'.owned = table.owned \cup {handle.msg.stream}
    BY <1>8, HandleResolvesDoes
  <2>3. handle.msg.refusal \in BOOLEAN /\ 0 \in Underway(handle.msg.stream) /\ Message(0) = handle.msg
    BY <2>2, HandleIs, LenProperties DEF Typed, Sending, Numbers, Underway, Message
  <2>4. /\ handle.msg.refusal <=> device[handle.msg.stream].at = "refused"
        /\ use[handle.msg.stream] # "bridge" => device[handle.msg.stream].at \in {"open", "closed", "refused"}
    BY <2>2, <2>3 DEF Speaking, Speaks
  <2>5. device'[handle.msg.stream].at = device[handle.msg.stream].at
    BY <2>1, <2>2 DEF Unmoved
  <2> HIDE DEF Living
  <2> QED
    BY <2>1, <2>2, <2>3, <2>4, <2>5, LivesTouched, LivesMade
<1>9. CASE HandleWrte
  <2>1. Unmoved /\ UNCHANGED use /\ table'.owned \subseteq table.owned
    BY <1>9, HostMoves DEF HandleWrte
  <2> HIDE DEF Living
  <2>2. UNCHANGED object \/ \E t \in Streams : Touches(t)
    BY <1>9, Touching
  <2> QED
    BY <2>1, <2>2, LivesTouched
<1>10. CASE HandleClse
  <2>1. Unmoved /\ UNCHANGED use /\ table'.owned \subseteq table.owned
    BY <1>10 DEF HandleClse, Unmoved
  <2> HIDE DEF Living
  <2>2. UNCHANGED object \/ \E t \in Streams : Touches(t)
    BY <1>10, Touching
  <2> QED
    BY <2>1, <2>2, LivesTouched
<1>11. CASE HandleShuts
  <2>1. Unmoved /\ UNCHANGED use /\ table'.owned \subseteq table.owned
    BY <1>11 DEF HandleShuts, Unmoved
  <2> HIDE DEF Living
  <2>2. UNCHANGED object \/ \E t \in Streams : Touches(t)
    BY <1>11, Touching
  <2> QED
    BY <2>1, <2>2, LivesTouched
<1>12. CASE HandleUnlists
  <2>1. Unmoved /\ UNCHANGED <<use, object>>
    BY <1>12 DEF HandleUnlists, Unmoved
  <2>2. table'.owned \subseteq table.owned
    BY <1>12, HandleUnlistsDoes
  <2> HIDE DEF Living
  <2> QED
    BY <2>1, <2>2, LivesTouched
<1>13. CASE HandleConnects
  <2>1. UNCHANGED use /\ (Unmoved \/ Moves(handle.msg.stream, "open"))
    BY <1>13, HostMoves DEF HandleConnects
  <2>2. handle.msg.stream \in Streams /\ handle.msg.cmd = "OPEN" /\ 0 \in Numbers
    BY <1>13, LenProperties DEF HandleConnects, Handling, Typed, Sending, Numbers
  <2>3. use[handle.msg.stream] = "bridge" /\ device[handle.msg.stream].at # "refused"
    BY <2>2 DEF Speaking, Speaks, Underway, Message
  <2>4. device'[handle.msg.stream].at # "refused"
    BY <2>1, <2>2, <2>3 DEF Unmoved, Moves
  <2>5. \/ UNCHANGED <<object, table>> /\ Unmoved
        \/ \E r \in BOOLEAN : Makes(handle.msg.stream, r) /\ ~r /\ table'.owned = table.owned \cup {handle.msg.stream}
    <3>1. ASSUME NEW s \in Streams, Requests(s) PROVE Unmoved
      BY <3>1, RequestsDoes DEF Typed, Unmoved
    <3>2. UNCHANGED device => Unmoved
      BY DEF Unmoved
    <3>3. \/ UNCHANGED <<object, table>> /\ (UNCHANGED device \/ Requests(handle.msg.stream))
          \/ /\ Makes(handle.msg.stream, FALSE)
             /\ table' = [listed |-> table.listed \cup {handle.msg.stream}, owned |-> table.owned \cup {handle.msg.stream},
                          last |-> handle.msg.stream]
      BY <1>13, HandleConnectsDoes
    <3>4. Makes(handle.msg.stream, FALSE) => \E r \in BOOLEAN : Makes(handle.msg.stream, r) /\ ~r
      OBVIOUS
    <3>5. CASE UNCHANGED <<object, table>> /\ (UNCHANGED device \/ Requests(handle.msg.stream))
      BY <2>2, <3>1, <3>2, <3>5
    <3>6. ASSUME table' = [listed |-> table.listed \cup {handle.msg.stream}, owned |-> table.owned \cup {handle.msg.stream},
                          last |-> handle.msg.stream]
          PROVE  table'.owned = table.owned \cup {handle.msg.stream}
      BY <3>6
    <3> QED
      BY <3>3, <3>4, <3>5, <3>6
  <2> HIDE DEF Living
  <2> QED
    BY <2>1, <2>2, <2>3, <2>4, <2>5, LivesTouched, LivesMade
<1>14. CASE \E i \in Streams : ReadReturns(i)
  <2>1. PICK i \in Streams : ReadReturns(i)
    BY <1>14
  <2>2. Unmoved /\ UNCHANGED use /\ table'.owned \subseteq table.owned
    BY <2>1 DEF ReadReturns, Unmoved
  <2> HIDE DEF Living
  <2>3. UNCHANGED object \/ \E t \in Streams : Touches(t)
    BY <2>1, Touching
  <2> QED
    BY <2>2, <2>3, LivesTouched
<1>15. CASE \E i \in Streams : DeviceOpens(i)
  <2>1. PICK i \in Streams : DeviceOpens(i)
    BY <1>15
  <2>2. UNCHANGED <<use, object, table>> /\ device[i].at = "none" /\ use[i] = "bridge" /\ \E a \in {"asked"} : Moves(i, a)
    BY <2>1, DeviceMoves DEF DeviceOpens
  <2> HIDE DEF Living
  <2> QED
    BY <2>2, LivesMoved
<1>16. CASE \E i \in Streams, p \in Pumps : PumpClosesStream(i, p)
  <2>1. PICK i \in Streams, p \in Pumps : PumpClosesStream(i, p)
    BY <1>16
  <2>2. Unmoved /\ UNCHANGED <<use, object>>
    BY <2>1, HostMoves DEF PumpClosesStream
  <2>3. table'.owned \subseteq table.owned
    BY <2>1, PumpClosesStreamDoes
  <2> HIDE DEF Living
  <2> QED
    BY <2>2, <2>3, LivesTouched
<1>17. CASE \E i \in Streams, p \in Pumps : PumpShuts(i, p)
  <2>1. PICK i \in Streams, p \in Pumps : PumpShuts(i, p)
    BY <1>17
  <2>2. Unmoved /\ UNCHANGED use /\ table'.owned \subseteq table.owned
    BY <2>1 DEF PumpShuts, Unmoved
  <2> HIDE DEF Living
  <2>3. UNCHANGED object \/ \E t \in Streams : Touches(t)
    BY <2>1, Touching
  <2> QED
    BY <2>2, <2>3, LivesTouched
<1>18. CASE CloseStreams
  <2>1. UNCHANGED <<use, device>> /\ table'.owned = table.owned
    BY <1>18, CloseStreamsDoes
  <2>2. \A s \in Streams : object'[s].life = object[s].life /\ (object'[s].refused <=> object[s].refused)
    BY <1>18, CloseStreamsDoes
  <2>3. \A s \in Streams : s \notin table.owned => object'[s] = object[s]
    BY <1>18, CloseStreamsDoes
  <2> QED
    BY <2>1, <2>2, <2>3 DEF Lives
<1>19. CASE Destroy
  <2>1. UNCHANGED <<use, device>> /\ table'.owned = {}
    BY <1>19, DestroyDoes
  <2>2. \A s \in Streams :
                          /\ (object'[s].refused <=> object[s].refused)
                          /\ s \in table.owned => object'[s].life = "deleted"
                          /\ s \notin table.owned => object'[s] = object[s]
    BY <1>19, DestroyDoes
  <2> TAKE s \in Streams
  <2>3. Lives(s)
    OBVIOUS
  <2>4. CASE s \in table.owned
    BY <2>1, <2>2, <2>3, <2>4 DEF Lives
  <2>5. CASE s \notin table.owned
    BY <2>1, <2>2, <2>3, <2>5 DEF Lives
  <2> QED
    BY <2>4, <2>5
<1>20. CASE \E s \in Streams : DeviceWrites(s)
  <2>1. PICK s \in Streams : DeviceWrites(s)
    BY <1>20
  <2>2. Unmoved /\ UNCHANGED <<use, object>>
    BY <2>1, DeviceMoves DEF DeviceWrites
  <2>3. table'.owned \subseteq table.owned
    BY <2>1 DEF DeviceWrites
  <2> HIDE DEF Living
  <2> QED
    BY <2>2, <2>3, LivesTouched
<1>21. CASE \E s \in Streams : DeviceCloses(s)
  <2>1. PICK s \in Streams : DeviceCloses(s)
    BY <1>21
  <2>2. UNCHANGED <<use, object, table>> /\ device[s].at = "open" /\ \E a \in {"closed"} : Moves(s, a)
    BY <2>1, DeviceMoves DEF DeviceCloses
  <2> HIDE DEF Living
  <2> QED
    BY <2>2, LivesMoved
<1>22. CASE \E s \in Streams : DeviceGetsClose(s)
  <2>1. PICK s \in Streams : DeviceGetsClose(s)
    BY <1>22
  <2>2. UNCHANGED <<use, object, table>> /\ device[s].at \in {"asked", "open"} /\ \E a \in {"closed"} : Moves(s, a)
    BY <2>1, DeviceMoves DEF DeviceGetsClose
  <2> HIDE DEF Living
  <2> QED
    BY <2>2, LivesMoved
<1>23. CASE UNCHANGED <<use, object, table, device>>
  <2>1. Unmoved
    BY <1>23 DEF Unmoved
  <2> HIDE DEF Living
  <2> QED
    BY <1>23, <2>1, LivesTouched
<1>24. CASE (\E c \in Streams : OpenPolls(c)) \/ (\E c \in Streams : CommandEnds(c)) \/ HandleReads
            \/ HandleOkay \/ HandleBridges \/ HandleKeeps \/ HandleEnds
            \/ (\E i \in Streams : RecvCopies(i)) \/ (\E i \in Streams : RecvEnds(i))
            \/ (\E i \in Streams : ReadStarts(i)) \/ (\E i \in Streams : SocketWritten(i))
            \/ (\E i \in Streams : PeerCloses(i)) \/ (\E i \in Streams, p \in Pumps : PumpChecks(i, p))
            \/ (\E i \in Streams, p \in Pumps : PumpClosesBridge(i, p))
            \/ (\E t \in {"application", "send"} : Close(t)) \/ CloseBridges \/ CloseJoins \/ CloseReturns
  BY <1>23, <1>24 DEF OpenPolls, CommandEnds, HandleReads, HandleOkay, HandleBridges, HandleKeeps,
     HandleEnds, RecvCopies, RecvEnds, ReadStarts, SocketWritten, PeerCloses, PumpChecks, PumpClosesBridge,
     Close, CloseBridges, CloseJoins, CloseReturns
<1> QED
  BY <1>1, <1>2, <1>3, <1>4, <1>5, <1>6, <1>7, <1>8, <1>9, <1>10, <1>11, <1>12, <1>13, <1>14, <1>15, <1>16,
     <1>17, <1>18, <1>19, <1>20, <1>21, <1>22, <1>23, <1>24 DEF Next, HandleSteps, PumpSteps, ToAdbSteps,
     ToSocketSteps, CloseSteps, Pumps, vars

\* No object is lost: it becomes deleted at most.
LEMMA AliveKept ==
  ASSUME Typed, Handling, Speaking, Living, Pointing, Calling, [Next]_vars
  PROVE  Alive
<1> USE StreamsAssumption DEF Alive
<1>1. CASE \E c \in Streams : OpenReturns(c)
  <2>1. PICK c \in Streams : OpenReturns(c)
    BY <1>1
  <2>2. UNCHANGED object \/ Deletes(c)
    BY <2>1, OpenReturnsDoes
  <2> QED
    BY <2>2, DeletesDoes DEF Typed
<1>2. CASE \E c \in Streams : CommandCollects(c)
  <2>1. PICK c \in Streams : CommandCollects(c)
    BY <1>2
  <2> HIDE DEF Alive
  <2> QED
    BY <2>1, Touching, AliveTouched
<1>3. CASE \E c \in Streams : SocketReads(c)
  <2>1. PICK c \in Streams : SocketReads(c)
    BY <1>3
  <2> HIDE DEF Alive
  <2> QED
    BY <2>1, Touching, AliveTouched
<1>4. CASE \E c \in Streams : SocketShuts(c)
  <2>1. PICK c \in Streams : SocketShuts(c)
    BY <1>4
  <2> HIDE DEF Alive
  <2> QED
    BY <2>1, Touching, AliveTouched
<1>5. CASE HandleResolves
  <2>1. handle.msg.stream \in Streams /\ (UNCHANGED object \/ Makes(handle.msg.stream, handle.msg.refusal))
    BY <1>5, HandleResolvesDoes
  <2> QED
    BY <2>1, HandleIs, MakesDoes DEF Typed
<1>6. CASE HandleWrte
  <2> HIDE DEF Alive
  <2> QED
    BY <1>6, Touching, AliveTouched
<1>7. CASE HandleClse
  <2> HIDE DEF Alive
  <2> QED
    BY <1>7, Touching, AliveTouched
<1>8. CASE HandleShuts
  <2> HIDE DEF Alive
  <2> QED
    BY <1>8, Touching, AliveTouched
<1>9. CASE HandleConnects
  <2>1. handle.msg.stream \in Streams /\ (UNCHANGED object \/ Makes(handle.msg.stream, FALSE))
    BY <1>9, HandleConnectsDoes
  <2>2. Makes(handle.msg.stream, FALSE) => \E r \in BOOLEAN : Makes(handle.msg.stream, r)
    OBVIOUS
  <2> QED
    BY <2>1, <2>2, MakesDoes DEF Typed
<1>10. CASE \E i \in Streams : ReadReturns(i)
  <2>1. PICK i \in Streams : ReadReturns(i)
    BY <1>10
  <2> HIDE DEF Alive
  <2> QED
    BY <2>1, Touching, AliveTouched
<1>11. CASE \E i \in Streams, p \in Pumps : PumpShuts(i, p)
  <2>1. PICK i \in Streams, p \in Pumps : PumpShuts(i, p)
    BY <1>11
  <2> HIDE DEF Alive
  <2> QED
    BY <2>1, Touching, AliveTouched
<1>12. CASE CloseStreams
  BY <1>12, CloseStreamsDoes
<1>13. CASE Destroy
  <2>1. \A s \in Streams : s \in table.owned => object'[s].life = "deleted"
    BY <1>13, DestroyDoes
  <2>2. \A s \in Streams : s \notin table.owned => object'[s] = object[s]
    BY <1>13, DestroyDoes
  <2> QED
    BY <2>1, <2>2
<1>14. CASE UNCHANGED <<object>>
  BY <1>14 DEF Typed
<1>15. CASE (\E c \in Streams : Open(c)) \/ (\E c \in Streams : OpenPolls(c))
            \/ (\E c \in Streams : CommandEnds(c)) \/ (\E c \in Streams : SocketCloses(c))
            \/ (\E c \in Streams : DeviceAnswers(c)) \/ HandleReads \/ HandleOkay \/ HandleUnlists
            \/ HandleBridges \/ HandleKeeps \/ HandleEnds \/ (\E i \in Streams : RecvCopies(i))
            \/ (\E i \in Streams : RecvEnds(i)) \/ (\E i \in Streams : ReadStarts(i))
            \/ (\E i \in Streams : SocketWritten(i)) \/ (\E i \in Streams : PeerCloses(i))
            \/ (\E i \in Streams : DeviceOpens(i)) \/ (\E i \in Streams, p \in Pumps : PumpChecks(i, p))
            \/ (\E i \in Streams, p \in Pumps : PumpClosesBridge(i, p))
            \/ (\E i \in Streams, p \in Pumps : PumpClosesStream(i, p))
            \/ (\E t \in {"application", "send"} : Close(t)) \/ CloseBridges \/ CloseJoins \/ CloseReturns
            \/ (\E s \in Streams : DeviceWrites(s)) \/ (\E s \in Streams : DeviceCloses(s))
            \/ (\E s \in Streams : DeviceGetsClose(s))
  BY <1>14, <1>15 DEF Open, OpenPolls, CommandEnds, SocketCloses, DeviceAnswers, HandleReads, HandleOkay,
     HandleUnlists, HandleBridges, HandleKeeps, HandleEnds, RecvCopies, RecvEnds, ReadStarts, SocketWritten,
     PeerCloses, DeviceOpens, PumpChecks, PumpClosesBridge, PumpClosesStream, Close, CloseBridges,
     CloseJoins, CloseReturns, DeviceWrites, DeviceCloses, DeviceGetsClose
<1> QED
  BY <1>1, <1>2, <1>3, <1>4, <1>5, <1>6, <1>7, <1>8, <1>9, <1>10, <1>11, <1>12, <1>13, <1>14, <1>15 DEF
     Next, HandleSteps, PumpSteps, ToAdbSteps, ToSocketSteps, CloseSteps, Pumps, vars

LEMMA PointingKept ==
  ASSUME Typed, Handling, Speaking, Living, Pointing, Calling, [Next]_vars
  PROVE  Pointing'
<1> USE StreamsAssumption DEF Pointing
<1>0. Alive
  BY AliveKept
<1>1. CASE \E c \in Streams : OpenReturns(c)
  <2>1. PICK c \in Streams : OpenReturns(c)
    BY <1>1
  <2>2. UNCHANGED use /\ StartsNone
    BY <2>1 DEF OpenReturns, StartsNone
  <2>3. /\ table'.last \in {table.last, NoStream, NoStream}
        /\ handle'.cached \in {table.last, handle.cached, NoStream, NoStream}
        /\ handle'.stream \in {handle.stream, NoStream, NoStream}
        /\ handle'.at = "bridge" => handle'.msg.stream = NoStream \/ (handle.at = "bridge" /\ handle'.msg = handle.msg)
    BY <2>1, OpenReturnsDoes
  <2> HIDE DEF Pointing
  <2> QED
    BY <1>0, <2>2, <2>3, StreamsAssumption, PointsOn
<1>2. CASE \E c \in Streams : CommandCollects(c)
  <2>1. PICK c \in Streams : CommandCollects(c)
    BY <1>2
  <2>2. UNCHANGED use /\ StartsNone
    BY <2>1 DEF CommandCollects, StartsNone
  <2>3. /\ table'.last \in {table.last, NoStream, NoStream}
        /\ handle'.cached \in {table.last, handle.cached, NoStream, NoStream}
        /\ handle'.stream \in {handle.stream, NoStream, NoStream}
        /\ handle'.at = "bridge" => handle'.msg.stream = NoStream \/ (handle.at = "bridge" /\ handle'.msg = handle.msg)
    BY <2>1 DEF CommandCollects
  <2> HIDE DEF Pointing
  <2> QED
    BY <1>0, <2>2, <2>3, StreamsAssumption, PointsOn
<1>3. CASE \E c \in Streams : SocketReads(c)
  <2>1. PICK c \in Streams : SocketReads(c)
    BY <1>3
  <2>2. UNCHANGED use /\ StartsNone
    BY <2>1 DEF SocketReads, StartsNone
  <2>3. /\ table'.last \in {table.last, NoStream, NoStream}
        /\ handle'.cached \in {table.last, handle.cached, NoStream, NoStream}
        /\ handle'.stream \in {handle.stream, NoStream, NoStream}
        /\ handle'.at = "bridge" => handle'.msg.stream = NoStream \/ (handle.at = "bridge" /\ handle'.msg = handle.msg)
    BY <2>1 DEF SocketReads
  <2> HIDE DEF Pointing
  <2> QED
    BY <1>0, <2>2, <2>3, StreamsAssumption, PointsOn
<1>4. CASE \E c \in Streams : SocketCloses(c)
  <2>1. PICK c \in Streams : SocketCloses(c)
    BY <1>4
  <2>2. UNCHANGED use /\ StartsNone
    BY <2>1 DEF SocketCloses, StartsNone
  <2>3. /\ table'.last \in {table.last, NoStream, NoStream}
        /\ handle'.cached \in {table.last, handle.cached, NoStream, NoStream}
        /\ handle'.stream \in {handle.stream, NoStream, NoStream}
        /\ handle'.at = "bridge" => handle'.msg.stream = NoStream \/ (handle.at = "bridge" /\ handle'.msg = handle.msg)
    BY <2>1, SocketClosesDoes
  <2> HIDE DEF Pointing
  <2> QED
    BY <1>0, <2>2, <2>3, StreamsAssumption, PointsOn
<1>5. CASE \E c \in Streams : SocketShuts(c)
  <2>1. PICK c \in Streams : SocketShuts(c)
    BY <1>5
  <2>2. UNCHANGED use /\ StartsNone
    BY <2>1 DEF SocketShuts, StartsNone
  <2>3. /\ table'.last \in {table.last, NoStream, NoStream}
        /\ handle'.cached \in {table.last, handle.cached, NoStream, NoStream}
        /\ handle'.stream \in {handle.stream, NoStream, NoStream}
        /\ handle'.at = "bridge" => handle'.msg.stream = NoStream \/ (handle.at = "bridge" /\ handle'.msg = handle.msg)
    BY <2>1 DEF SocketShuts
  <2> HIDE DEF Pointing
  <2> QED
    BY <1>0, <2>2, <2>3, StreamsAssumption, PointsOn
<1>6. CASE HandleReads
  <2>1. UNCHANGED use /\ StartsNone
    BY <1>6 DEF HandleReads, StartsNone
  <2>2. /\ table'.last \in {table.last, NoStream, NoStream}
        /\ handle'.cached \in {table.last, handle.cached, NoStream, NoStream}
        /\ handle'.stream \in {handle.stream, NoStream, NoStream}
        /\ handle'.at = "bridge" => handle'.msg.stream = NoStream \/ (handle.at = "bridge" /\ handle'.msg = handle.msg)
    BY <1>6, HandleReadsDoes, AtIs, RestsType, HandleIs
  <2> HIDE DEF Pointing
  <2> QED
    BY <1>0, <2>1, <2>2, StreamsAssumption, PointsOn
<1>7. CASE HandleResolves
  <2>1. UNCHANGED use /\ StartsNone
    BY <1>7 DEF HandleResolves, StartsNone
  <2>2. /\ table'.last \in {table.last, NoStream, handle.msg.stream}
        /\ handle'.cached \in {table.last, handle.cached, NoStream, handle.msg.stream}
        /\ handle'.stream \in {handle.stream, NoStream, handle.msg.stream}
        /\ handle'.at = "bridge" => handle'.msg.stream = handle.msg.stream \/ (handle.at = "bridge" /\ handle'.msg = handle.msg)
    BY <1>7, HandleResolvesDoes, AtIs, HandleIs
  <2>3. handle.msg.stream \in Streams => object'[handle.msg.stream].life # "none"
    <3>1. \/ handle.cached = handle.msg.stream /\ UNCHANGED object
          \/ handle.msg.stream \in table.owned /\ UNCHANGED object
          \/ handle.msg.stream \in Streams /\ Makes(handle.msg.stream, handle.msg.refusal)
      BY <1>7, HandleResolvesDoes DEF Typed, Table
    <3> QED
      BY <3>1, HandleIs, MakesDoes DEF Typed, Living, Lives, Points
  <2> HIDE DEF Pointing
  <2> QED
    BY <1>0, <2>1, <2>2, <2>3, PointsOn
<1>8. CASE HandleWrte
  <2>1. UNCHANGED use /\ StartsNone
    BY <1>8 DEF HandleWrte, StartsNone
  <2>2. /\ table'.last \in {table.last, NoStream, NoStream}
        /\ handle'.cached \in {table.last, handle.cached, NoStream, NoStream}
        /\ handle'.stream \in {handle.stream, NoStream, NoStream}
        /\ handle'.at = "bridge" => handle'.msg.stream = NoStream \/ (handle.at = "bridge" /\ handle'.msg = handle.msg)
    BY <1>8, HandleWrteDoes, AtIs, RestsType, HandleIs
  <2> HIDE DEF Pointing
  <2> QED
    BY <1>0, <2>1, <2>2, StreamsAssumption, PointsOn
<1>9. CASE HandleOkay
  <2>1. UNCHANGED use /\ StartsNone
    BY <1>9 DEF HandleOkay, StartsNone
  <2>2. /\ table'.last \in {table.last, NoStream, NoStream}
        /\ handle'.cached \in {table.last, handle.cached, NoStream, NoStream}
        /\ handle'.stream \in {handle.stream, NoStream, NoStream}
        /\ handle'.at = "bridge" => handle'.msg.stream = NoStream \/ (handle.at = "bridge" /\ handle'.msg = handle.msg)
    BY <1>9, HandleOkayDoes, RestsType
  <2> HIDE DEF Pointing
  <2> QED
    BY <1>0, <2>1, <2>2, StreamsAssumption, PointsOn
<1>10. CASE HandleClse
  <2>1. UNCHANGED use /\ StartsNone
    BY <1>10 DEF HandleClse, StartsNone
  <2>2. /\ table'.last \in {table.last, NoStream, NoStream}
        /\ handle'.cached \in {table.last, handle.cached, NoStream, NoStream}
        /\ handle'.stream \in {handle.stream, NoStream, NoStream}
        /\ handle'.at = "bridge" => handle'.msg.stream = NoStream \/ (handle.at = "bridge" /\ handle'.msg = handle.msg)
    BY <1>10, HandleClseDoes, AtIs, RestsType, HandleIs
  <2> HIDE DEF Pointing
  <2> QED
    BY <1>0, <2>1, <2>2, StreamsAssumption, PointsOn
<1>11. CASE HandleShuts
  <2>1. UNCHANGED use /\ StartsNone
    BY <1>11 DEF HandleShuts, StartsNone
  <2>2. /\ table'.last \in {table.last, NoStream, NoStream}
        /\ handle'.cached \in {table.last, handle.cached, NoStream, NoStream}
        /\ handle'.stream \in {handle.stream, NoStream, NoStream}
        /\ handle'.at = "bridge" => handle'.msg.stream = NoStream \/ (handle.at = "bridge" /\ handle'.msg = handle.msg)
    BY <1>11, HandleShutsDoes, AtIs, RestsType, HandleIs
  <2> HIDE DEF Pointing
  <2> QED
    BY <1>0, <2>1, <2>2, StreamsAssumption, PointsOn
<1>12. CASE HandleUnlists
  <2>1. UNCHANGED use /\ StartsNone
    BY <1>12 DEF HandleUnlists, StartsNone
  <2>2. /\ table'.last \in {table.last, NoStream, NoStream}
        /\ handle'.cached \in {table.last, handle.cached, NoStream, NoStream}
        /\ handle'.stream \in {handle.stream, NoStream, NoStream}
        /\ handle'.at = "bridge" => handle'.msg.stream = NoStream \/ (handle.at = "bridge" /\ handle'.msg = handle.msg)
    BY <1>12, HandleUnlistsDoes, RestsType
  <2> HIDE DEF Pointing
  <2> QED
    BY <1>0, <2>1, <2>2, StreamsAssumption, PointsOn
<1>13. CASE HandleConnects
  <2>1. UNCHANGED use /\ StartsNone
    BY <1>13, LoopStarts DEF HandleConnects
  <2>2. /\ handle.msg.stream \in Streams
        /\ \/ Rests /\ UNCHANGED table
           \/ /\ At("bridge", handle.msg, handle.stream, handle.cached)
              /\ table' = [listed |-> table.listed \cup {handle.msg.stream}, owned |-> table.owned \cup {handle.msg.stream},
                           last |-> handle.msg.stream]
              /\ Makes(handle.msg.stream, FALSE)
    BY <1>13, HandleConnectsDoes
  <2> HIDE DEF Pointing
  <2>3. CASE Rests /\ UNCHANGED table
    BY <1>0, <2>1, <2>3, RestsType, StreamsAssumption, PointsOn
  <2>4. CASE /\ At("bridge", handle.msg, handle.stream, handle.cached)
             /\ table' = [listed |-> table.listed \cup {handle.msg.stream}, owned |-> table.owned \cup {handle.msg.stream},
                          last |-> handle.msg.stream]
             /\ Makes(handle.msg.stream, FALSE)
    <3>1. Makes(handle.msg.stream, FALSE) => \E r \in BOOLEAN : Makes(handle.msg.stream, r)
      OBVIOUS
    <3>2. object'[handle.msg.stream].life # "none"
      BY <2>2, <2>4, <3>1, MakesDoes DEF Typed
    <3>3. table'.last = handle.msg.stream
      BY <2>4
    <3>4. handle'.at = "bridge" /\ handle'.msg = handle.msg /\ handle'.stream = handle.stream /\ handle'.cached = handle.cached
      BY <2>4, AtIs
    <3> QED
      BY <1>0, <2>1, <3>2, <3>3, <3>4, PointsOn
  <2> QED
    BY <2>2, <2>3, <2>4
<1>14. CASE HandleBridges
  <2>1. /\ handle.at = "bridge" /\ handle.msg.stream \in Streams /\ handle.msg.cmd = "OPEN"
        /\ At("keep", handle.msg, handle.stream, handle.cached) /\ UNCHANGED <<use, table, object>>
        /\ bridge' = [bridge EXCEPT ![handle.msg.stream].toAdb = "check", ![handle.msg.stream].toSocket = "check"]
    BY <1>14, HandleBridgesDoes
  <2>2. \A t \in Streams : t # handle.msg.stream => bridge'[t] = bridge[t]
    BY <2>1, LoopBridges DEF Typed
  <2>3. handle'.at = "keep" /\ handle'.msg = handle.msg /\ handle'.stream = handle.stream /\ handle'.cached = handle.cached
    BY <2>1, AtIs
  <2>4. use[handle.msg.stream] = "bridge" /\ object[handle.msg.stream].life # "none"
    <3>1. 0 \in Underway(handle.msg.stream) /\ Message(0) = handle.msg
      BY <2>1, LenProperties DEF Typed, Sending, Numbers, Underway, Message
    <3> QED
      BY <2>1, <3>1 DEF Speaking, Speaks, Points
  <2> TAKE s \in Streams
  <2>5. Points(s)
    OBVIOUS
  <2> QED
    BY <2>1, <2>2, <2>3, <2>4, <2>5 DEF Points
<1>15. CASE HandleKeeps
  <2>1. UNCHANGED use /\ StartsNone
    BY <1>15, LoopStarts DEF HandleKeeps
  <2>2. /\ table'.last \in {table.last, NoStream, NoStream}
        /\ handle'.cached \in {table.last, handle.cached, NoStream, NoStream}
        /\ handle'.stream \in {handle.stream, NoStream, NoStream}
        /\ handle'.at = "bridge" => handle'.msg.stream = NoStream \/ (handle.at = "bridge" /\ handle'.msg = handle.msg)
    BY <1>15, HandleKeepsDoes, RestsType
  <2> HIDE DEF Pointing
  <2> QED
    BY <1>0, <2>1, <2>2, StreamsAssumption, PointsOn
<1>16. CASE HandleEnds
  <2>1. UNCHANGED use /\ StartsNone
    BY <1>16 DEF HandleEnds, StartsNone
  <2>2. /\ table'.last \in {table.last, NoStream, NoStream}
        /\ handle'.cached \in {table.last, handle.cached, NoStream, NoStream}
        /\ handle'.stream \in {handle.stream, NoStream, NoStream}
        /\ handle'.at = "bridge" => handle'.msg.stream = NoStream \/ (handle.at = "bridge" /\ handle'.msg = handle.msg)
    BY <1>16, HandleEndsDoes, AtIs, RestsType, HandleIs
  <2> HIDE DEF Pointing
  <2> QED
    BY <1>0, <2>1, <2>2, StreamsAssumption, PointsOn
<1>17. CASE \E i \in Streams : RecvCopies(i)
  <2>1. PICK i \in Streams : RecvCopies(i)
    BY <1>17
  <2>2. UNCHANGED use /\ StartsNone
    BY <2>1, PumpsStarted DEF RecvCopies
  <2>3. /\ table'.last \in {table.last, NoStream, NoStream}
        /\ handle'.cached \in {table.last, handle.cached, NoStream, NoStream}
        /\ handle'.stream \in {handle.stream, NoStream, NoStream}
        /\ handle'.at = "bridge" => handle'.msg.stream = NoStream \/ (handle.at = "bridge" /\ handle'.msg = handle.msg)
    BY <2>1 DEF RecvCopies
  <2> HIDE DEF Pointing
  <2> QED
    BY <1>0, <2>2, <2>3, StreamsAssumption, PointsOn
<1>18. CASE \E i \in Streams : RecvEnds(i)
  <2>1. PICK i \in Streams : RecvEnds(i)
    BY <1>18
  <2>2. UNCHANGED use /\ StartsNone
    BY <2>1, PumpsStarted DEF RecvEnds
  <2>3. /\ table'.last \in {table.last, NoStream, NoStream}
        /\ handle'.cached \in {table.last, handle.cached, NoStream, NoStream}
        /\ handle'.stream \in {handle.stream, NoStream, NoStream}
        /\ handle'.at = "bridge" => handle'.msg.stream = NoStream \/ (handle.at = "bridge" /\ handle'.msg = handle.msg)
    BY <2>1 DEF RecvEnds
  <2> HIDE DEF Pointing
  <2> QED
    BY <1>0, <2>2, <2>3, StreamsAssumption, PointsOn
<1>19. CASE \E i \in Streams : ReadStarts(i)
  <2>1. PICK i \in Streams : ReadStarts(i)
    BY <1>19
  <2>2. UNCHANGED use /\ StartsNone
    BY <2>1, PumpsStarted DEF ReadStarts
  <2>3. /\ table'.last \in {table.last, NoStream, NoStream}
        /\ handle'.cached \in {table.last, handle.cached, NoStream, NoStream}
        /\ handle'.stream \in {handle.stream, NoStream, NoStream}
        /\ handle'.at = "bridge" => handle'.msg.stream = NoStream \/ (handle.at = "bridge" /\ handle'.msg = handle.msg)
    BY <2>1 DEF ReadStarts
  <2> HIDE DEF Pointing
  <2> QED
    BY <1>0, <2>2, <2>3, StreamsAssumption, PointsOn
<1>20. CASE \E i \in Streams : ReadReturns(i)
  <2>1. PICK i \in Streams : ReadReturns(i)
    BY <1>20
  <2>2. UNCHANGED use /\ StartsNone
    BY <2>1, PumpsStarted DEF ReadReturns
  <2>3. /\ table'.last \in {table.last, NoStream, NoStream}
        /\ handle'.cached \in {table.last, handle.cached, NoStream, NoStream}
        /\ handle'.stream \in {handle.stream, NoStream, NoStream}
        /\ handle'.at = "bridge" => handle'.msg.stream = NoStream \/ (handle.at = "bridge" /\ handle'.msg = handle.msg)
    BY <2>1 DEF ReadReturns
  <2> HIDE DEF Pointing
  <2> QED
    BY <1>0, <2>2, <2>3, StreamsAssumption, PointsOn
<1>21. CASE \E i \in Streams : SocketWritten(i)
  <2>1. PICK i \in Streams : SocketWritten(i)
    BY <1>21
  <2>2. UNCHANGED use /\ StartsNone
    BY <2>1, PumpsStarted DEF SocketWritten
  <2>3. /\ table'.last \in {table.last, NoStream, NoStream}
        /\ handle'.cached \in {table.last, handle.cached, NoStream, NoStream}
        /\ handle'.stream \in {handle.stream, NoStream, NoStream}
        /\ handle'.at = "bridge" => handle'.msg.stream = NoStream \/ (handle.at = "bridge" /\ handle'.msg = handle.msg)
    BY <2>1 DEF SocketWritten
  <2> HIDE DEF Pointing
  <2> QED
    BY <1>0, <2>2, <2>3, StreamsAssumption, PointsOn
<1>22. CASE \E i \in Streams : PeerCloses(i)
  <2>1. PICK i \in Streams : PeerCloses(i)
    BY <1>22
  <2>2. UNCHANGED use /\ StartsNone
    BY <2>1, PumpsSame DEF PeerCloses, StartsNone
  <2>3. /\ table'.last \in {table.last, NoStream, NoStream}
        /\ handle'.cached \in {table.last, handle.cached, NoStream, NoStream}
        /\ handle'.stream \in {handle.stream, NoStream, NoStream}
        /\ handle'.at = "bridge" => handle'.msg.stream = NoStream \/ (handle.at = "bridge" /\ handle'.msg = handle.msg)
    BY <2>1 DEF PeerCloses
  <2> HIDE DEF Pointing
  <2> QED
    BY <1>0, <2>2, <2>3, StreamsAssumption, PointsOn
<1>23. CASE \E i \in Streams, p \in Pumps : PumpChecks(i, p)
  <2>1. PICK i \in Streams, p \in Pumps : PumpChecks(i, p)
    BY <1>23
  <2>2. UNCHANGED use /\ StartsNone
    BY <2>1, PumpsStarted DEF PumpChecks
  <2>3. /\ table'.last \in {table.last, NoStream, NoStream}
        /\ handle'.cached \in {table.last, handle.cached, NoStream, NoStream}
        /\ handle'.stream \in {handle.stream, NoStream, NoStream}
        /\ handle'.at = "bridge" => handle'.msg.stream = NoStream \/ (handle.at = "bridge" /\ handle'.msg = handle.msg)
    BY <2>1 DEF PumpChecks
  <2> HIDE DEF Pointing
  <2> QED
    BY <1>0, <2>2, <2>3, StreamsAssumption, PointsOn
<1>24. CASE \E i \in Streams, p \in Pumps : PumpClosesBridge(i, p)
  <2>1. PICK i \in Streams, p \in Pumps : PumpClosesBridge(i, p)
    BY <1>24
  <2>2. UNCHANGED use /\ StartsNone
    BY <2>1, PumpsStarted DEF PumpClosesBridge
  <2>3. /\ table'.last \in {table.last, NoStream, NoStream}
        /\ handle'.cached \in {table.last, handle.cached, NoStream, NoStream}
        /\ handle'.stream \in {handle.stream, NoStream, NoStream}
        /\ handle'.at = "bridge" => handle'.msg.stream = NoStream \/ (handle.at = "bridge" /\ handle'.msg = handle.msg)
    BY <2>1 DEF PumpClosesBridge
  <2> HIDE DEF Pointing
  <2> QED
    BY <1>0, <2>2, <2>3, StreamsAssumption, PointsOn
<1>25. CASE \E i \in Streams, p \in Pumps : PumpClosesStream(i, p)
  <2>1. PICK i \in Streams, p \in Pumps : PumpClosesStream(i, p)
    BY <1>25
  <2>2. UNCHANGED use /\ StartsNone
    BY <2>1, PumpsStarted DEF PumpClosesStream
  <2>3. /\ table'.last \in {table.last, NoStream, NoStream}
        /\ handle'.cached \in {table.last, handle.cached, NoStream, NoStream}
        /\ handle'.stream \in {handle.stream, NoStream, NoStream}
        /\ handle'.at = "bridge" => handle'.msg.stream = NoStream \/ (handle.at = "bridge" /\ handle'.msg = handle.msg)
    BY <2>1, PumpClosesStreamDoes
  <2> HIDE DEF Pointing
  <2> QED
    BY <1>0, <2>2, <2>3, StreamsAssumption, PointsOn
<1>26. CASE \E i \in Streams, p \in Pumps : PumpShuts(i, p)
  <2>1. PICK i \in Streams, p \in Pumps : PumpShuts(i, p)
    BY <1>26
  <2>2. UNCHANGED use /\ StartsNone
    BY <2>1, PumpsStarted DEF PumpShuts
  <2>3. /\ table'.last \in {table.last, NoStream, NoStream}
        /\ handle'.cached \in {table.last, handle.cached, NoStream, NoStream}
        /\ handle'.stream \in {handle.stream, NoStream, NoStream}
        /\ handle'.at = "bridge" => handle'.msg.stream = NoStream \/ (handle.at = "bridge" /\ handle'.msg = handle.msg)
    BY <2>1 DEF PumpShuts
  <2> HIDE DEF Pointing
  <2> QED
    BY <1>0, <2>2, <2>3, StreamsAssumption, PointsOn
<1>27. CASE CloseBridges
  <2>1. UNCHANGED use /\ StartsNone
    BY <1>27, PumpsSame DEF CloseBridges, StartsNone
  <2>2. /\ table'.last \in {table.last, NoStream, NoStream}
        /\ handle'.cached \in {table.last, handle.cached, NoStream, NoStream}
        /\ handle'.stream \in {handle.stream, NoStream, NoStream}
        /\ handle'.at = "bridge" => handle'.msg.stream = NoStream \/ (handle.at = "bridge" /\ handle'.msg = handle.msg)
    BY <1>27 DEF CloseBridges
  <2> HIDE DEF Pointing
  <2> QED
    BY <1>0, <2>1, <2>2, StreamsAssumption, PointsOn
<1>28. CASE CloseStreams
  <2>1. UNCHANGED use /\ StartsNone
    BY <1>28 DEF CloseStreams, StartsNone
  <2>2. /\ table'.last \in {table.last, NoStream, NoStream}
        /\ handle'.cached \in {table.last, handle.cached, NoStream, NoStream}
        /\ handle'.stream \in {handle.stream, NoStream, NoStream}
        /\ handle'.at = "bridge" => handle'.msg.stream = NoStream \/ (handle.at = "bridge" /\ handle'.msg = handle.msg)
    BY <1>28, CloseStreamsDoes
  <2> HIDE DEF Pointing
  <2> QED
    BY <1>0, <2>1, <2>2, StreamsAssumption, PointsOn
<1>29. CASE CloseReturns
  <2>1. UNCHANGED use /\ StartsNone
    BY <1>29 DEF CloseReturns, StartsNone
  <2>2. /\ table'.last \in {table.last, NoStream, NoStream}
        /\ handle'.cached \in {table.last, handle.cached, NoStream, NoStream}
        /\ handle'.stream \in {handle.stream, NoStream, NoStream}
        /\ handle'.at = "bridge" => handle'.msg.stream = NoStream \/ (handle.at = "bridge" /\ handle'.msg = handle.msg)
    BY <1>29, CloseReturnsDoes, AtIs, RestsType, HandleIs
  <2> HIDE DEF Pointing
  <2> QED
    BY <1>0, <2>1, <2>2, StreamsAssumption, PointsOn
<1>30. CASE Destroy
  <2>1. UNCHANGED use /\ StartsNone
    BY <1>30 DEF Destroy, StartsNone
  <2>2. /\ table'.last \in {table.last, NoStream, NoStream}
        /\ handle'.cached \in {table.last, handle.cached, NoStream, NoStream}
        /\ handle'.stream \in {handle.stream, NoStream, NoStream}
        /\ handle'.at = "bridge" => handle'.msg.stream = NoStream \/ (handle.at = "bridge" /\ handle'.msg = handle.msg)
    BY <1>30, DestroyDoes
  <2> HIDE DEF Pointing
  <2> QED
    BY <1>0, <2>1, <2>2, StreamsAssumption, PointsOn
<1>31. CASE UNCHANGED <<use, object, table, handle, bridge>>
  <2>1. StartsNone
    BY <1>31 DEF StartsNone
  <2> HIDE DEF Pointing
  <2> QED
    BY <1>0, <1>31, <2>1, StreamsAssumption, PointsOn
<1>32. CASE (\E c \in Streams : Open(c)) \/ (\E c \in Streams : OpenPolls(c))
            \/ (\E c \in Streams : CommandEnds(c)) \/ (\E c \in Streams : DeviceAnswers(c))
            \/ (\E i \in Streams : DeviceOpens(i)) \/ (\E t \in {"application", "send"} : Close(t))
            \/ CloseJoins \/ (\E s \in Streams : DeviceWrites(s)) \/ (\E s \in Streams : DeviceCloses(s))
            \/ (\E s \in Streams : DeviceGetsClose(s))
  BY <1>31, <1>32 DEF Open, OpenPolls, CommandEnds, DeviceAnswers, DeviceOpens, Close, CloseJoins,
     DeviceWrites, DeviceCloses, DeviceGetsClose
<1> QED
  BY <1>1, <1>2, <1>3, <1>4, <1>5, <1>6, <1>7, <1>8, <1>9, <1>10, <1>11, <1>12, <1>13, <1>14, <1>15, <1>16,
     <1>17, <1>18, <1>19, <1>20, <1>21, <1>22, <1>23, <1>24, <1>25, <1>26, <1>27, <1>28, <1>29, <1>30,
     <1>31, <1>32 DEF Next, HandleSteps, PumpSteps, ToAdbSteps, ToSocketSteps, CloseSteps, Pumps, vars

LEMMA CallingKept ==
  ASSUME Typed, Handling, Speaking, Living, Pointing, Calling, [Next]_vars
  PROVE  Calling'
<1> USE StreamsAssumption DEF Calling
<1>1. CASE \E c \in Streams : Open(c)
  <2>1. PICK c \in Streams : Open(c)
    BY <1>1
  <2>2. UNCHANGED use /\ (Unmoved \/ Moves(c, "asked"))
    BY <2>1, HostMoves DEF Open
  <2>3. Stays
    <3>1. table.owned \subseteq table'.owned
      BY <2>1 DEF Open
    <3>2. UNCHANGED object \/ \E t \in Streams : Touches(t)
      BY <2>1 DEF Open
    <3> QED
      BY <3>1, <3>2, StaysTouched
  <2>4. UNCHANGED caller \/ Goes(c, "poll")
    BY <2>1 DEF Open, Goes
  <2>5. caller'[c] # "idle"
    BY <2>1, <2>2, <2>4 DEF Open, Typed, Callers
  <2> HIDE DEF Calling
  <2> QED
    BY <2>2, <2>3, <2>4, <2>5, CallsOn
<1>2. CASE \E c \in Streams : OpenPolls(c)
  <2>1. PICK c \in Streams : OpenPolls(c)
    BY <1>2
  <2>2. UNCHANGED use /\ Unmoved
    BY <2>1 DEF OpenPolls, Unmoved
  <2>3. Stays
    <3>1. table.owned \subseteq table'.owned
      BY <2>1 DEF OpenPolls
    <3>2. UNCHANGED object \/ \E t \in Streams : Touches(t)
      BY <2>1 DEF OpenPolls
    <3> QED
      BY <3>1, <3>2, StaysTouched
  <2>4. UNCHANGED caller \/ Goes(c, "failed") \/ Goes(c, "found")
    BY <2>1 DEF OpenPolls, Goes, Calling, Calls
  <2> HIDE DEF Calling
  <2> QED
    BY <2>2, <2>3, <2>4, CallsOn
<1>3. CASE \E c \in Streams : OpenReturns(c)
  <2>1. PICK c \in Streams : OpenReturns(c)
    BY <1>3
  <2>2. UNCHANGED use /\ Unmoved /\ caller[c] = "found"
    BY <2>1 DEF OpenReturns, Unmoved
  <2>3. \/ UNCHANGED <<object, table>> /\ caller' = [caller EXCEPT ![c] = "opened"] /\ ~object[c].refused
        \/ Deletes(c) /\ table'.owned = table.owned \ {c} /\ caller' = [caller EXCEPT ![c] = "failed"]
    BY <2>1, OpenReturnsDoes DEF Rejects
  <2>4. CASE UNCHANGED <<object, table>> /\ caller' = [caller EXCEPT ![c] = "opened"] /\ ~object[c].refused
    <3>1. Goes(c, "opened")
      BY <2>2, <2>4 DEF Goes, Calls
    <3>2. Stays
      BY <2>4 DEF Stays
    <3> HIDE DEF Calling
    <3> QED
      BY <2>2, <3>1, <3>2, CallsOn
  <2>5. CASE Deletes(c) /\ table'.owned = table.owned \ {c} /\ caller' = [caller EXCEPT ![c] = "failed"]
    <3> TAKE t \in Streams
    <3>1. Calls(t) /\ Calls(c) /\ device'[t].at = device[t].at /\ use'[t] = use[t]
      BY <2>2 DEF Unmoved
    <3>2. CASE t = c
      <4>1. caller'[t] = "failed"
        BY <2>5, <3>2 DEF Typed, Callers
      <4> QED
        BY <2>2, <3>1, <3>2, <4>1 DEF Calls
    <3>3. CASE t # c
      <4>1. caller'[t] = caller[t] /\ object'[t] = object[t] /\ (t \in table'.owned <=> t \in table.owned)
        BY <2>5, <3>3, DeletesDoes DEF Typed, Callers
      <4> QED
        BY <3>1, <4>1 DEF Calls
    <3> QED
      BY <3>2, <3>3
  <2> QED
    BY <2>3, <2>4, <2>5
<1>4. CASE \E c \in Streams : CommandEnds(c)
  <2>1. PICK c \in Streams : CommandEnds(c)
    BY <1>4
  <2>2. UNCHANGED use /\ Unmoved
    BY <2>1 DEF CommandEnds, Unmoved
  <2>3. Stays
    <3>1. table.owned \subseteq table'.owned
      BY <2>1 DEF CommandEnds
    <3>2. UNCHANGED object \/ \E t \in Streams : Touches(t)
      BY <2>1 DEF CommandEnds
    <3> QED
      BY <3>1, <3>2, StaysTouched
  <2>4. UNCHANGED caller \/ Goes(c, "collect")
    BY <2>1 DEF CommandEnds, Goes, Calling, Calls
  <2> HIDE DEF Calling
  <2> QED
    BY <2>2, <2>3, <2>4, CallsOn
<1>5. CASE \E c \in Streams : CommandCollects(c)
  <2>1. PICK c \in Streams : CommandCollects(c)
    BY <1>5
  <2>2. UNCHANGED use /\ Unmoved
    BY <2>1 DEF CommandCollects, Unmoved
  <2>3. Stays
    <3>1. table.owned \subseteq table'.owned
      BY <2>1 DEF CommandCollects
    <3>2. UNCHANGED object \/ \E t \in Streams : Touches(t)
      BY <2>1, Touching
    <3> QED
      BY <3>1, <3>2, StaysTouched
  <2>4. UNCHANGED caller \/ Goes(c, "done")
    BY <2>1 DEF CommandCollects, Goes, Calling, Calls
  <2> HIDE DEF Calling
  <2> QED
    BY <2>2, <2>3, <2>4, CallsOn
<1>6. CASE \E c \in Streams : SocketReads(c)
  <2>1. PICK c \in Streams : SocketReads(c)
    BY <1>6
  <2>2. UNCHANGED use /\ Unmoved
    BY <2>1 DEF SocketReads, Unmoved
  <2>3. Stays
    <3>1. table.owned \subseteq table'.owned
      BY <2>1 DEF SocketReads
    <3>2. UNCHANGED object \/ \E t \in Streams : Touches(t)
      BY <2>1, Touching
    <3> QED
      BY <3>1, <3>2, StaysTouched
  <2>4. UNCHANGED caller
    BY <2>1 DEF SocketReads
  <2> HIDE DEF Calling
  <2> QED
    BY <2>2, <2>3, <2>4, CallsOn
<1>7. CASE \E c \in Streams : SocketCloses(c)
  <2>1. PICK c \in Streams : SocketCloses(c)
    BY <1>7
  <2>2. UNCHANGED use /\ Unmoved
    BY <2>1, HostMoves DEF SocketCloses
  <2>3. Stays
    <3>1. table.owned \subseteq table'.owned
      BY <2>1, SocketClosesDoes
    <3>2. UNCHANGED object \/ \E t \in Streams : Touches(t)
      BY <2>1 DEF SocketCloses
    <3> QED
      BY <3>1, <3>2, StaysTouched
  <2>4. UNCHANGED caller \/ Goes(c, "closing") \/ Goes(c, "done")
    BY <2>1 DEF SocketCloses, Goes, Calling, Calls
  <2> HIDE DEF Calling
  <2> QED
    BY <2>2, <2>3, <2>4, CallsOn
<1>8. CASE \E c \in Streams : SocketShuts(c)
  <2>1. PICK c \in Streams : SocketShuts(c)
    BY <1>8
  <2>2. UNCHANGED use /\ Unmoved
    BY <2>1 DEF SocketShuts, Unmoved
  <2>3. Stays
    <3>1. table.owned \subseteq table'.owned
      BY <2>1 DEF SocketShuts
    <3>2. UNCHANGED object \/ \E t \in Streams : Touches(t)
      BY <2>1, Touching
    <3> QED
      BY <3>1, <3>2, StaysTouched
  <2>4. UNCHANGED caller \/ Goes(c, "done")
    BY <2>1 DEF SocketShuts, Goes, Calling, Calls
  <2> HIDE DEF Calling
  <2> QED
    BY <2>2, <2>3, <2>4, CallsOn
<1>9. CASE \E c \in Streams : DeviceAnswers(c)
  <2>1. PICK c \in Streams : DeviceAnswers(c)
    BY <1>9
  <2>2. UNCHANGED use /\ (\E a : Moves(c, a))
    BY <2>1, DeviceMoves DEF DeviceAnswers
  <2>3. Stays
    <3>1. table.owned \subseteq table'.owned
      BY <2>1 DEF DeviceAnswers
    <3>2. UNCHANGED object \/ \E t \in Streams : Touches(t)
      BY <2>1 DEF DeviceAnswers
    <3> QED
      BY <3>1, <3>2, StaysTouched
  <2>4. UNCHANGED caller
    BY <2>1 DEF DeviceAnswers
  <2>5. use[c] = "bridge" \/ caller'[c] # "idle"
    BY <2>1, <2>2, <2>4, DeviceMoves DEF Calls
  <2> HIDE DEF Calling
  <2> QED
    BY <2>2, <2>3, <2>4, <2>5, CallsOn
<1>10. CASE HandleResolves
  <2>1. UNCHANGED <<use, caller>> /\ Unmoved
    BY <1>10 DEF HandleResolves, Unmoved
  <2>2. /\ handle.msg.stream \in Streams /\ table.owned \subseteq table'.owned
        /\ UNCHANGED object \/ (Makes(handle.msg.stream, handle.msg.refusal) /\ handle.msg.stream \notin table.owned)
    BY <1>10, HandleResolvesDoes
  <2>3. Stays
    BY <2>2, HandleIs, MakesDoes DEF Stays, Typed, Table
  <2> HIDE DEF Calling
  <2> QED
    BY <2>1, <2>3, CallsOn
<1>11. CASE HandleWrte
  <2>1. UNCHANGED use /\ Unmoved
    BY <1>11, HostMoves DEF HandleWrte
  <2>2. Stays
    <3>1. table.owned \subseteq table'.owned
      BY <1>11 DEF HandleWrte
    <3>2. UNCHANGED object \/ \E t \in Streams : Touches(t)
      BY <1>11, Touching
    <3> QED
      BY <3>1, <3>2, StaysTouched
  <2>3. UNCHANGED caller
    BY <1>11 DEF HandleWrte
  <2> HIDE DEF Calling
  <2> QED
    BY <2>1, <2>2, <2>3, CallsOn
<1>12. CASE HandleClse
  <2>1. UNCHANGED use /\ Unmoved
    BY <1>12 DEF HandleClse, Unmoved
  <2>2. Stays
    <3>1. table.owned \subseteq table'.owned
      BY <1>12 DEF HandleClse
    <3>2. UNCHANGED object \/ \E t \in Streams : Touches(t)
      BY <1>12, Touching
    <3> QED
      BY <3>1, <3>2, StaysTouched
  <2>3. UNCHANGED caller
    BY <1>12 DEF HandleClse
  <2> HIDE DEF Calling
  <2> QED
    BY <2>1, <2>2, <2>3, CallsOn
<1>13. CASE HandleShuts
  <2>1. UNCHANGED use /\ Unmoved
    BY <1>13 DEF HandleShuts, Unmoved
  <2>2. Stays
    <3>1. table.owned \subseteq table'.owned
      BY <1>13 DEF HandleShuts
    <3>2. UNCHANGED object \/ \E t \in Streams : Touches(t)
      BY <1>13, Touching
    <3> QED
      BY <3>1, <3>2, StaysTouched
  <2>3. UNCHANGED caller
    BY <1>13 DEF HandleShuts
  <2> HIDE DEF Calling
  <2> QED
    BY <2>1, <2>2, <2>3, CallsOn
<1>14. CASE HandleUnlists
  <2>1. UNCHANGED use /\ Unmoved
    BY <1>14 DEF HandleUnlists, Unmoved
  <2>2. Stays
    <3>1. table.owned \subseteq table'.owned
      BY <1>14, HandleUnlistsDoes
    <3>2. UNCHANGED object \/ \E t \in Streams : Touches(t)
      BY <1>14 DEF HandleUnlists
    <3> QED
      BY <3>1, <3>2, StaysTouched
  <2>3. UNCHANGED caller
    BY <1>14 DEF HandleUnlists
  <2> HIDE DEF Calling
  <2> QED
    BY <2>1, <2>2, <2>3, CallsOn
<1>15. CASE HandleConnects
  <2>1. UNCHANGED <<use, caller>> /\ (Unmoved \/ Moves(handle.msg.stream, "open"))
    BY <1>15, HostMoves DEF HandleConnects
  <2>2. handle.msg.stream \in Streams /\ handle.msg.cmd = "OPEN" /\ 0 \in Numbers
    BY <1>15, LenProperties DEF HandleConnects, Handling, Typed, Sending, Numbers
  <2>3. use[handle.msg.stream] = "bridge"
    BY <2>2 DEF Speaking, Speaks, Underway, Message
  <2>4. \/ UNCHANGED <<object, table>>
        \/ /\ Makes(handle.msg.stream, FALSE)
           /\ table' = [listed |-> table.listed \cup {handle.msg.stream}, owned |-> table.owned \cup {handle.msg.stream},
                        last |-> handle.msg.stream]
    BY <1>15, HandleConnectsDoes
  <2>5. Makes(handle.msg.stream, FALSE) => \E r \in BOOLEAN : Makes(handle.msg.stream, r) /\ ~r
    OBVIOUS
  <2>6. Makes(handle.msg.stream, FALSE) => \A s \in Streams : object'[s].refused => object[s].refused
    BY <2>2, <2>5, MakesDoes DEF Typed
  <2>7. UNCHANGED object \/ Makes(handle.msg.stream, FALSE)
    BY <2>4
  <2>8. table.owned \subseteq table'.owned
    <3>1. \/ UNCHANGED table
          \/ table' = [listed |-> table.listed \cup {handle.msg.stream}, owned |-> table.owned \cup {handle.msg.stream},
                       last |-> handle.msg.stream]
      BY <2>4
    <3> QED
      BY <3>1
  <2>9. Stays
    BY <2>6, <2>7, <2>8 DEF Stays, Typed, Table
  <2> HIDE DEF Calling
  <2> QED
    BY <2>1, <2>2, <2>3, <2>9, CallsOn
<1>16. CASE \E i \in Streams : ReadReturns(i)
  <2>1. PICK i \in Streams : ReadReturns(i)
    BY <1>16
  <2>2. UNCHANGED use /\ Unmoved
    BY <2>1 DEF ReadReturns, Unmoved
  <2>3. Stays
    <3>1. table.owned \subseteq table'.owned
      BY <2>1 DEF ReadReturns
    <3>2. UNCHANGED object \/ \E t \in Streams : Touches(t)
      BY <2>1, Touching
    <3> QED
      BY <3>1, <3>2, StaysTouched
  <2>4. UNCHANGED caller
    BY <2>1 DEF ReadReturns
  <2> HIDE DEF Calling
  <2> QED
    BY <2>2, <2>3, <2>4, CallsOn
<1>17. CASE \E i \in Streams : DeviceOpens(i)
  <2>1. PICK i \in Streams : DeviceOpens(i)
    BY <1>17
  <2>2. UNCHANGED use /\ (\E a : Moves(i, a))
    BY <2>1, DeviceMoves DEF DeviceOpens
  <2>3. Stays
    <3>1. table.owned \subseteq table'.owned
      BY <2>1 DEF DeviceOpens
    <3>2. UNCHANGED object \/ \E t \in Streams : Touches(t)
      BY <2>1 DEF DeviceOpens
    <3> QED
      BY <3>1, <3>2, StaysTouched
  <2>4. UNCHANGED caller
    BY <2>1 DEF DeviceOpens
  <2>5. use[i] = "bridge" \/ caller'[i] # "idle"
    BY <2>1, <2>2, <2>4, DeviceMoves DEF Calls
  <2> HIDE DEF Calling
  <2> QED
    BY <2>2, <2>3, <2>4, <2>5, CallsOn
<1>18. CASE \E i \in Streams, p \in Pumps : PumpClosesStream(i, p)
  <2>1. PICK i \in Streams, p \in Pumps : PumpClosesStream(i, p)
    BY <1>18
  <2>2. UNCHANGED use /\ Unmoved
    BY <2>1, HostMoves DEF PumpClosesStream
  <2>3. Stays
    <3>1. table.owned \subseteq table'.owned
      BY <2>1, PumpClosesStreamDoes
    <3>2. UNCHANGED object \/ \E t \in Streams : Touches(t)
      BY <2>1 DEF PumpClosesStream
    <3> QED
      BY <3>1, <3>2, StaysTouched
  <2>4. UNCHANGED caller
    BY <2>1 DEF PumpClosesStream
  <2> HIDE DEF Calling
  <2> QED
    BY <2>2, <2>3, <2>4, CallsOn
<1>19. CASE \E i \in Streams, p \in Pumps : PumpShuts(i, p)
  <2>1. PICK i \in Streams, p \in Pumps : PumpShuts(i, p)
    BY <1>19
  <2>2. UNCHANGED use /\ Unmoved
    BY <2>1 DEF PumpShuts, Unmoved
  <2>3. Stays
    <3>1. table.owned \subseteq table'.owned
      BY <2>1 DEF PumpShuts
    <3>2. UNCHANGED object \/ \E t \in Streams : Touches(t)
      BY <2>1, Touching
    <3> QED
      BY <3>1, <3>2, StaysTouched
  <2>4. UNCHANGED caller
    BY <2>1 DEF PumpShuts
  <2> HIDE DEF Calling
  <2> QED
    BY <2>2, <2>3, <2>4, CallsOn
<1>20. CASE CloseStreams
  <2>1. UNCHANGED <<use, caller>> /\ Unmoved
    BY <1>20 DEF CloseStreams, Unmoved
  <2>2. table'.owned = table.owned /\ \A s \in Streams : (object'[s].refused <=> object[s].refused)
    BY <1>20, CloseStreamsDoes
  <2>3. Stays
    BY <2>2 DEF Stays, Typed, Table
  <2> HIDE DEF Calling
  <2> QED
    BY <2>1, <2>3, CallsOn
<1>21. CASE Destroy
  <2>1. UNCHANGED use /\ caller' = [c \in Streams |-> "done"]
    BY <1>21, DestroyDoes
  <2> QED
    BY <2>1 DEF Calls
<1>22. CASE \E s \in Streams : DeviceWrites(s)
  <2>1. PICK s \in Streams : DeviceWrites(s)
    BY <1>22
  <2>2. UNCHANGED use /\ Unmoved
    BY <2>1, DeviceMoves DEF DeviceWrites
  <2>3. Stays
    <3>1. table.owned \subseteq table'.owned
      BY <2>1 DEF DeviceWrites
    <3>2. UNCHANGED object \/ \E t \in Streams : Touches(t)
      BY <2>1 DEF DeviceWrites
    <3> QED
      BY <3>1, <3>2, StaysTouched
  <2>4. UNCHANGED caller
    BY <2>1 DEF DeviceWrites
  <2> HIDE DEF Calling
  <2> QED
    BY <2>2, <2>3, <2>4, CallsOn
<1>23. CASE \E s \in Streams : DeviceCloses(s)
  <2>1. PICK s \in Streams : DeviceCloses(s)
    BY <1>23
  <2>2. UNCHANGED use /\ (\E a : Moves(s, a))
    BY <2>1, DeviceMoves DEF DeviceCloses
  <2>3. Stays
    <3>1. table.owned \subseteq table'.owned
      BY <2>1 DEF DeviceCloses
    <3>2. UNCHANGED object \/ \E t \in Streams : Touches(t)
      BY <2>1 DEF DeviceCloses
    <3> QED
      BY <3>1, <3>2, StaysTouched
  <2>4. UNCHANGED caller
    BY <2>1 DEF DeviceCloses
  <2>5. use[s] = "bridge" \/ caller'[s] # "idle"
    BY <2>1, <2>2, <2>4, DeviceMoves DEF Calls
  <2> HIDE DEF Calling
  <2> QED
    BY <2>2, <2>3, <2>4, <2>5, CallsOn
<1>24. CASE \E s \in Streams : DeviceGetsClose(s)
  <2>1. PICK s \in Streams : DeviceGetsClose(s)
    BY <1>24
  <2>2. UNCHANGED use /\ (\E a : Moves(s, a))
    BY <2>1, DeviceMoves DEF DeviceGetsClose
  <2>3. Stays
    <3>1. table.owned \subseteq table'.owned
      BY <2>1 DEF DeviceGetsClose
    <3>2. UNCHANGED object \/ \E t \in Streams : Touches(t)
      BY <2>1 DEF DeviceGetsClose
    <3> QED
      BY <3>1, <3>2, StaysTouched
  <2>4. UNCHANGED caller
    BY <2>1 DEF DeviceGetsClose
  <2>5. use[s] = "bridge" \/ caller'[s] # "idle"
    BY <2>1, <2>2, <2>4, DeviceMoves DEF Calls
  <2> HIDE DEF Calling
  <2> QED
    BY <2>2, <2>3, <2>4, <2>5, CallsOn
<1>25. CASE UNCHANGED <<use, caller, object, table, device>>
  <2>1. Unmoved /\ Stays
    BY <1>25 DEF Unmoved, Stays
  <2> HIDE DEF Calling
  <2> QED
    BY <1>25, <2>1, CallsOn
<1>26. CASE HandleReads \/ HandleOkay \/ HandleBridges \/ HandleKeeps \/ HandleEnds
            \/ (\E i \in Streams : RecvCopies(i)) \/ (\E i \in Streams : RecvEnds(i))
            \/ (\E i \in Streams : ReadStarts(i)) \/ (\E i \in Streams : SocketWritten(i))
            \/ (\E i \in Streams : PeerCloses(i)) \/ (\E i \in Streams, p \in Pumps : PumpChecks(i, p))
            \/ (\E i \in Streams, p \in Pumps : PumpClosesBridge(i, p))
            \/ (\E t \in {"application", "send"} : Close(t)) \/ CloseBridges \/ CloseJoins \/ CloseReturns
  BY <1>25, <1>26 DEF HandleReads, HandleOkay, HandleBridges, HandleKeeps, HandleEnds, RecvCopies, RecvEnds,
     ReadStarts, SocketWritten, PeerCloses, PumpChecks, PumpClosesBridge, Close, CloseBridges, CloseJoins,
     CloseReturns
<1> QED
  BY <1>1, <1>2, <1>3, <1>4, <1>5, <1>6, <1>7, <1>8, <1>9, <1>10, <1>11, <1>12, <1>13, <1>14, <1>15, <1>16,
     <1>17, <1>18, <1>19, <1>20, <1>21, <1>22, <1>23, <1>24, <1>25, <1>26 DEF Next, HandleSteps, PumpSteps,
     ToAdbSteps, ToSocketSteps, CloseSteps, Pumps, vars

\* close() runs only on a closed connection.
LEMMA EndingKept ==
  ASSUME Typed, Ending, [Next]_vars
  PROVE  Ending'
<1> USE StreamsAssumption DEF Ending
<1>1. CASE HandleEnds
  BY <1>1 DEF HandleEnds, Reading, Msg, Typed, Connection
<1>2. CASE \E t \in {"application", "send"} : Close(t)
  <2>1. PICK t \in {"application", "send"} : Close(t)
    BY <1>2
  <2> QED
    BY <2>1 DEF Close, Typed, Connection
<1>3. CASE CloseBridges
  BY <1>3 DEF CloseBridges, FdOfClosedBridge, Typed, Connection
<1>4. CASE CloseStreams
  BY <1>4 DEF CloseStreams, Shut, Typed, Connection
<1>5. CASE CloseJoins
  BY <1>5 DEF CloseJoins, Typed, Connection
<1>6. CASE CloseReturns
  BY <1>6 DEF CloseReturns, Typed, Connection
<1>7. CASE Destroy
  BY <1>7 DEF Destroy, Typed, Connection
<1>8. CASE UNCHANGED <<conn>>
  BY <1>8 DEF Typed, Connection
<1>9. CASE (\E c \in Streams : Open(c)) \/ (\E c \in Streams : OpenPolls(c))
           \/ (\E c \in Streams : OpenReturns(c)) \/ (\E c \in Streams : CommandEnds(c))
           \/ (\E c \in Streams : CommandCollects(c)) \/ (\E c \in Streams : SocketReads(c))
           \/ (\E c \in Streams : SocketCloses(c)) \/ (\E c \in Streams : SocketShuts(c))
           \/ (\E c \in Streams : DeviceAnswers(c)) \/ HandleReads \/ HandleResolves \/ HandleWrte
           \/ HandleOkay \/ HandleClse \/ HandleShuts \/ HandleUnlists \/ HandleConnects \/ HandleBridges
           \/ HandleKeeps \/ (\E i \in Streams : RecvCopies(i)) \/ (\E i \in Streams : RecvEnds(i))
           \/ (\E i \in Streams : ReadStarts(i)) \/ (\E i \in Streams : ReadReturns(i))
           \/ (\E i \in Streams : SocketWritten(i)) \/ (\E i \in Streams : PeerCloses(i))
           \/ (\E i \in Streams : DeviceOpens(i)) \/ (\E i \in Streams, p \in Pumps : PumpChecks(i, p))
           \/ (\E i \in Streams, p \in Pumps : PumpClosesBridge(i, p))
           \/ (\E i \in Streams, p \in Pumps : PumpClosesStream(i, p))
           \/ (\E i \in Streams, p \in Pumps : PumpShuts(i, p)) \/ (\E s \in Streams : DeviceWrites(s))
           \/ (\E s \in Streams : DeviceCloses(s)) \/ (\E s \in Streams : DeviceGetsClose(s))
  BY <1>8, <1>9 DEF Open, OpenPolls, OpenReturns, CommandEnds, CommandCollects, SocketReads, SocketCloses,
     SocketShuts, DeviceAnswers, HandleReads, HandleResolves, HandleWrte, HandleOkay, HandleClse,
     HandleShuts, HandleUnlists, HandleConnects, HandleBridges, HandleKeeps, RecvCopies, RecvEnds,
     ReadStarts, ReadReturns, SocketWritten, PeerCloses, DeviceOpens, PumpChecks, PumpClosesBridge,
     PumpClosesStream, PumpShuts, DeviceWrites, DeviceCloses, DeviceGetsClose
<1> QED
  BY <1>1, <1>2, <1>3, <1>4, <1>5, <1>6, <1>7, <1>8, <1>9 DEF Next, HandleSteps, PumpSteps, ToAdbSteps,
     ToSocketSteps, CloseSteps, Pumps, vars

\* Each step that leaves the connection open keeps the parts about a command.
LEMMA CreditKept ==
  ASSUME IInv, [Next]_vars, ~conn'.closed, NEW k \in Streams, use[k] = "command"
  PROVE  Credit(k)'
<1>a. Typed /\ Handling /\ Speaking /\ Living /\ Pointing /\ Calling /\ Ending
  BY DEF IInv
<1>b. /\ ~conn.closed /\ UNCHANGED use
      /\ ~HandleEnds /\ ~CloseSteps /\ ~Destroy /\ \A t \in {"application", "send"} : ~Close(t)
  BY <1>a, OpenStep
<1>c. Credit(k) /\ Last(k) /\ Closing(k) /\ Written(k) /\ Speaks(k) /\ Lives(k) /\ Points(k) /\ Calls(k)
  BY <1>a, <1>b DEF IInv, Commands, Speaking, Living, Pointing, Calling
<1>1. CASE HandleResolves \/ HandleOkay \/ HandleClse \/ HandleShuts \/ HandleUnlists \/ HandleConnects
           \/ HandleBridges \/ HandleKeeps
        \/ (\E c \in Streams : DeviceAnswers(c))
        \/ (\E i \in Streams : DeviceOpens(i))
        \/ (\E s \in Streams : DeviceCloses(s) \/ DeviceGetsClose(s))
  <2>1. Payloads(k)' = Payloads(k)
    BY <1>1, <1>a, PayloadsSame
  <2>2. Unpaid
    <3>1. HandleResolves \/ HandleOkay \/ HandleClse \/ HandleShuts \/ HandleUnlists \/ HandleBridges \/ HandleKeeps => UNCHANGED device
      BY DEF HandleResolves, HandleOkay, HandleClse, HandleShuts, HandleUnlists, HandleBridges, HandleKeeps
    <3> QED
      BY <1>1, <1>a, <3>1, NonePaid
  <2> QED
    BY <1>c, <2>1, <2>2 DEF Credit, Unpaid
<1>2. CASE (\E c \in Streams : Open(c) \/ SocketCloses(c))
        \/ (\E i \in Streams, p \in Pumps : PumpClosesStream(i, p))
  <2>1. Payloads(k)' = Payloads(k)
    BY <1>2, LineSame DEF Open, SocketCloses, PumpClosesStream
  <2>2. Unpaid
    BY <1>2, <1>a, NonePaid
  <2> QED
    BY <1>c, <2>1, <2>2 DEF Credit, Unpaid
<1>3. CASE HandleReads
  <2>1. UNCHANGED device
    BY <1>3 DEF HandleReads
  <2>2. \A n \in Underway(k)' : n \in Nat /\ n + 1 \in Underway(k) /\ Message(n)' = Message(n + 1)
    BY <1>3, <1>a, LineMoves
  <2>3. \A n \in Underway(k) : n # 0 /\ n - 1 \in Underway(k)' /\ Message(n - 1)' = Message(n)
    BY <1>3, <1>a, LineMoves
  <2>4. \A n \in Payloads(k)' : n \in Nat /\ n + 1 \in Payloads(k)
    BY <2>2 DEF Payloads
  <2>5. \A n \in Payloads(k) : n - 1 \in Payloads(k)'
    BY <2>3 DEF Payloads
  <2>6. device'[k].credit <=> Payloads(k)' = {}
    BY <1>c, <2>1, <2>4, <2>5 DEF Credit
  <2>7. ASSUME NEW m \in Payloads(k)', NEW n \in Payloads(k)' PROVE m = n
    <3>1. m \in Nat /\ n \in Nat /\ m + 1 = n + 1
      BY <1>c, <2>4 DEF Credit
    <3> QED
      BY <3>1
  <2> QED
    BY <2>6, <2>7 DEF Credit
<1>4. CASE HandleWrte
  <2>1. /\ handle.at = "act" /\ handle.msg.cmd = "WRTE" /\ Rests /\ UNCHANGED toHost
        /\ \/ handle.stream = NoStream /\ UNCHANGED device
           \/ /\ handle.stream = handle.msg.stream /\ handle.stream \in Streams
              /\ \/ object[handle.stream].closed /\ UNCHANGED device
                 \/ ~object[handle.stream].closed /\ Acknowledges(handle.stream)
    BY <1>4, <1>a, <1>b, HandleWrteDoes
  <2>2. 0 \in Numbers /\ Message(0) = handle.msg
    BY <1>a, LenProperties DEF Typed, Sending, Numbers, Message
  <2>3. CASE handle.msg.stream = k
    <3>1. 0 \in Underway(k) /\ 0 \in Payloads(k)
      BY <2>1, <2>2, <2>3 DEF Underway, Payloads
    <3>2. handle.stream = k /\ ~object[k].closed
      BY <1>c, <2>1, <3>1 DEF Closing
    <3>3. device'[k].credit
      <4>1. Acknowledges(k)
        BY <1>a, <2>1, <2>3, <3>2, StreamsAssumption
      <4> QED
        BY <1>a, <4>1, AcknowledgesDoes DEF Typed
    <3>4. Payloads(k)' = {}
      BY <1>a, <1>c, <2>1, <3>1, LineTurns DEF Credit
    <3> QED
      BY <3>3, <3>4 DEF Credit
  <2>4. CASE handle.msg.stream # k
    <3>1. Payloads(k)' = Payloads(k)
      BY <1>a, <2>1, <2>4, PayloadsRest
    <3>2. device'[k] = device[k]
      BY <1>a, <2>1, <2>4, AcknowledgesDoes DEF Typed
    <3> QED
      BY <1>c, <3>1, <3>2 DEF Credit
  <2> QED
    BY <2>3, <2>4
<1>5. CASE \E s \in Streams : DeviceWrites(s)
  <2>1. PICK s \in Streams : DeviceWrites(s)
    BY <1>5
  <2>2. device[s].credit /\ device[s].wrote < MaxWrites /\ Writes(s) /\ UNCHANGED handle /\ \E r \in BOOLEAN : Posts("WRTE", s, r)
    BY <2>1, <1>a, DeviceWritesDoes
  <2>3. PICK e : Payloads(s)' = Payloads(s) \cup {e} /\ \A t \in Streams : t # s => Payloads(t)' = Payloads(t)
    <3>1. PICK r \in BOOLEAN : Posts("WRTE", s, r)
      BY <2>2
    <3>2. "WRTE" \in Cmds
      BY DEF Cmds
    <3>3. PICK e \in Nat \ {0} :
            /\ \A t \in Streams : t # s => Underway(t)' = Underway(t) /\ Payloads(t)' = Payloads(t)
            /\ Payloads(s)' = IF "WRTE" = "WRTE" THEN Payloads(s) \cup {e} ELSE Payloads(s)
      BY <1>a, <2>2, <3>1, <3>2, LineGrows
    <3> QED
      BY <3>3
  <2>4. CASE s = k
    <3>1. Payloads(k)' = {e}
      BY <1>c, <2>2, <2>3, <2>4 DEF Credit
    <3>2. ~device'[k].credit
      BY <1>a, <2>2, <2>4, WritesDoes DEF Typed
    <3> QED
      BY <3>1, <3>2 DEF Credit
  <2>5. CASE s # k
    <3>1. device'[k] = device[k] /\ Payloads(k)' = Payloads(k)
      BY <1>a, <2>2, <2>3, <2>5, WritesDoes DEF Typed
    <3> QED
      BY <1>c, <3>1 DEF Credit
  <2> QED
    BY <2>4, <2>5
<1>6. CASE UNCHANGED <<handle, toHost, device>>
  <2>1. Payloads(k)' = Payloads(k)
    BY <1>6, LineSame
  <2> QED
    BY <1>6, <1>c, <2>1 DEF Credit
<1>7. CASE (\E c \in Streams : OpenPolls(c))
        \/ (\E c \in Streams : OpenReturns(c))
        \/ (\E c \in Streams : CommandEnds(c))
        \/ (\E c \in Streams : CommandCollects(c))
        \/ (\E c \in Streams : SocketReads(c))
        \/ (\E c \in Streams : SocketShuts(c))
        \/ (\E i \in Streams : RecvCopies(i))
        \/ (\E i \in Streams : RecvEnds(i))
        \/ (\E i \in Streams : ReadStarts(i))
        \/ (\E i \in Streams : ReadReturns(i))
        \/ (\E i \in Streams : SocketWritten(i))
        \/ (\E i \in Streams : PeerCloses(i))
        \/ (\E i \in Streams, p \in Pumps : PumpChecks(i, p))
        \/ (\E i \in Streams, p \in Pumps : PumpClosesBridge(i, p))
        \/ (\E i \in Streams, p \in Pumps : PumpShuts(i, p))
  BY <1>6, <1>7 DEF OpenPolls, OpenReturns, CommandEnds, CommandCollects, SocketReads, SocketShuts,
     RecvCopies, RecvEnds, ReadStarts, ReadReturns, SocketWritten, PeerCloses, PumpChecks, PumpClosesBridge,
     PumpShuts
<1> QED
  BY <1>b, <1>1, <1>2, <1>3, <1>4, <1>5, <1>6, <1>7 DEF Next, HandleSteps, PumpSteps, ToAdbSteps,
     ToSocketSteps, Pumps, vars

LEMMA LastKept ==
  ASSUME IInv, [Next]_vars, ~conn'.closed, NEW k \in Streams, use[k] = "command"
  PROVE  Last(k)'
<1>a. Typed /\ Handling /\ Speaking /\ Living /\ Pointing /\ Calling /\ Ending
  BY DEF IInv
<1>b. /\ ~conn.closed /\ UNCHANGED use
      /\ ~HandleEnds /\ ~CloseSteps /\ ~Destroy /\ \A t \in {"application", "send"} : ~Close(t)
  BY <1>a, OpenStep
<1>c. Credit(k) /\ Last(k) /\ Closing(k) /\ Written(k) /\ Speaks(k) /\ Lives(k) /\ Points(k) /\ Calls(k)
  BY <1>a, <1>b DEF IInv, Commands, Speaking, Living, Pointing, Calling
<1>1. CASE HandleResolves \/ HandleWrte \/ HandleOkay \/ HandleClse \/ HandleShuts \/ HandleUnlists
           \/ HandleBridges \/ HandleKeeps
  <2>1. Fewer /\ Unmoved
    BY <1>1, <1>a, LoopFewer, HostMoves DEF HandleResolves, HandleOkay, HandleClse, HandleShuts,
       HandleUnlists, HandleBridges,
       HandleKeeps, Unmoved
  <2> QED
    BY <1>c, <2>1, LastFewer DEF Unmoved
<1>2. CASE (\E c \in Streams : Open(c) \/ SocketCloses(c))
        \/ (\E i \in Streams, p \in Pumps : PumpClosesStream(i, p))
  <2>1. Fewer
    BY <1>2, Fewer1 DEF Open, SocketCloses, PumpClosesStream
  <2>2. Unmoved \/ \E c \in Streams : Moves(c, "asked") /\ device[c].at = "none"
    BY <1>2, <1>a, HostMoves DEF Open, Calling, Calls
  <2> QED
    BY <1>c, <2>1, <2>2, LastFewer DEF Unmoved, Moves
<1>3. CASE \E c \in Streams : DeviceAnswers(c)
  <2>1. PICK c \in Streams : DeviceAnswers(c)
    BY <1>3
  <2>2. UNCHANGED handle /\ device[c].at = "asked"
    BY <2>1, <1>a, DeviceAnswersDoes
  <2>3. (Turns(c, "open") /\ \E r \in BOOLEAN : Posts("OKAY", c, r)) \/ (Turns(c, "refused") /\ \E r \in BOOLEAN : Posts("CLSE", c, r))
    BY <2>1, <1>a, DeviceAnswersDoes
  <2>4. \A a \in {"open", "refused"} : Turns(c, a) => Moves(c, a) /\ device'[c].at = a
    BY <1>a, TurnsDoes DEF Typed, Moves
  <2>5. CASE Turns(c, "open") /\ \E r \in BOOLEAN : Posts("OKAY", c, r)
    BY <1>a, <1>c, <2>2, <2>4, <2>5, LastPosts DEF Cmds
  <2>6. CASE Turns(c, "refused") /\ \E r \in BOOLEAN : Posts("CLSE", c, r)
    BY <1>a, <1>c, <2>2, <2>4, <2>6, LastPosts DEF Cmds
  <2> QED
    BY <2>3, <2>5, <2>6
<1>4. CASE HandleReads
  <2>1. UNCHANGED device
    BY <1>4 DEF HandleReads
  <2>2. \A n \in Underway(k)' : n \in Nat /\ n + 1 \in Underway(k) /\ Message(n)' = Message(n + 1)
    BY <1>4, <1>a, LineMoves
  <2>3. ASSUME NEW m \in Underway(k)', Message(m)'.cmd = "CLSE"
        PROVE  device[k].at \in {"closed", "refused"} /\ \A n \in Underway(k)' : n <= m
    <3>1. m \in Nat /\ m + 1 \in Underway(k) /\ Message(m + 1).cmd = "CLSE"
      BY <2>2, <2>3
    <3>2. device[k].at \in {"closed", "refused"} /\ \A n \in Underway(k) : n <= m + 1
      BY <1>c, <3>1 DEF Last
    <3>3. ASSUME NEW n \in Underway(k)' PROVE n <= m
      <4>1. n \in Nat /\ n + 1 <= m + 1
        BY <2>2, <3>2
      <4> QED
        BY <3>1, <4>1
    <3> QED
      BY <3>2, <3>3
  <2> QED
    BY <2>1, <2>3 DEF Last
<1>5. CASE HandleConnects
  <2>1. Fewer /\ (Unmoved \/ Moves(handle.msg.stream, "open"))
    BY <1>5, <1>a, LoopFewer, HostMoves
  <2>2. handle.msg.stream \in Streams /\ handle.msg.cmd = "OPEN" /\ 0 \in Numbers
    BY <1>5, <1>a, LenProperties DEF HandleConnects, Handling, Typed, Sending, Numbers
  <2>3. handle.msg.stream # k
    BY <1>c, <2>2 DEF Speaks, Underway, Message
  <2>4. device'[k].at = device[k].at
    BY <2>1, <2>3 DEF Unmoved, Moves
  <2> QED
    BY <1>c, <2>1, <2>4, LastFewer
<1>6. CASE \E i \in Streams : DeviceOpens(i)
  <2>1. PICK i \in Streams : DeviceOpens(i)
    BY <1>6
  <2>2. UNCHANGED handle /\ device[i].at = "none" /\ (\E a : Moves(i, a))
    BY <2>1, <1>a, DeviceOpensDoes, DeviceMoves
  <2>3. \E r \in BOOLEAN : Posts("OPEN", i, r)
    BY <2>1, <1>a, DeviceOpensDoes
  <2> QED
    BY <1>a, <1>c, <2>2, <2>3, LastPosts DEF Cmds, Moves
<1>7. CASE \E s \in Streams : DeviceWrites(s)
  <2>1. PICK s \in Streams : DeviceWrites(s)
    BY <1>7
  <2>2. UNCHANGED handle /\ device[s].at = "open" /\ Unmoved
    BY <2>1, <1>a, DeviceWritesDoes, DeviceMoves
  <2>3. \E r \in BOOLEAN : Posts("WRTE", s, r)
    BY <2>1, <1>a, DeviceWritesDoes
  <2> QED
    BY <1>a, <1>c, <2>2, <2>3, LastPosts DEF Cmds, Moves
<1>8. CASE \E s \in Streams : DeviceCloses(s)
  <2>1. PICK s \in Streams : DeviceCloses(s)
    BY <1>8
  <2>2. UNCHANGED handle /\ device[s].at = "open" /\ Moves(s, "closed")
    BY <2>1, <1>a, DeviceClosesDoes, DeviceMoves
  <2>3. \E r \in BOOLEAN : Posts("CLSE", s, r)
    BY <2>1, <1>a, DeviceClosesDoes
  <2> QED
    BY <1>a, <1>c, <2>2, <2>3, LastPosts DEF Cmds, Moves
<1>9. CASE \E s \in Streams : DeviceGetsClose(s)
  <2>1. PICK s \in Streams : DeviceGetsClose(s)
    BY <1>9
  <2>2. UNCHANGED handle /\ device[s].at \in {"asked", "open"} /\ Moves(s, "closed")
    BY <2>1, <1>a, DeviceGetsCloseDoes, DeviceMoves
  <2>3. UNCHANGED toHost \/ \E r \in BOOLEAN : Posts("CLSE", s, r)
    BY <2>1, <1>a, DeviceGetsCloseDoes
  <2>4. CASE UNCHANGED toHost
    <3>1. Fewer /\ (device[k].at \in {"closed", "refused"} => device'[k].at \in {"closed", "refused"})
      BY <2>2, <2>4, Fewer1 DEF Moves
    <3> QED
      BY <1>c, <3>1, LastFewer
  <2>5. CASE \E r \in BOOLEAN : Posts("CLSE", s, r)
    BY <1>a, <1>c, <2>2, <2>5, LastPosts DEF Cmds, Moves
  <2> QED
    BY <2>3, <2>4, <2>5
<1>10. CASE UNCHANGED <<handle, toHost, device>>
  <2>1. Fewer
    BY <1>10, Fewer1
  <2> QED
    BY <1>10, <1>c, <2>1, LastFewer
<1>11. CASE (\E c \in Streams : OpenPolls(c))
        \/ (\E c \in Streams : OpenReturns(c))
        \/ (\E c \in Streams : CommandEnds(c))
        \/ (\E c \in Streams : CommandCollects(c))
        \/ (\E c \in Streams : SocketReads(c))
        \/ (\E c \in Streams : SocketShuts(c))
        \/ (\E i \in Streams : RecvCopies(i))
        \/ (\E i \in Streams : RecvEnds(i))
        \/ (\E i \in Streams : ReadStarts(i))
        \/ (\E i \in Streams : ReadReturns(i))
        \/ (\E i \in Streams : SocketWritten(i))
        \/ (\E i \in Streams : PeerCloses(i))
        \/ (\E i \in Streams, p \in Pumps : PumpChecks(i, p))
        \/ (\E i \in Streams, p \in Pumps : PumpClosesBridge(i, p))
        \/ (\E i \in Streams, p \in Pumps : PumpShuts(i, p))
  BY <1>10, <1>11 DEF OpenPolls, OpenReturns, CommandEnds, CommandCollects, SocketReads, SocketShuts,
     RecvCopies, RecvEnds, ReadStarts, ReadReturns, SocketWritten, PeerCloses, PumpChecks, PumpClosesBridge,
     PumpShuts
<1> QED
  BY <1>b, <1>1, <1>2, <1>3, <1>4, <1>5, <1>6, <1>7, <1>8, <1>9, <1>10, <1>11 DEF Next, HandleSteps,
     PumpSteps, ToAdbSteps, ToSocketSteps, Pumps, vars

LEMMA ClosingKept ==
  ASSUME IInv, [Next]_vars, ~conn'.closed, NEW k \in Streams, use[k] = "command"
  PROVE  Closing(k)'
<1>a. Typed /\ Handling /\ Speaking /\ Living /\ Pointing /\ Calling /\ Ending
  BY DEF IInv
<1>b. /\ ~conn.closed /\ UNCHANGED use
      /\ ~HandleEnds /\ ~CloseSteps /\ ~Destroy /\ \A t \in {"application", "send"} : ~Close(t)
  BY <1>a, OpenStep
<1>c. Credit(k) /\ Last(k) /\ Closing(k) /\ Written(k) /\ Speaks(k) /\ Lives(k) /\ Points(k) /\ Calls(k)
  BY <1>a, <1>b DEF IInv, Commands, Speaking, Living, Pointing, Calling
<1>1. CASE (\E c \in Streams : SocketReads(c) \/ SocketShuts(c) \/ CommandCollects(c))
        \/ (\E i \in Streams : ReadReturns(i))
        \/ (\E i \in Streams, p \in Pumps : PumpShuts(i, p))
  <2>1. UNCHANGED <<handle, toHost, device, table>>
    BY <1>1 DEF SocketReads, SocketShuts, ReadReturns, PumpShuts, CommandCollects
  <2>2. Underway(k)' = Underway(k)
    BY <2>1, LineSame
  <2>3. SameFor(k)
    <3>1. ASSUME NEW s \in Streams, Empties(s) PROVE SameFor(k)
      BY <1>a, <2>1, <3>1, EmptiesDoes DEF Typed, SameFor
    <3>2. ASSUME NEW s \in Streams, s # k, Shuts(s) PROVE SameFor(k)
      BY <1>a, <2>1, <3>2, ShutsDoes DEF Typed, SameFor
    <3>3. ASSUME UNCHANGED object PROVE SameFor(k)
      BY <2>1, <3>3 DEF SameFor
    <3>4. ASSUME NEW i \in Streams, use[i] # "command" PROVE i # k
      BY <3>4
    <3>5. ASSUME NEW c \in Streams, SocketReads(c) PROVE SameFor(k)
      BY <1>a, <3>1, <3>5, SocketReadsDoes
    <3>6. ASSUME NEW c \in Streams, SocketShuts(c) PROVE SameFor(k)
      BY <1>a, <3>2, <3>6, SocketShutsDoes DEF Calling, Calls
    <3>7. ASSUME NEW i \in Streams, ReadReturns(i) PROVE SameFor(k)
      BY <1>a, <3>1, <3>7, ReadReturnsDoes
    <3>8. ASSUME NEW i \in Streams, NEW p \in Pumps, PumpShuts(i, p) PROVE SameFor(k)
      BY <1>a, <3>2, <3>8, PumpShutsDoes DEF Pointing, Points, Pumps
    <3>9. ASSUME NEW c \in Streams, CommandCollects(c) PROVE SameFor(k)
      BY <1>a, <3>1, <3>3, <3>9, CommandCollectsDoes
    <3> QED
      BY <1>1, <3>5, <3>6, <3>7, <3>8, <3>9
  <2> QED
    BY <1>c, <2>1, <2>2, <2>3, ClosingSame
<1>2. CASE (\E c \in Streams : SocketCloses(c))
        \/ (\E i \in Streams, p \in Pumps : PumpClosesStream(i, p))
  <2>1. UNCHANGED <<handle, toHost, object>> /\ Unmoved
    BY <1>2, <1>a, HostMoves DEF SocketCloses, PumpClosesStream
  <2>2. Underway(k)' = Underway(k)
    BY <2>1, LineSame
  <2>3. table'.owned = table.owned /\ (k \in table'.listed <=> k \in table.listed)
    <3>1. ASSUME NEW c \in Streams, SocketCloses(c) PROVE table'.owned = table.owned /\ (k \in table'.listed <=> k \in table.listed)
      BY <1>a, <3>1, SocketClosesDoes
    <3>2. ASSUME NEW i \in Streams, NEW p \in Pumps, PumpClosesStream(i, p)
          PROVE  table'.owned = table.owned /\ (k \in table'.listed <=> k \in table.listed)
      <4>1. use[i] = "bridge"
        BY <1>a, <3>2, PumpClosesStreamDoes DEF Pointing, Points, Pumps
      <4> QED
        BY <1>a, <3>2, <4>1, PumpClosesStreamDoes
    <3> QED
      BY <1>2, <3>1, <3>2
  <2>4. SameFor(k)
    BY <2>1, <2>3 DEF SameFor
  <2> QED
    BY <1>c, <2>1, <2>2, <2>4, ClosingSame DEF Unmoved
<1>3. CASE HandleOkay \/ HandleKeeps \/ HandleBridges
  <2>1. Fewer /\ UNCHANGED <<object, table, device>> /\ handle.at \in {"act", "keep", "bridge"}
    BY <1>3, <1>a, LoopFewer DEF HandleOkay, HandleKeeps, HandleBridges
  <2>2. 0 \notin Underway(k)' \/ handle'.at = "keep"
    BY <1>3, <1>a, HandleOkayDoes, HandleKeepsDoes, HandleBridgesDoes, AtIs, NotOfK
  <2> QED
    BY <1>c, <2>1, <2>2, ClosedQuiet, SameForAll, ClosingTurn
<1>4. CASE (\E c \in Streams : DeviceAnswers(c))
        \/ (\E i \in Streams : DeviceOpens(i))
        \/ (\E s \in Streams : DeviceWrites(s) \/ DeviceCloses(s) \/ DeviceGetsClose(s))
  <2>1. PICK s \in Streams : DeviceAnswers(s) \/ DeviceOpens(s) \/ DeviceWrites(s) \/ DeviceCloses(s) \/ DeviceGetsClose(s)
    BY <1>4
  <2>2. UNCHANGED <<object, table, handle>> /\ device[s].at \notin {"closed", "refused"}
    BY <2>1 DEF DeviceAnswers, DeviceOpens, DeviceWrites, DeviceCloses, DeviceGetsClose
  <2>3. UNCHANGED toHost \/ \E cmd \in Cmds, r \in BOOLEAN : Posts(cmd, s, r)
    BY <1>a, <2>1, DeviceAnswersDoes, DeviceOpensDoes, DeviceWritesDoes, DeviceClosesDoes,
       DeviceGetsCloseDoes DEF Cmds
  <2>4. (s # k => Underway(k)' = Underway(k)) /\ (0 \in Underway(k)' => 0 \in Underway(k))
    <3>1. CASE UNCHANGED toHost
      BY <2>2, <3>1, LineSame
    <3>2. CASE \E cmd \in Cmds, r \in BOOLEAN : Posts(cmd, s, r)
      <4>1. PICK e \in Nat \ {0} :
              /\ \A t \in Streams : t # s => Underway(t)' = Underway(t) /\ Payloads(t)' = Payloads(t)
              /\ Underway(s)' = Underway(s) \cup {e}
        BY <1>a, <2>2, <3>2, LineGrows
      <4> QED
        BY <4>1
    <3> QED
      BY <2>3, <3>1, <3>2
  <2>5. s # k => device'[k].at = device[k].at
    BY <1>a, <2>1, DeviceMoves DEF Moves, Unmoved
  <2>6. object[k].closed => s # k
    BY <1>c, <2>2 DEF Closing
  <2> QED
    BY <1>c, <2>2, <2>4, <2>5, <2>6, SameForAll, ClosingSame
<1>5. CASE \E c \in Streams : Open(c)
  <2>1. PICK c \in Streams : Open(c)
    BY <1>5
  <2>2. UNCHANGED <<object, table, handle, toHost>> /\ (Unmoved \/ (Moves(c, "asked") /\ device[c].at = "none"))
    BY <1>a, <2>1, HostMoves DEF Open, Calling, Calls
  <2>3. Underway(k)' = Underway(k)
    BY <2>2, LineSame
  <2>4. device[k].at \in {"closed", "refused"} => device'[k].at = device[k].at
    BY <2>2 DEF Unmoved, Moves
  <2> QED
    BY <1>c, <2>2, <2>3, <2>4, SameForAll, ClosingSame
<1>6. CASE \E c \in Streams : OpenReturns(c)
  <2>1. PICK c \in Streams : OpenReturns(c)
    BY <1>6
  <2>2. UNCHANGED <<handle, toHost, device>> /\ c \in table.owned
    BY <1>a, <2>1 DEF OpenReturns, Calling, Calls
  <2>3. Underway(k)' = Underway(k)
    BY <2>2, LineSame
  <2>4. \/ UNCHANGED <<object, table>>
        \/ /\ Rejects(c) /\ Deletes(c)
           /\ table' = [listed |-> table.listed \ {c}, owned |-> table.owned \ {c},
                         last |-> IF table.last = c THEN NoStream ELSE table.last]
    BY <1>a, <2>1, OpenReturnsDoes
  <2>5. CASE UNCHANGED <<object, table>>
    BY <1>c, <2>2, <2>3, <2>5, SameForAll, ClosingSame
  <2>6. CASE /\ Rejects(c) /\ Deletes(c)
             /\ table' = [listed |-> table.listed \ {c}, owned |-> table.owned \ {c},
                          last |-> IF table.last = c THEN NoStream ELSE table.last]
    <3>1. table'.listed = table.listed \ {c} /\ table'.owned = table.owned \ {c}
      BY <2>6
    <3>2. CASE c # k
      <4>1. SameFor(k)
        BY <1>a, <2>6, <3>1, <3>2, DeletesDoes DEF Typed, SameFor
      <4> QED
        BY <1>c, <2>2, <2>3, <4>1, ClosingSame
    <3>3. CASE c = k
      <4>1. /\ object'[k].life = "deleted" /\ (object'[k].closed <=> object[k].closed)
            /\ (object'[k].shut <=> object[k].shut)
        BY <1>a, <2>6, <3>3, DeletesDoes DEF Typed
      <4>2. device[k].at = "refused"
        <5>1. object[k].refused
          BY <2>6, <3>3 DEF Rejects
        <5>2. object[k].life = "live"
          BY <1>c, <2>2, <3>3 DEF Lives
        <5> QED
          BY <1>c, <5>1, <5>2 DEF Lives
      <4> QED
        BY <1>c, <2>2, <2>3, <3>1, <3>3, <4>1, <4>2 DEF Closing
    <3> QED
      BY <3>2, <3>3
  <2> QED
    BY <2>4, <2>5, <2>6
<1>7. CASE HandleReads
  <2>1. UNCHANGED <<object, table, device>> /\ handle.at = "read" /\ handle'.at \in {"connect", "resolve"}
    BY <1>7, <1>a, HandleReadsDoes, AtIs
  <2>2. \A n \in Underway(k)' : n + 1 \in Underway(k)
    BY <1>7, <1>a, LineMoves
  <2>3. object[k].closed => Underway(k)' = {}
    BY <1>c, <2>1, <2>2 DEF Closing
  <2> QED
    BY <1>c, <2>1, <2>3, SameForAll, ClosingTurn
<1>8. CASE HandleResolves
  <2>1. Fewer /\ UNCHANGED device /\ handle.at = "resolve" /\ handle.msg.stream \in Streams
    BY <1>8, <1>a, LoopFewer, HandleResolvesDoes
  <2>2. object[k].closed => Underway(k)' = {}
    BY <1>c, <2>1, ClosedQuiet
  <2>3. /\ handle'.at = "act" /\ handle'.msg = handle.msg /\ handle'.stream \in {NoStream, handle.msg.stream}
        /\ handle'.stream = NoStream => object[handle.msg.stream].closed /\ UNCHANGED <<object, table>>
    BY <1>8, <1>a, HandleResolvesDoes, AtIs, HandleIs
  <2>4. \/ UNCHANGED object /\ table'.owned = table.owned /\ table'.listed = table.listed
        \/ /\ Makes(handle.msg.stream, handle.msg.refusal)
           /\ table'.owned = table.owned \cup {handle.msg.stream} /\ table'.listed = table.listed \cup {handle.msg.stream}
    BY <1>8, <1>a, HandleResolvesDoes
  <2>5. Makes(handle.msg.stream, handle.msg.refusal) =>
          /\ object'[handle.msg.stream].life = "live" /\ ~object'[handle.msg.stream].closed /\ ~object'[handle.msg.stream].shut
          /\ \A t \in Streams : t # handle.msg.stream => object'[t] = object[t]
    BY <1>a, <2>1, HandleIs, MakesDoes DEF Typed
  <2>6. CASE handle.msg.stream # k
    <3>1. SameFor(k)
      BY <2>4, <2>5, <2>6 DEF SameFor
    <3> QED
      BY <1>a, <1>c, <2>1, <2>2, <2>3, <2>6, <3>1, NotOfK, ClosingTurn
  <2>7. CASE handle.msg.stream = k
    <3>1. 0 \in Underway(k) /\ ~object[k].closed
      BY <1>a, <1>c, <2>1, <2>7, OfK DEF Closing
    <3>2. handle'.stream = k
      BY <2>3, <2>7, <3>1
    <3>3. CASE UNCHANGED object /\ table'.owned = table.owned /\ table'.listed = table.listed
      BY <1>c, <2>1, <2>3, <3>1, <3>2, <3>3 DEF Closing
    <3>4. CASE /\ Makes(handle.msg.stream, handle.msg.refusal)
               /\ table'.owned = table.owned \cup {handle.msg.stream} /\ table'.listed = table.listed \cup {handle.msg.stream}
      BY <2>3, <2>5, <2>7, <3>2, <3>4 DEF Closing
    <3> QED
      BY <2>4, <3>3, <3>4
  <2> QED
    BY <2>6, <2>7
<1>9. CASE HandleWrte
  <2>1. Fewer /\ UNCHANGED table /\ handle.at = "act" /\ Rests /\ Unmoved
    BY <1>9, <1>a, LoopFewer, HandleWrteDoes, HostMoves
  <2>2. \/ UNCHANGED object
        \/ /\ handle.msg.stream \in Streams /\ object[handle.msg.stream].ring < RingSpace /\ Fills(handle.msg.stream)
    BY <1>9, <1>a, HandleWrteDoes
  <2>3. SameFor(k)
    BY <1>a, <2>1, <2>2, FillsDoes DEF Typed, SameFor
  <2> QED
    BY <1>a, <1>c, <2>1, <2>3, ClosedQuiet, NotOfK, ClosingTurn DEF Unmoved
<1>10. CASE HandleClse
  <2>1. Fewer /\ UNCHANGED <<table, device, toHost>> /\ handle.at = "act" /\ handle.msg.cmd = "CLSE"
    BY <1>10, <1>a, LoopFewer, HandleClseDoes
  <2>2. \/ handle.stream = NoStream /\ Rests /\ UNCHANGED object
        \/ /\ handle.stream = handle.msg.stream /\ handle.msg.stream \in Streams /\ Marks(handle.msg.stream)
           /\ At(IF object[handle.msg.stream].closed THEN "shutAgain" ELSE "shut", handle.msg, handle.msg.stream, handle.cached)
    BY <1>10, <1>a, HandleClseDoes
  <2>3. CASE handle.stream = NoStream /\ Rests /\ UNCHANGED object
    BY <1>a, <1>c, <2>1, <2>3, ClosedQuiet, SameForAll, NotOfK, ClosingTurn
  <2>4. CASE /\ handle.stream = handle.msg.stream /\ handle.msg.stream \in Streams /\ Marks(handle.msg.stream)
             /\ At(IF object[handle.msg.stream].closed THEN "shutAgain" ELSE "shut", handle.msg, handle.msg.stream, handle.cached)
    <3>1. handle'.msg = handle.msg /\ handle'.at = IF object[handle.msg.stream].closed THEN "shutAgain" ELSE "shut"
      BY <2>4, AtIs
    <3>2. CASE handle.msg.stream # k
      <4>1. SameFor(k)
        BY <1>a, <2>1, <2>4, <3>2, MarksDoes DEF Typed, SameFor
      <4> QED
        BY <1>a, <1>c, <2>1, <3>1, <3>2, <4>1, ClosedQuiet, NotOfK, ClosingTurn
    <3>3. CASE handle.msg.stream = k
      <4>1. 0 \in Underway(k) /\ Message(0) = handle.msg
        BY <1>a, <3>3, OfK DEF Message
      <4>2. ~object[k].closed /\ handle'.at = "shut"
        BY <1>c, <2>1, <3>1, <3>3, <4>1 DEF Closing
      <4>3. device[k].at \in {"closed", "refused"} /\ \A n \in Underway(k) : n <= 0
        BY <1>c, <2>1, <4>1 DEF Last
      <4>4. \A n \in Underway(k)' : n = 0
        <5>1. \A n \in Underway(k) : n \in Nat
          BY <1>a, LenProperties DEF Underway, Numbers, Typed, Sending
        <5> QED
          BY <2>1, <4>3, <5>1 DEF Fewer
      <4>5. object'[k].closed /\ object'[k].life = object[k].life
        BY <1>a, <2>4, <3>3, MarksDoes DEF Typed
      <4> QED
        BY <1>c, <2>1, <4>2, <4>3, <4>4, <4>5 DEF Closing
    <3> QED
      BY <3>2, <3>3
  <2> QED
    BY <2>2, <2>3, <2>4
<1>11. CASE HandleShuts
  <2>1. /\ Fewer /\ UNCHANGED <<table, device, toHost>> /\ handle.at \in {"shut", "shutAgain"}
        /\ handle.stream = handle.msg.stream /\ handle.stream \in Streams /\ Ends(handle.stream)
        /\ \/ handle.at = "shut" /\ At("unlist", handle.msg, handle.stream, handle.cached)
           \/ handle.at = "shutAgain" /\ Rests
    BY <1>11, <1>a, LoopFewer, HandleShutsDoes
  <2>2. /\ (object'[k].closed <=> object[k].closed) /\ object'[k].life = object[k].life
        /\ (handle.msg.stream # k => (object'[k].shut <=> object[k].shut))
    BY <1>a, <2>1, EndsDoes DEF Typed
  <2>3. handle.msg.stream = k => object[k].closed
    BY <1>a, <1>c, <2>1, OfK DEF Closing
  <2>4. \A n \in Underway(k)' : n \in Underway(k)
    BY <2>1 DEF Fewer
  <2>5. CASE handle.at = "shut" /\ At("unlist", handle.msg, handle.stream, handle.cached)
    <3>1. handle'.at = "unlist" /\ handle'.msg = handle.msg
      BY <2>5, AtIs
    <3>2. 0 \in Underway(k)' => handle.msg.stream = k
      BY <1>a, <3>1, NotOfK
    <3> QED
      BY <1>c, <2>1, <2>2, <2>3, <2>4, <3>1, <3>2 DEF Closing
  <2>6. CASE handle.at = "shutAgain" /\ Rests
    <3>1. object[k].closed => Underway(k)' = {}
      BY <1>c, <2>1, <2>6, ClosedQuiet
    <3>2. 0 \notin Underway(k)'
      BY <1>a, <2>6, NotOfK
    <3> QED
      BY <1>c, <2>1, <2>2, <2>3, <3>1, <3>2 DEF Closing
  <2> QED
    BY <2>1, <2>5, <2>6
<1>12. CASE HandleUnlists
  <2>1. /\ Fewer /\ UNCHANGED <<object, device>> /\ Rests /\ handle.at = "unlist" /\ handle.stream = handle.msg.stream
        /\ UNCHANGED toHost /\ table'.owned = table.owned /\ table'.listed = table.listed \ {handle.stream}
    BY <1>12, <1>a, LoopFewer, HandleUnlistsDoes
  <2>2. Underway(k)' = Underway(k) \ {0}
    BY <1>a, <2>1, LineTurns
  <2>3. object[k].closed => Underway(k)' = {}
    BY <1>c, <2>2 DEF Closing
  <2>4. CASE handle.msg.stream # k
    <3>1. SameFor(k)
      BY <2>1, <2>4 DEF SameFor
    <3> QED
      BY <1>c, <2>1, <2>2, <2>3, <3>1, ClosingTurn
  <2>5. CASE handle.msg.stream = k
    <3>1. object[k].closed
      BY <1>a, <1>c, <2>1, <2>5, OfK DEF Closing
    <3> QED
      BY <1>c, <2>1, <2>2, <2>3, <3>1 DEF Closing
  <2> QED
    BY <2>4, <2>5
<1>13. CASE HandleConnects
  <2>1. Fewer /\ (Unmoved \/ Moves(handle.msg.stream, "open")) /\ handle.at = "connect"
    BY <1>13, <1>a, LoopFewer, HostMoves DEF HandleConnects
  <2>2. handle.msg.stream \in Streams /\ handle.msg.cmd = "OPEN" /\ 0 \in Numbers
    BY <1>13, <1>a, LenProperties DEF HandleConnects, Handling, Typed, Sending, Numbers
  <2>3. handle.msg.stream # k
    BY <1>c, <2>2 DEF Speaks, Underway, Message
  <2>4. device'[k].at = device[k].at
    BY <2>1, <2>3 DEF Unmoved, Moves
  <2>5. (UNCHANGED object \/ Makes(handle.msg.stream, FALSE)) /\ (Rests \/ At("bridge", handle.msg, handle.stream, handle.cached))
    BY <1>13, <1>a, HandleConnectsDoes
  <2>6. object'[k] = object[k]
    <3>1. Makes(handle.msg.stream, FALSE) => \E r \in BOOLEAN : Makes(handle.msg.stream, r)
      OBVIOUS
    <3> QED
      BY <1>a, <2>2, <2>3, <2>5, <3>1, MakesDoes DEF Typed
  <2>7. SameFor(k)
    <3>1. UNCHANGED table \/ table' = [listed |-> table.listed \cup {handle.msg.stream},
            owned |-> table.owned \cup {handle.msg.stream}, last |-> handle.msg.stream]
      BY <1>13, <1>a, HandleConnectsHas
    <3>2. (k \in table'.owned <=> k \in table.owned) /\ (k \in table'.listed <=> k \in table.listed)
      BY <2>3, <3>1
    <3> QED
      BY <2>6, <3>2 DEF SameFor
  <2>8. 0 \notin Underway(k)' \/ handle'.at = "bridge"
    BY <1>a, <2>5, AtIs, NotOfK
  <2> QED
    BY <1>c, <2>1, <2>4, <2>7, <2>8, ClosedQuiet, ClosingTurn
<1>14. CASE UNCHANGED <<object, table, handle, toHost, device>>
  <2>1. Underway(k)' = Underway(k)
    BY <1>14, LineSame
  <2> QED
    BY <1>14, <1>c, <2>1, SameForAll, ClosingSame
<1>15. CASE (\E c \in Streams : OpenPolls(c))
        \/ (\E c \in Streams : CommandEnds(c))
        \/ (\E i \in Streams : RecvCopies(i))
        \/ (\E i \in Streams : RecvEnds(i))
        \/ (\E i \in Streams : ReadStarts(i))
        \/ (\E i \in Streams : SocketWritten(i))
        \/ (\E i \in Streams : PeerCloses(i))
        \/ (\E i \in Streams, p \in Pumps : PumpChecks(i, p))
        \/ (\E i \in Streams, p \in Pumps : PumpClosesBridge(i, p))
  BY <1>14, <1>15 DEF OpenPolls, CommandEnds, RecvCopies, RecvEnds, ReadStarts, SocketWritten, PeerCloses,
     PumpChecks, PumpClosesBridge
<1> QED
  BY <1>b, <1>1, <1>2, <1>3, <1>4, <1>5, <1>6, <1>7, <1>8, <1>9, <1>10, <1>11, <1>12, <1>13, <1>14, <1>15
     DEF Next, HandleSteps, PumpSteps, ToAdbSteps, ToSocketSteps, Pumps, vars

LEMMA WrittenKept ==
  ASSUME IInv, [Next]_vars, ~conn'.closed, NEW k \in Streams, use[k] = "command"
  PROVE  Written(k)'
<1>a. Typed /\ Handling /\ Speaking /\ Living /\ Pointing /\ Calling /\ Ending
  BY DEF IInv
<1>b. /\ ~conn.closed /\ UNCHANGED use
      /\ ~HandleEnds /\ ~CloseSteps /\ ~Destroy /\ \A t \in {"application", "send"} : ~Close(t)
  BY <1>a, OpenStep
<1>c. Credit(k) /\ Last(k) /\ Closing(k) /\ Written(k) /\ Speaks(k) /\ Lives(k) /\ Points(k) /\ Calls(k)
  BY <1>a, <1>b DEF IInv, Commands, Speaking, Living, Pointing, Calling
<1>1. CASE (\E c \in Streams : SocketReads(c) \/ SocketShuts(c))
        \/ (\E i \in Streams : ReadReturns(i))
        \/ (\E i \in Streams, p \in Pumps : PumpShuts(i, p))
  <2>1. object'[k] = object[k] /\ UNCHANGED <<device, output>> /\ caller'[k] = caller[k]
    BY <1>1, <1>a, OthersObjects
  <2> QED
    BY <1>c, <2>1, WrittenSame
<1>2. CASE (\E c \in Streams : SocketCloses(c))
        \/ (\E i \in Streams, p \in Pumps : PumpClosesStream(i, p))
  <2>1. UNCHANGED <<object, output>> /\ caller'[k] = caller[k]
    BY <1>2, <1>a DEF SocketCloses, PumpClosesStream, Typed, Callers
  <2>2. Unpaid /\ Unmoved
    BY <1>2, <1>a, NonePaid, HostMoves
  <2> QED
    BY <1>c, <2>1, <2>2, WrittenSame DEF Unpaid, Unmoved
<1>3. CASE HandleClse \/ HandleShuts
  <2>1. UNCHANGED <<device, output, caller>>
    BY <1>3 DEF HandleClse, HandleShuts
  <2>2. object'[k].ring = object[k].ring /\ (object[k].closed => object'[k].closed)
    <3>1. UNCHANGED object \/ \E s \in Streams : Marks(s) \/ Ends(s)
      BY <1>3, <1>a, HandleClseDoes, HandleShutsDoes
    <3> QED
      BY <1>a, <3>1, MarksDoes, EndsDoes DEF Typed
  <2> QED
    BY <1>c, <2>1, <2>2, WrittenSame
<1>4. CASE (\E c \in Streams : DeviceAnswers(c))
        \/ (\E i \in Streams : DeviceOpens(i))
        \/ (\E s \in Streams : DeviceCloses(s) \/ DeviceGetsClose(s))
  <2>1. PICK s \in Streams : DeviceAnswers(s) \/ DeviceOpens(s) \/ DeviceCloses(s) \/ DeviceGetsClose(s)
    BY <1>4
  <2>2. UNCHANGED <<object, output, caller>> /\ Unpaid
    BY <1>a, <2>1, NonePaid DEF DeviceAnswers, DeviceOpens, DeviceCloses, DeviceGetsClose
  <2>3. /\ device[k].at = "closed" => device'[k].at = "closed"
        /\ device'[k].at \in {"none", "asked", "refused"} => device[k].at \in {"none", "asked", "refused"}
    BY <1>a, <1>b, <2>1, DeviceMoves DEF Moves
  <2> QED
    BY <1>c, <2>2, <2>3, WrittenSame DEF Unpaid
<1>5. CASE \E c \in Streams : Open(c)
  <2>1. PICK c \in Streams : Open(c)
    BY <1>5
  <2>2. UNCHANGED <<object, output>> /\ Unpaid /\ (Unmoved \/ (Moves(c, "asked") /\ device[c].at = "none"))
    BY <1>a, <2>1, NonePaid, HostMoves DEF Open, Calling, Calls
  <2>3. caller'[k] = caller[k] \/ (caller'[k] = "poll" /\ caller[k] = "idle")
    BY <1>a, <2>1 DEF Open, Typed, Callers
  <2>4. /\ device[k].at = "closed" => device'[k].at = "closed"
        /\ device'[k].at \in {"none", "asked", "refused"} => device[k].at \in {"none", "asked", "refused"}
    BY <2>2 DEF Unmoved, Moves
  <2> QED
    BY <1>c, <2>2, <2>3, <2>4 DEF Written, Unpaid
<1>6. CASE \E c \in Streams : OpenPolls(c)
  <2>1. PICK c \in Streams : OpenPolls(c)
    BY <1>6
  <2>2. UNCHANGED <<object, output, device>> /\ (caller'[k] = caller[k] \/ (caller[k] = "poll" /\ caller'[k] \in {"failed", "found"}))
    BY <1>a, <2>1 DEF OpenPolls, Typed, Callers
  <2> QED
    BY <1>c, <2>2 DEF Written
<1>7. CASE \E c \in Streams : OpenReturns(c)
  <2>1. PICK c \in Streams : OpenReturns(c)
    BY <1>7
  <2>2. /\ UNCHANGED <<output, device>>
        /\ caller'[k] = caller[k] \/ (caller[k] = "found" /\ caller'[k] \in {"failed", "opened"})
    BY <1>a, <2>1 DEF OpenReturns, Typed, Callers
  <2>3. object'[k].ring = object[k].ring
    <3>1. UNCHANGED object \/ Deletes(c)
      BY <1>a, <2>1, OpenReturnsDoes
    <3> QED
      BY <1>a, <3>1, DeletesDoes DEF Typed
  <2>4. object[k].closed => object'[k].closed
    <3>1. UNCHANGED object \/ Deletes(c)
      BY <1>a, <2>1, OpenReturnsDoes
    <3> QED
      BY <1>a, <3>1, DeletesDoes DEF Typed
  <2> QED
    BY <1>c, <2>2, <2>3, <2>4 DEF Written
<1>8. CASE \E c \in Streams : CommandEnds(c)
  <2>1. PICK c \in Streams : CommandEnds(c)
    BY <1>8
  <2>2. UNCHANGED <<object, output, device>>
    BY <2>1 DEF CommandEnds
  <2>3. CASE c # k
    <3>1. caller'[k] = caller[k]
      BY <1>a, <2>1, <2>3 DEF CommandEnds, Typed, Callers
    <3> QED
      BY <1>c, <2>2, <3>1, WrittenSame
  <2>4. CASE c = k
    <3>1. caller[k] = "opened" /\ caller'[k] = "collect" /\ IsStreamClosed(k)
      BY <1>a, <1>b, <2>1, <2>4 DEF CommandEnds, Typed, Callers
    <3>2. object[k].closed
      BY <1>c, <3>1 DEF IsStreamClosed, Calls, Closing
    <3> QED
      BY <1>c, <2>2, <3>1, <3>2 DEF Written
  <2> QED
    BY <2>3, <2>4
<1>9. CASE \E c \in Streams : CommandCollects(c)
  <2>1. PICK c \in Streams : CommandCollects(c)
    BY <1>9
  <2>2. /\ caller[c] = "collect" /\ caller' = [caller EXCEPT ![c] = "done"] /\ UNCHANGED device
        /\ \/ output' = [output EXCEPT ![c] = object[c].ring] /\ Empties(c)
           \/ ~Finds(c) /\ UNCHANGED <<output, object>>
    BY <1>a, <2>1, CommandCollectsDoes
  <2>3. CASE c # k
    <3>1. caller'[k] = caller[k] /\ output'[k] = output[k]
      BY <1>a, <2>2, <2>3 DEF Typed, Callers
    <3>2. object'[k] = object[k]
      BY <1>a, <2>2, <2>3, EmptiesDoes DEF Typed
    <3> QED
      BY <1>c, <2>2, <3>1, <3>2, WrittenSame
  <2>4. CASE c = k
    <3>1. caller'[k] = "done" /\ Finds(k)
      BY <1>a, <1>c, <2>2, <2>4 DEF Typed, Callers, Calls, Finds
    <3>2. output'[k] = object[k].ring
      BY <1>a, <2>2, <2>4, <3>1 DEF Typed, Callers
    <3>3. object[k].closed
      BY <1>c, <2>2, <2>4 DEF Written
    <3>4. device[k].credit
      BY <1>a, <1>c, <3>3, ClosedEmpty
    <3>5. output'[k] = device[k].wrote
      BY <1>a, <1>c, <2>2, <2>4, <3>2, <3>4, EffectsType DEF Written, Typed
    <3>6. device[k].at = "closed"
      <4>1. ~object[k].refused /\ object[k].life = "live"
        BY <1>c, <2>2, <2>4 DEF Calls, Lives
      <4> QED
        BY <1>c, <3>3, <4>1 DEF Lives, Closing
    <3> QED
      BY <1>c, <2>2, <3>1, <3>5, <3>6 DEF Written
  <2> QED
    BY <2>3, <2>4
<1>10. CASE HandleResolves
  <2>1. /\ UNCHANGED <<device, caller, output>> /\ handle.msg.stream \in Streams
        /\ UNCHANGED object \/ (handle.msg.stream \notin table.owned /\ Makes(handle.msg.stream, handle.msg.refusal))
    BY <1>10, <1>a, HandleResolvesDoes
  <2>2. Makes(handle.msg.stream, handle.msg.refusal) =>
          /\ object'[handle.msg.stream].ring = 0
          /\ \A t \in Streams : t # handle.msg.stream => object'[t] = object[t]
    BY <1>a, <2>1, HandleIs, MakesDoes DEF Typed
  <2>3. CASE UNCHANGED object \/ handle.msg.stream # k
    <3>1. object'[k] = object[k]
      BY <2>1, <2>2, <2>3
    <3> QED
      BY <1>c, <2>1, <3>1, WrittenSame
  <2>4. CASE handle.msg.stream = k /\ k \notin table.owned /\ Makes(handle.msg.stream, handle.msg.refusal)
    <3>1. object'[k].ring = 0 /\ caller[k] # "collect"
      BY <1>c, <2>2, <2>4 DEF Calls
    <3>2. object[k].life \in {"none", "deleted"}
      BY <1>a, <1>c, <2>4, EffectsType DEF Closing, Typed
    <3>3. object[k].ring = 0 \/ device[k].wrote = 0
      BY <1>c, <3>2 DEF Closing, Lives, Written, NoObject
    <3>4. object[k].ring \in Nat /\ device[k].wrote \in Nat
      BY <1>a, EffectsType, EndsType DEF Typed
    <3>5. caller[k] # "done" => object[k].ring = 0
      BY <1>c, <3>3, <3>4 DEF Written
    <3> QED
      BY <1>c, <2>1, <3>1, <3>5 DEF Written
  <2> QED
    BY <2>1, <2>3, <2>4
<1>11. CASE HandleWrte
  <2>1. /\ handle.at = "act" /\ handle.msg.cmd = "WRTE" /\ UNCHANGED <<caller, output>>
        /\ \/ handle.stream = NoStream /\ UNCHANGED <<object, device>>
           \/ /\ handle.stream = handle.msg.stream /\ handle.stream \in Streams
              /\ \/ object[handle.stream].shut /\ UNCHANGED object
                 \/ ~object[handle.stream].shut /\ object[handle.stream].ring < RingSpace /\ Fills(handle.stream)
              /\ \/ object[handle.stream].closed /\ UNCHANGED device
                 \/ ~object[handle.stream].closed /\ Acknowledges(handle.stream)
    BY <1>11, <1>a, <1>b, HandleWrteDoes
  <2>2. 0 \in Numbers /\ Message(0) = handle.msg
    BY <1>a, LenProperties DEF Typed, Sending, Numbers, Message
  <2>3. CASE handle.msg.stream = k
    <3>1. 0 \in Underway(k) /\ 0 \in Payloads(k)
      BY <2>1, <2>2, <2>3 DEF Underway, Payloads
    <3>2. handle.stream = k /\ ~object[k].closed /\ ~object[k].shut /\ ~device[k].credit
      BY <1>c, <2>1, <3>1 DEF Closing, Credit
    <3>3. object[k].ring < RingSpace /\ Fills(k) /\ Acknowledges(k)
      BY <2>1, <3>2, StreamsAssumption
    <3>4. object'[k].ring = object[k].ring + 1 /\ (object'[k].closed <=> object[k].closed)
      BY <1>a, <3>3, FillsDoes DEF Typed
    <3>5. device'[k].credit /\ device'[k].wrote = device[k].wrote /\ device'[k].at = device[k].at
      BY <1>a, <3>3, AcknowledgesDoes DEF Typed
    <3>6. object[k].ring \in Nat /\ device[k].wrote \in Nat
      BY <1>a, EffectsType, EndsType DEF Typed
    <3> QED
      BY <1>c, <2>1, <3>2, <3>4, <3>5, <3>6 DEF Written
  <2>4. CASE handle.msg.stream # k
    <3>1. object'[k] = object[k]
      BY <1>a, <2>1, <2>4, FillsDoes DEF Typed
    <3>2. device'[k] = device[k]
      BY <1>a, <2>1, <2>4, AcknowledgesDoes DEF Typed
    <3> QED
      BY <1>c, <2>1, <3>1, <3>2, WrittenSame
  <2> QED
    BY <2>3, <2>4
<1>12. CASE HandleConnects
  <2>1. /\ UNCHANGED <<caller, output>> /\ Unpaid /\ (Unmoved \/ Moves(handle.msg.stream, "open"))
    BY <1>12, <1>a, NonePaid, HostMoves DEF HandleConnects
  <2>2. handle.msg.stream \in Streams /\ handle.msg.cmd = "OPEN" /\ 0 \in Numbers
    BY <1>12, <1>a, LenProperties DEF HandleConnects, Handling, Typed, Sending, Numbers
  <2>3. handle.msg.stream # k
    BY <1>c, <2>2 DEF Speaks, Underway, Message
  <2>4. device'[k].at = device[k].at
    BY <2>1, <2>3 DEF Unmoved, Moves
  <2>5. object'[k] = object[k]
    <3>1. UNCHANGED object \/ Makes(handle.msg.stream, FALSE)
      BY <1>12, <1>a, HandleConnectsDoes
    <3>2. Makes(handle.msg.stream, FALSE) => \E r \in BOOLEAN : Makes(handle.msg.stream, r)
      OBVIOUS
    <3> QED
      BY <1>a, <2>2, <2>3, <3>1, <3>2, MakesDoes DEF Typed
  <2> QED
    BY <1>c, <2>1, <2>4, <2>5, WrittenSame DEF Unpaid
<1>13. CASE \E s \in Streams : DeviceWrites(s)
  <2>1. PICK s \in Streams : DeviceWrites(s)
    BY <1>13
  <2>2. /\ device[s].at = "open" /\ device[s].credit /\ device[s].wrote < MaxWrites /\ Writes(s)
        /\ UNCHANGED <<object, output, caller>>
    BY <1>a, <2>1, DeviceWritesDoes
  <2>3. CASE s # k
    <3>1. device'[k] = device[k]
      BY <1>a, <2>2, <2>3, WritesDoes DEF Typed
    <3> QED
      BY <1>c, <2>2, <3>1, WrittenSame
  <2>4. CASE s = k
    <3>1. device'[k].at = "open" /\ ~device'[k].credit /\ device'[k].wrote = device[k].wrote + 1
      BY <1>a, <2>2, <2>4, WritesDoes DEF Typed
    <3>2. object[k].ring \in Nat /\ device[k].wrote \in Nat
      BY <1>a, EffectsType, EndsType DEF Typed
    <3> QED
      BY <1>c, <2>2, <2>4, <3>1, <3>2 DEF Written
  <2> QED
    BY <2>3, <2>4
<1>14. CASE UNCHANGED <<caller, output, object, device>>
  BY <1>14, <1>c, WrittenSame
<1>15. CASE HandleReads
        \/ HandleOkay
        \/ HandleUnlists
        \/ HandleBridges
        \/ HandleKeeps
        \/ (\E i \in Streams : RecvCopies(i))
        \/ (\E i \in Streams : RecvEnds(i))
        \/ (\E i \in Streams : ReadStarts(i))
        \/ (\E i \in Streams : SocketWritten(i))
        \/ (\E i \in Streams : PeerCloses(i))
        \/ (\E i \in Streams, p \in Pumps : PumpChecks(i, p))
        \/ (\E i \in Streams, p \in Pumps : PumpClosesBridge(i, p))
  BY <1>14, <1>15 DEF HandleReads, HandleOkay, HandleUnlists, HandleBridges, HandleKeeps, RecvCopies,
     RecvEnds, ReadStarts, SocketWritten, PeerCloses, PumpChecks, PumpClosesBridge
<1> QED
  BY <1>b, <1>1, <1>2, <1>3, <1>4, <1>5, <1>6, <1>7, <1>8, <1>9, <1>10, <1>11, <1>12, <1>13, <1>14, <1>15
     DEF Next, HandleSteps, PumpSteps, ToAdbSteps, ToSocketSteps, Pumps, vars

-----------------------------------------------------------------------------
(* The theorems.                                                           *)

\* The four parts together.
LEMMA CommandsKept == IInv /\ [Next]_vars => Commands'
<1> SUFFICES ASSUME IInv, [Next]_vars PROVE Commands'
  OBVIOUS
<1> SUFFICES ASSUME ~conn'.closed, NEW k \in Streams, use'[k] = "command"
             PROVE  Credit(k)' /\ Last(k)' /\ Closing(k)' /\ Written(k)'
  BY DEF Commands
<1>1. use[k] = "command"
  BY OpenStep DEF IInv
<1> QED
  BY <1>1, CreditKept, LastKept, ClosingKept, WrittenKept

\* The types together.
LEMMA TypedKept == Typed /\ Handling /\ [Next]_vars => Typed'
<1> SUFFICES ASSUME Typed, Handling, [Next]_vars PROVE Typed'
  OBVIOUS
<1> QED
  BY CallersKept, ObjectsKept, TableKept, HandlerKept, BridgesKept, ConnectionKept, SendingKept,
     DevicesKept,
     StaleKept DEF Typed

\* The invariant is inductive.
LEMMA InductiveStep == IInv /\ [Next]_vars => IInv'
<1> SUFFICES ASSUME IInv, [Next]_vars PROVE IInv'
  OBVIOUS
<1>1. Typed /\ Handling /\ Speaking /\ Living /\ Pointing /\ Calling /\ Ending
  BY DEF IInv
<1>2. Typed' /\ Commands'
  BY <1>1, TypedKept, CommandsKept
<1>3. Handling' /\ Speaking' /\ Ending'
  BY <1>1, HandlingKept, SpeakingKept, EndingKept
<1>4. Living' /\ Pointing' /\ Calling'
  BY <1>1, LivingKept, PointingKept, CallingKept
<1> QED
  BY <1>2, <1>3, <1>4 DEF IInv

\* The initial state.
LEMMA Starts == Init => IInv
<1> SUFFICES ASSUME Init PROVE IInv
  OBVIOUS
<1> USE StreamsAssumption DEF Init
<1>1. /\ handle.at = "read" /\ handle.msg = Msg("none", NoStream, FALSE)
      /\ handle.stream = NoStream /\ handle.cached = NoStream
  BY DEF Reading
<1>2. handle.msg.stream = NoStream /\ handle.msg.cmd = "none" /\ handle.msg.refusal \in BOOLEAN
  BY <1>1 DEF Msg
<1>3. Typed
  <2>1. Callers /\ Table /\ Bridges /\ Connection /\ Sending /\ Devices /\ Stale
    BY DEF Callers, Table, Bridges, BridgeType, Connection, Sending, Devices, DeviceType, Stale
  <2>2. Objects
    BY DEF Objects, ObjectType, NoObject
  <2>3. Handler
    BY DEF Handler, Messages, Cmds, Reading, Msg
  <2> QED
    BY <2>1, <2>2, <2>3 DEF Typed
<1>4. Numbers = {0} /\ Message(0) = handle.msg /\ \A s \in Streams : Underway(s) = {} /\ Payloads(s) = {}
  <2>1. Len(toHost) = 0
    OBVIOUS
  <2>2. Numbers = {0}
    BY <2>1 DEF Numbers
  <2>3. Message(0) = handle.msg
    BY DEF Message
  <2>4. \A s \in Streams : Underway(s) = {}
    BY <1>2, <2>2, <2>3 DEF Underway
  <2> QED
    BY <2>2, <2>3, <2>4 DEF Payloads
<1>5. Handling
  <2>1. \A n \in 1..Len(toHost) : FALSE
    OBVIOUS
  <2> HIDE DEF Init
  <2> QED
    BY <1>1, <1>2, <2>1 DEF Handling
<1>6. Speaking
  BY <1>4 DEF Speaking, Speaks
<1>7. Living
  <2>1. \A s \in Streams : object[s] = NoObject /\ NoObject.life = "none" /\ s \notin table.owned
    BY DEF NoObject
  <2> QED
    BY <2>1 DEF Living, Lives
<1>8. Pointing
  BY <1>1 DEF Pointing, Points
<1>9. Calling
  BY DEF Calling, Calls
<1>10. Ending
  BY DEF Ending
<1>11. Commands
  <2> SUFFICES ASSUME NEW c \in Streams PROVE Credit(c) /\ Last(c) /\ Closing(c) /\ Written(c)
    BY DEF Commands
  <2>1. Credit(c)
    BY <1>4 DEF Credit
  <2>2. Last(c)
    BY <1>4 DEF Last
  <2>3. Closing(c)
    BY <1>4 DEF Closing, NoObject
  <2>4. Written(c)
    BY DEF Written, NoObject
  <2> QED
    BY <2>1, <2>2, <2>3, <2>4
<1> QED
  BY <1>3, <1>5, <1>6, <1>7, <1>8, <1>9, <1>10, <1>11 DEF IInv

\* The invariant holds in every state.
THEOREM Inductive == Spec => []IInv
<1>1. IInv /\ UNCHANGED vars => IInv'
  BY InductiveStep
<1> QED
  BY Starts, InductiveStep, PTL DEF Spec

\* Type correctness, whatever the streams are used for, and for read buffers of any size.
THEOREM TypeCorrect == Spec => []TypeOK
<1>1. IInv => TypeOK
  BY DEF IInv, Typed, Callers, Objects, ObjectType, Table, Handler, Bridges, BridgeType, Connection,
     Sending,
         Devices, DeviceType, Stale, TypeOK
<1> QED
  BY Inductive, <1>1, PTL

\* A caller of open() has a stream that the device has accepted, and its object; and a command returns
\* all that the device wrote to it before it closed the stream.
THEOREM CallersTold == Spec => []StreamsTrue
<1>1. IInv => StreamsTrue
  <2> SUFFICES ASSUME IInv PROVE StreamsTrue
    OBVIOUS
  <2>1. OpenTruthful
    <3> SUFFICES ASSUME NEW c \in Streams, caller[c] \in {"opened", "collect", "closing"}
                 PROVE  device[c].at \in {"open", "closed"} /\ object[c].life = "live" /\ ~object[c].refused
      BY DEF OpenTruthful
    <3>1. Calls(c) /\ Lives(c)
      BY DEF IInv, Calling, Living
    <3>2. use[c] # "bridge" /\ c \in table.owned /\ ~object[c].refused
      BY <3>1 DEF Calls
    <3> QED
      BY <3>1, <3>2 DEF Lives
  <2>2. CommandOutput
    BY DEF CommandOutput, IInv, Commands, Written
  <2> QED
    BY <2>1, <2>2 DEF StreamsTrue
<1> QED
  BY Inductive, <1>1, PTL

=============================================================================
