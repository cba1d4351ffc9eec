------------------------------- MODULE Sockets ------------------------------
(***************************************************************************)
(* The WebSocket hub (internal/tracking) of one API process: the sockets   *)
(* of a driver, and those of the customer of a ride, each the app's next   *)
(* try to be connected.  The hub holds one client per driver and one per   *)
(* ride.  A socket that connects takes the place of the one before, whose  *)
(* handler goes on until it ends; a handler that ends removes WHOEVER is   *)
(* registered, and a driver's removes the driver from the GEO index, which *)
(* every accepted location ping fills again.  Messages wait in a queue of  *)
(* the client for its write pump; a full queue drops them.                 *)
(*                                                                         *)
(* The matching state of the driver, the profile and the pointer to a ride *)
(* belong to other modules; here they may change at any time.              *)
(***************************************************************************)
EXTENDS Naturals, Absent

CONSTANTS DriverSockets, CustomerSockets,
          Buffer   \* messages a client's queue holds

ASSUME SocketsAssumption ==
    /\ DriverSockets \cap CustomerSockets = {}
    /\ None \notin DriverSockets \cup CustomerSockets
    /\ Buffer \in Nat

VARIABLES
    sock,      \* per socket, how far its handler is
    queue,     \* per socket, how many messages wait in client.Send
    writing,   \* the sockets whose write pump runs
    done,      \* the sockets whose client was told to stop (client.done)
    hub,       \* the registered client of the driver, of the ride
    newest,    \* the socket connected last
    missed,    \* what became of the last message: "no", "full" or "lost"
    taken,     \* has an older socket ended after a newer one had registered?
    pool,      \* the driver's Redis state: "off", "idle" (AVAILABLE, no
               \* active ride) or "riding" (an active ride)
    onDuty,    \* is the driver's profile online and APPROVED?
    indexed,   \* is the driver in the GEO index?
    ping       \* a location update in flight
hubVars == <<hub, newest, missed, taken>>
poolVars == <<pool, onDuty, indexed, ping>>
socketVars == <<sock, queue, writing, done, hubVars, poolVars>>

AllSockets == DriverSockets \cup CustomerSockets
RoleOf(s) == IF s \in DriverSockets THEN "driver" ELSE "customer"
Roles == {"driver", "customer"}
Connected(s) == s \notin done
                /\ sock[s] \in {"restore", "add", "replay", "open", "blocked"}
HasRoom(s) == queue[s] < Buffer
GoesOn(s, pc) == sock' = [sock EXCEPT ![s] = pc]
Enqueue(s) == queue' = [queue EXCEPT ![s] = @ + 1]

SocketsInit ==
    /\ sock = [s \in AllSockets |-> "new"]
    /\ queue = [s \in AllSockets |-> 0] /\ writing = {} /\ done = {}
    /\ hub = [x \in Roles |-> None] /\ newest = [x \in Roles |-> None]
    /\ missed = [x \in Roles |-> "no"] /\ taken = [x \in Roles |-> FALSE]
    /\ pool = "off" /\ onDuty = FALSE /\ indexed = FALSE /\ ping = "none"

-----------------------------------------------------------------------------
(* Connecting.  existing.Done() tells the client before to stop.            *)

\* Mutant: the client before is stopped, and still the one registered.
MutRegister(s) ==
    LET x == RoleOf(s) IN
    /\ done' = done \cup ({hub[x]} \ {None})
    /\ hub' = [hub EXCEPT ![x] = IF @ = None THEN s ELSE @]
    /\ newest' = [newest EXCEPT ![x] = s]
    /\ missed' = [missed EXCEPT ![x] = "no"]

\* Hub.RegisterDriver, Hub.RegisterCustomer
Register(s) ==
    LET x == RoleOf(s) IN
    /\ done' = done \cup ({hub[x]} \ {None})
    /\ hub' = [hub EXCEPT ![x] = s]
    /\ newest' = [newest EXCEPT ![x] = s]
    /\ missed' = [missed EXCEPT ![x] = "no"]

DriverWS(s) ==
    /\ s \in DriverSockets /\ sock[s] = "new"
    /\ Register(s) /\ GoesOn(s, "restore")
    /\ UNCHANGED <<queue, writing, taken, poolVars>>

CustomerWS(s) ==
    /\ s \in CustomerSockets /\ sock[s] = "new"
    /\ Register(s) /\ GoesOn(s, "replay")
    /\ UNCHANGED <<queue, writing, taken, poolVars>>

\* restoreDriverPresence: an AVAILABLE driver without a ride, if the location
\* is still known (its key lives for 120 s), ...
RestoreRead(s) ==
    /\ sock[s] = "restore"
    /\ \/ pool = "idle" /\ GoesOn(s, "add")
       \/ GoesOn(s, "replay")
    /\ UNCHANGED <<queue, writing, done, hubVars, poolVars>>
\* ... is put back into the index.
RestoreAdd(s) ==
    /\ sock[s] = "add"
    /\ GoesOn(s, "replay") /\ indexed' = TRUE
    /\ UNCHANGED <<queue, writing, done, hubVars, pool, onDuty, ping>>

\* The state of the ride, if Redis has one, is queued if there is room, and
\* the write pump begins.
Replay(s) ==
    /\ sock[s] = "replay"
    /\ GoesOn(s, "open") /\ writing' = writing \cup {s}
    /\ \/ HasRoom(s) /\ Enqueue(s)
       \/ UNCHANGED queue
    /\ UNCHANGED <<done, hubVars, poolVars>>

-----------------------------------------------------------------------------
(* The write pump, and the reader of a driver's location updates.           *)

PumpWrites(s) ==
    /\ s \in writing /\ queue[s] > 0
    /\ queue' = [queue EXCEPT ![s] = @ - 1]
    /\ UNCHANGED <<sock, writing, done, hubVars, poolVars>>

\* The pump ends when told to, and when a write fails; what is queued stays
\* unwritten.  A customer's handler is its pump, a driver's reads on.
PumpStops(s) ==
    /\ s \in writing /\ writing' = writing \ {s}
    /\ IF s \in CustomerSockets THEN GoesOn(s, "ending") ELSE UNCHANGED sock
    /\ UNCHANGED <<queue, done, hubVars, poolVars>>

\* The connection is closed, or nothing was read from it until the deadline.
ReadFails(s) ==
    /\ sock[s] = "open" /\ done' = done \cup {s}
    /\ IF s \in DriverSockets THEN GoesOn(s, "ending") ELSE UNCHANGED sock
    /\ UNCHANGED <<queue, writing, hubVars, poolVars>>

\* A refused location update (off duty, or implausible; the third
\* implausible one suspends the driver) is answered through the queue: the
\* reader WAITS for room, for ever when no pump takes from the queue.
UpdateRefused(s) ==
    /\ s \in DriverSockets /\ sock[s] = "open"
    /\ IF HasRoom(s) THEN Enqueue(s) /\ UNCHANGED sock
       ELSE GoesOn(s, "blocked") /\ UNCHANGED queue
    /\ onDuty' \in {onDuty, FALSE}
    /\ UNCHANGED <<writing, done, hubVars, pool, indexed, ping>>
ReaderResumes(s) ==
    /\ sock[s] = "blocked" /\ HasRoom(s)
    /\ Enqueue(s) /\ GoesOn(s, "open")
    /\ UNCHANGED <<writing, done, hubVars, poolVars>>

-----------------------------------------------------------------------------
(* Ending.                                                                  *)

\* Hub.UnregisterDriver, Hub.UnregisterCustomer: by id, whichever client.
Unregister(s) ==
    LET x == RoleOf(s) IN
    /\ hub' = [hub EXCEPT ![x] = None]
    /\ taken' = [taken EXCEPT ![x] = @ \/ (newest[x] # s /\ hub[x] # None)]

CustomerGone(s) ==
    /\ s \in CustomerSockets /\ sock[s] = "ending"
    /\ Unregister(s) /\ GoesOn(s, "gone")
    /\ UNCHANGED <<queue, writing, done, newest, missed, poolVars>>

DriverGone(s) ==
    /\ s \in DriverSockets /\ sock[s] = "ending"
    /\ Unregister(s) /\ GoesOn(s, "clear")
    /\ UNCHANGED <<queue, writing, done, newest, missed, poolVars>>

\* clearDriverPresence: a driver without a ride ...
ClearRead(s) ==
    /\ sock[s] = "clear"
    /\ GoesOn(s, IF pool = "riding" THEN "gone" ELSE "remove")
    /\ UNCHANGED <<queue, writing, done, hubVars, poolVars>>
\* ... leaves the index, though another socket of theirs may be open.
ClearRemove(s) ==
    /\ sock[s] = "remove"
    /\ GoesOn(s, "gone") /\ indexed' = FALSE
    /\ UNCHANGED <<queue, writing, done, hubVars, pool, onDuty, ping>>

-----------------------------------------------------------------------------
(* Messages, pings, and the rest of the system.                             *)

\* SendToDriver, SendToCustomer through Redis: every process that has a
\* client of that id puts the message into its queue, if there is room.
\* With the app connected it is "lost" when the client of that connection
\* is not the one registered.
Push(x) ==
    LET c == hub[x]
        n == newest[x] IN
    /\ IF c # None /\ HasRoom(c) THEN Enqueue(c) ELSE UNCHANGED queue
    /\ missed' = [missed EXCEPT ![x] =
          IF n = None \/ ~Connected(n) THEN "no"
          ELSE IF c # n THEN "lost"
          ELSE IF HasRoom(n) THEN "no" ELSE "full"]
    /\ UNCHANGED <<sock, writing, done, hub, newest, taken, poolVars>>

\* UpdateLocation, over the socket or over HTTP: of a driver whose profile
\* is online and APPROVED a plausible location is accepted, ...
PingRead ==
    /\ ping = "none" /\ onDuty
    /\ ping' = "write"
    /\ UNCHANGED <<sock, queue, writing, done, hubVars, pool, onDuty, indexed>>

\* Mutant: the index is only written when the driver has moved 15 m.
MutPingWrite ==
    /\ ping = "write" /\ ping' = "none"
    /\ indexed' \in {indexed, TRUE}
    /\ UNCHANGED <<sock, queue, writing, done, hubVars, pool, onDuty>>

\* ... stored, and the index written, on EVERY ping;
PingWrite ==
    /\ ping = "write" /\ ping' = "none"
    /\ indexed' = TRUE
    /\ UNCHANGED <<sock, queue, writing, done, hubVars, pool, onDuty>>

\* ... unless Redis fails, which is ignored, or the request dies.
PingFails ==
    /\ ping = "write" /\ ping' = "none"
    /\ UNCHANGED <<sock, queue, writing, done, hubVars, pool, onDuty, indexed>>

\* External: rides begin and end, the driver goes online and offline and is
\* suspended and reinstated.
PoolMoves ==
    /\ pool' \in {"off", "idle", "riding"} /\ onDuty' \in BOOLEAN
    /\ <<pool, onDuty>>' # <<pool, onDuty>>
    /\ indexed' \in {indexed, FALSE}
    /\ UNCHANGED <<sock, queue, writing, done, hubVars, ping>>

SocketStep(s) ==
    \/ RestoreRead(s) \/ RestoreAdd(s) \/ Replay(s)
    \/ CustomerGone(s) \/ DriverGone(s) \/ ClearRead(s) \/ ClearRemove(s)
SocketsNext ==
    \/ \E s \in AllSockets :
          \/ DriverWS(s) \/ CustomerWS(s) \/ SocketStep(s)
          \/ PumpWrites(s) \/ PumpStops(s) \/ ReadFails(s)
          \/ UpdateRefused(s) \/ ReaderResumes(s)
    \/ \E x \in Roles : Push(x)
    \/ PingRead \/ PingWrite \/ PingFails \/ PoolMoves

\* An online app goes on pinging, its location is not implausible for ever,
\* and Redis does not fail for ever.
SocketsFairness ==
    /\ WF_socketVars(PingRead)
    /\ SF_socketVars(PingWrite)

-----------------------------------------------------------------------------
(* Properties.                                                              *)

\* A message sent to somebody whose app is connected reaches the queue of
\* that connection, whatever handlers of older connections do meanwhile,
\* unless the queue is full or one of them has ended after the newer had
\* registered and removed it (Hub.Register*, Unregister*, SendTo*).  A queued
\* message is written unless a write of that connection fails (PumpStops).
HeardUnlessTakenOver == \A x \in Roles : missed[x] = "lost" => taken[x]

\* "An online driver who is pinging is always discoverable" (UpdateLocation):
\* whatever the handlers of old and new sockets remove, a driver who stays
\* online, approved, available and without a ride comes back into the index.
DiscoverableAgain ==
    (pool = "idle" /\ onDuty) ~> (indexed \/ pool # "idle" \/ ~onDuty)

\* What CustomerWS promises, that an app receives the events of its ride: the
\* newest open connection is the one registered.  An older connection that
\* ends removes it.
NewestIsRegistered ==
    \A x \in Roles :
        newest[x] # None /\ Connected(newest[x]) => hub[x] = newest[x]
=============================================================================
