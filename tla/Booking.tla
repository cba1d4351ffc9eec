------------------------------ MODULE Booking -------------------------------
(***************************************************************************)
(* One customer books: CreateRide, the Redis lock and pointer that are to  *)
(* keep it to one ride at a time, the searches that a ride starts, and     *)
(* everything that lets the pointer go (CancelRide, giveUp, the end of a   *)
(* trip, the app's look at its active ride).                               *)
(*                                                                         *)
(* The rows know no rule of one live ride for each customer, so the two    *)
(* Redis keys carry it: the lock lapses, and the pointer is deleted by     *)
(* customer, whichever ride it names by then.  Every statement is a step;  *)
(* a request's context may die, and the process may crash and recover.     *)
(*                                                                         *)
(* A ride is SEARCHING, MATCHED (it has a driver) or OVER; its search is   *)
(* running, releasing or not there.  Dispatch and RideTrip have the whole. *)
(***************************************************************************)
EXTENDS Naturals, FiniteSets, TLC, Absent

CONSTANTS
    Rides, Requests,
    Keys,         \* idempotency keys of the app
    MaxCrashes    \* bound

ASSUME BookingAssumption ==
    /\ MaxCrashes \in Nat
    /\ None \notin Rides \cup Requests \cup Keys
    /\ None \notin {"SEARCHING", "MATCHED", "OVER"}

VARIABLES
    status,     \* rides.status; None: not inserted yet
    saved,      \* ride_command_idempotency: key -> ride
    lock,       \* Redis customer:<id>:creating; its value names the owner here
    pointer,    \* Redis customer:<id>:active_ride, without TTL
    request,    \* the customer's requests in flight
    polled,     \* GetActiveRide has found a ride that is over
    search,     \* runLoop of a ride: its first one, and recovery's
    ending,     \* rides that ended, their handler yet to release them
    recovery,   \* recoverOrphanedRides
    crashes,
    loose,      \* ghost: live rides whose lock or pointer was lost
    abandoned   \* ghost: rides whose search outlived its deadline, or that
                \* recovery could not read
bookingVars == <<status, saved, lock, pointer, request, polled, search,
                 ending, recovery, crashes, loose, abandoned>>

Loops == {"first", "again"}
Over(r) == status[r] = "OVER"
Live(r) == status[r] \in {"SEARCHING", "MATCHED"}
NoRequest_ == [pc |-> "idle", key |-> None, ride |-> None, dead |-> FALSE]

To(q, pc) == request' = [request EXCEPT ![q].pc = pc]
Done(q) == request' = [request EXCEPT ![q] = NoRequest_]
SearchTo(r, k, pc) == search' = [search EXCEPT ![<<r, k>>] = pc]

\* DEL customer:<id>:active_ride.
DropPointer ==
    /\ pointer' = None
    /\ loose' = loose \cup {r \in {pointer} \ {None} : Live(r)}
\* A request between its insert and its pointer has only the lock.
Exposed == {request[q].ride : q \in {p \in Requests : /\ request[p].pc = "point"
                                                      /\ lock = p}}
DropLock == lock' = None /\ loose' = loose \cup Exposed

BookingInit ==
    /\ status = [r \in Rides |-> None]
    /\ saved = [k \in Keys |-> None]
    /\ lock = None /\ pointer = None
    /\ request = [q \in Requests |-> NoRequest_]
    /\ polled = FALSE
    /\ search = [l \in Rides \X Loops |-> "none"]
    /\ ending = {}
    /\ recovery = [pc |-> "off", rides |-> {}]
    /\ crashes = 0
    /\ loose = {} /\ abandoned = {}

-----------------------------------------------------------------------------
(* CreateRide (ride/service.go:93).                                        *)

CreateLookUp(q, k) ==
    /\ request[q].pc = "idle"
    /\ saved[k] = None      \* a known key is answered with its ride
    /\ request' = [request EXCEPT ![q] = [NoRequest_ EXCEPT !.pc = "lock",
                                                            !.key = k]]
    /\ UNCHANGED <<status, saved, lock, pointer, polled, search, ending,
                   recovery, crashes, abandoned, loose>>

\* SET NX EX 10.
CreateLock(q) ==
    /\ request[q].pc = "lock"
    /\ IF lock = None THEN lock' = q /\ To(q, "guard")
                      ELSE Done(q) /\ UNCHANGED lock
    /\ UNCHANGED <<status, saved, pointer, polled, search, ending, recovery,
                   crashes, abandoned, loose>>

\* Mutant: the lock alone.
MutCreateGuard(q) ==
    /\ request[q].pc = "guard"
    /\ To(q, "insert") \/ To(q, "unlock")
    /\ UNCHANGED <<status, saved, lock, pointer, polled, search, ending,
                   recovery, crashes, abandoned, loose>>

\* The pointer; and refusals that read no booking state (daily cancels,
\* pricing).
CreateGuard(q) ==
    /\ request[q].pc = "guard"
    /\ \/ pointer = None /\ To(q, "insert")
       \/ To(q, "unlock")
    /\ UNCHANGED <<status, saved, lock, pointer, polled, search, ending,
                   recovery, crashes, abandoned, loose>>

CreateInsert(q) ==
    /\ request[q].pc = "insert"
    /\ \E r \in Rides :
          /\ status[r] = None
          /\ status' = [status EXCEPT ![r] = "SEARCHING"]
          /\ request' = [request EXCEPT ![q].pc = "point", ![q].ride = r]
          /\ loose' = IF lock = q THEN loose ELSE loose \cup {r}
    /\ UNCHANGED <<saved, lock, pointer, polled, search, ending, recovery,
                   crashes, abandoned>>

\* RideState and the pointer, whose errors are only logged; then StartSearch,
\* a goroutine of its own, whatever became of the request.
CreatePoint(q) ==
    LET r == request[q].ride IN
    /\ request[q].pc = "point"
    /\ IF request[q].dead
       THEN loose' = loose \cup {r} /\ UNCHANGED pointer
       ELSE /\ pointer' = r
            /\ loose' = loose \cup {s \in {pointer} \ {None, r} : Live(s)}
    /\ SearchTo(r, "first", "on")
    /\ To(q, "save")
    /\ UNCHANGED <<status, saved, lock, polled, ending, recovery, crashes,
                   abandoned>>

\* SaveRideIdempotency: ON CONFLICT DO NOTHING.
CreateSave(q) ==
    LET k == request[q].key IN
    /\ request[q].pc = "save"
    /\ saved' = IF saved[k] = None /\ ~request[q].dead
                THEN [saved EXCEPT ![k] = request[q].ride] ELSE saved
    /\ To(q, "unlock")
    /\ UNCHANGED <<status, lock, pointer, polled, search, ending, recovery,
                   crashes, abandoned, loose>>

\* The deferred DEL, of whoever's lock it is by now.
CreateUnlock(q) ==
    /\ request[q].pc = "unlock"
    /\ IF request[q].dead THEN UNCHANGED <<lock, loose>> ELSE DropLock
    /\ Done(q)
    /\ UNCHANGED <<status, saved, pointer, polled, search, ending, recovery,
                   crashes, abandoned>>

LockLapses ==
    /\ lock # None
    /\ DropLock
    /\ UNCHANGED <<status, saved, pointer, request, polled, search, ending,
                   recovery, crashes, abandoned>>

\* The client is gone: the statements to come fail.  Before the insert that
\* is the end of the request (its lock stays until it lapses).
Abort(q) ==
    /\ request[q].pc # "idle" /\ ~request[q].dead
    /\ IF request[q].pc \in {"point", "save", "unlock"}
       THEN request' = [request EXCEPT ![q].dead = TRUE]
       ELSE Done(q)
    /\ UNCHANGED <<status, saved, lock, pointer, polled, search, ending,
                   recovery, crashes, abandoned, loose>>

-----------------------------------------------------------------------------
(* CancelRide (413), and what else ends a ride and releases its customer.  *)

\* A ride that is over is released again.  (MATCHED: one in progress is
\* refused, which changes nothing.)
CancelRead(q, r) ==
    /\ request[q].pc = "idle"
    /\ status[r] # None
    /\ request' = [request EXCEPT ![q] =
           [NoRequest_ EXCEPT !.pc = IF Over(r) THEN "release" ELSE "cancel",
                              !.ride = r]]
    /\ UNCHANGED <<status, saved, lock, pointer, polled, search, ending,
                   recovery, crashes, abandoned, loose>>

CancelWrite(q) ==
    LET r == request[q].ride IN
    /\ request[q].pc = "cancel"
    /\ IF Over(r) THEN Done(q) /\ UNCHANGED status
       ELSE /\ status' = [status EXCEPT ![r] = "OVER"]
            /\ To(q, "release")
    /\ UNCHANGED <<saved, lock, pointer, polled, search, ending, recovery,
                   crashes, abandoned, loose>>

\* releaseRideRedisState.
CancelRelease(q) ==
    /\ request[q].pc = "release"
    /\ DropPointer
    /\ Done(q)
    /\ UNCHANGED <<status, saved, lock, polled, search, ending, recovery,
                   crashes, abandoned>>

\* CompleteRide, the driver's cancellation, the negotiation timer, the pickup
\* expiry, the finalizer: the row first.
TripEnds(r) ==
    /\ status[r] = "MATCHED"
    /\ status' = [status EXCEPT ![r] = "OVER"]
    /\ ending' = ending \cup {r}
    /\ UNCHANGED <<saved, lock, pointer, request, polled, search, recovery,
                   crashes, abandoned, loose>>

EndReleases(r) ==
    /\ r \in ending
    /\ ending' = ending \ {r}
    /\ DropPointer
    /\ UNCHANGED <<status, saved, lock, request, polled, search, recovery,
                   crashes, abandoned>>

-----------------------------------------------------------------------------
(* The app's GetActiveRide (198): an over ride is taken off the pointer.   *)

\* Mutant: an over ride is reported, and its pointer left where it is.
MutPollFind ==
    /\ ~polled /\ pointer # None /\ Over(pointer)
    /\ UNCHANGED bookingVars

PollFind ==
    /\ ~polled /\ pointer # None /\ Over(pointer)
    /\ polled' = TRUE
    /\ UNCHANGED <<status, saved, lock, pointer, request, search, ending,
                   recovery, crashes, abandoned, loose>>

PollDrop ==
    /\ polled
    /\ DropPointer
    /\ polled' = FALSE
    /\ UNCHANGED <<status, saved, lock, request, search, ending, recovery,
                   crashes, abandoned>>

-----------------------------------------------------------------------------
(* The search (matching/engine.go), by its effect on the booking.          *)

\* The status is read before every round.
SearchStops(r, k) ==
    /\ search[<<r, k>>] = "on" /\ status[r] # "SEARCHING"
    /\ SearchTo(r, k, "none")
    /\ UNCHANGED <<status, saved, lock, pointer, request, polled, ending,
                   recovery, crashes, abandoned, loose>>

\* Mutant: the loop goes on after onAccepted.
MutSearchMatches(r, k) ==
    /\ search[<<r, k>>] = "on"
    /\ status' = IF status[r] = "SEARCHING"
                 THEN [status EXCEPT ![r] = "MATCHED"] ELSE status
    /\ UNCHANGED <<saved, lock, pointer, request, polled, search, ending,
                   recovery, crashes, abandoned, loose>>

\* The deadline passes in the last round, or in onAccepted: every statement
\* left fails, and the loop ends.
SearchOutlives(r, k) ==
    /\ search[<<r, k>>] = "on"
    /\ abandoned' = abandoned \cup {r}
    /\ SearchTo(r, k, "none")
    /\ UNCHANGED <<status, saved, lock, pointer, request, polled, ending,
                   recovery, crashes, loose>>

\* A driver accepts: onAccepted, and the loop ends.
SearchMatches(r, k) ==
    /\ search[<<r, k>>] = "on"
    /\ status' = IF status[r] = "SEARCHING"
                 THEN [status EXCEPT ![r] = "MATCHED"] ELSE status
    /\ SearchTo(r, k, "none")
    /\ UNCHANGED <<saved, lock, pointer, request, polled, ending, recovery,
                   crashes, abandoned, loose>>

\* giveUp after the last round: Cancel spares rides that are over, and no
\* others; then the pointer of the customer that was read.
GiveUpCancel(r, k) ==
    /\ search[<<r, k>>] = "on"
    /\ status' = [status EXCEPT ![r] = "OVER"]
    /\ SearchTo(r, k, "release")
    /\ UNCHANGED <<saved, lock, pointer, request, polled, ending, recovery,
                   crashes, abandoned, loose>>

GiveUpRelease(r, k) ==
    /\ search[<<r, k>>] = "release"
    /\ DropPointer
    /\ SearchTo(r, k, "none")
    /\ UNCHANGED <<status, saved, lock, request, polled, ending, recovery,
                   crashes, abandoned>>

-----------------------------------------------------------------------------
(* Restart (cmd/server/main.go:1725).                                      *)

Crash ==
    /\ crashes < MaxCrashes
    /\ crashes' = crashes + 1
    /\ loose' = loose \cup {request[q].ride : q \in {p \in Requests :
                                  request[p].pc = "point"}}
    /\ request' = [q \in Requests |-> NoRequest_]
    /\ polled' = FALSE
    /\ search' = [l \in DOMAIN search |-> "none"]
    /\ ending' = {}
    /\ recovery' = [pc |-> "scan", rides |-> {}]
    /\ UNCHANGED <<status, saved, lock, pointer, abandoned>>

\* Mutant: cancels what it can, and starts no search again.
MutRecoveryScan ==
    /\ recovery.pc = "scan"
    /\ \E cancelled \in SUBSET {r \in Rides : status[r] = "MATCHED"} :
          IF cancelled = {} THEN UNCHANGED <<pointer, loose>> ELSE DropPointer
    /\ recovery' = [pc |-> "restart", rides |-> {}]
    /\ UNCHANGED <<status, saved, lock, request, polled, search, ending,
                   crashes, abandoned>>

\* Two seconds after the start, with requests already coming in: SEARCHING
\* rides of the last two hours, but for those whose rows do not scan, or all
\* if the query fails.  (NEGOTIATING ones stay as they are: the UPDATE names a
\* column that does not exist, and both keys are deleted all the same.)
RecoveryScan ==
    LET searching == {r \in Rides : status[r] = "SEARCHING"} IN
    /\ recovery.pc = "scan"
    /\ \E cancelled \in SUBSET {r \in Rides : status[r] = "MATCHED"} :
          IF cancelled = {} THEN UNCHANGED <<pointer, loose>> ELSE DropPointer
    /\ \E unread \in SUBSET searching :
          /\ recovery' = [pc |-> "restart", rides |-> searching \ unread]
          /\ abandoned' = abandoned \cup unread
    /\ UNCHANGED <<status, saved, lock, request, polled, search, ending,
                   crashes>>

\* Every one of them, also one whose own request has just begun its search.
RecoveryRestarts(r) ==
    /\ recovery.pc = "restart" /\ r \in recovery.rides
    /\ SearchTo(r, "again", "on")
    /\ recovery' = [recovery EXCEPT !.rides = @ \ {r}]
    /\ UNCHANGED <<status, saved, lock, pointer, request, polled, ending,
                   crashes, abandoned, loose>>

RequestStep(q) ==
    \/ CreateLock(q) \/ CreateGuard(q) \/ CreateInsert(q) \/ CreatePoint(q)
    \/ CreateSave(q) \/ CreateUnlock(q) \/ CancelWrite(q) \/ CancelRelease(q)
SearchStep(r, k) ==
    \/ SearchStops(r, k) \/ SearchMatches(r, k) \/ SearchOutlives(r, k)
    \/ GiveUpCancel(r, k) \/ GiveUpRelease(r, k)
PollStep == PollFind \/ PollDrop
BookingNext ==
    \/ \E q \in Requests :
          \/ RequestStep(q) \/ Abort(q)
          \/ \E k \in Keys : CreateLookUp(q, k)
          \/ \E r \in Rides : CancelRead(q, r)
    \/ LockLapses
    \/ \E r \in Rides : TripEnds(r) \/ EndReleases(r)
    \/ PollStep
    \/ \E r \in Rides, k \in Loops : SearchStep(r, k)
    \/ Crash \/ RecoveryScan \/ \E r \in Rides : RecoveryRestarts(r)

\* The app asks for its active ride whenever it comes to the front.
BookingFairness == WF_bookingVars(PollStep)

-----------------------------------------------------------------------------
\* A customer has two live rides only if one of them lost its guard: its
\* request's lock lapsed or was deleted before the pointer stood, the
\* pointer's write was lost, or another ride's release deleted or replaced
\* the pointer (ride/service.go:101, 117).  Nothing else books twice.
TwoRidesOnlyIfLoose ==
    \A r, s \in Rides : Live(r) /\ Live(s) /\ r # s => {r, s} \cap loose # {}

\* What the comment of CreateRide says of its lock and pointer: no duplicate.
\* It does not hold: see loose.
OneLiveRide == \A r, s \in Rides : Live(r) /\ Live(s) => r = s

\* The search of a ride lives in memory only (main.go:1716), and yet no ride
\* is left searching with nobody at it: a search of it runs, its request is
\* about to start one, or recovery after a crash is, unless a search outlived
\* its deadline or recovery did not read the row.
NoRideIsOrphaned ==
    \A r \in Rides : status[r] = "SEARCHING" =>
        \/ \E k \in Loops : search[<<r, k>>] = "on"
        \/ \E q \in Requests : request[q].pc = "point" /\ request[q].ride = r
        \/ recovery.pc = "scan" \/ r \in recovery.rides \/ r \in abandoned

\* Nobody is locked out for good: a pointer that names a ride that is over
\* goes away (service.go:424, engine.go:257).
NotLockedOut == []<>~(pointer # None /\ Over(pointer))
=============================================================================
