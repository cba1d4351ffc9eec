------------------------------ MODULE Dispatch ------------------------------
(***************************************************************************)
(* The search for a driver (internal/matching/engine.go): one goroutine    *)
(* for each booked ride offers it to the available drivers, one at a time, *)
(* until one accepts, every driver has been tried, or the deadline passes. *)
(*                                                                         *)
(* It races with the drivers' replies, which reach it through a channel    *)
(* that exists only while an offer is open, with the other searches, which *)
(* it meets at the drivers' locks in Redis, and with the customer, who may *)
(* cancel (CancelRide of internal/ride/service.go) between any two of its  *)
(* statements.  Once the deadline has passed every statement on the        *)
(* search's context fails, and the loop goes on.                           *)
(*                                                                         *)
(* Abstracted: distance and score (any set of available drivers may be     *)
(* found, in any order), the decline counters, pushes, the event log.      *)
(***************************************************************************)
EXTENDS Integers, FiniteSets, RideStatus

CONSTANTS
    Rides, Customers, Drivers,
    CustomerOf,      \* who books each ride
    Near,            \* the drivers within the widest radius of each pickup
    Impatient,       \* bound: the rides whose customer may cancel
    Slow,            \* bound: the searches that may outlive their deadline
    MaxAttempts,     \* cfg.Matching.MaxAttempts
    None

ASSUME DispatchAssumption ==
    /\ CustomerOf \in [Rides -> Customers]
    /\ Near \in [Rides -> SUBSET Drivers]
    /\ Impatient \subseteq Rides /\ Slow \subseteq Rides
    /\ MaxAttempts \in Nat \ {0}
    /\ None \notin Status \cup Rides \cup Drivers

VARIABLES
    ride,          \* the rides table: status and driver_id
    search,        \* the search goroutine of each ride: its local variables
    expired,       \* the deadline of the search's context has passed
    channel,       \* acceptChannels: at most one signal, while an offer is open
    pending,       \* Redis ride:<id>:pending_driver
    lock,          \* Redis matching lock of each driver, and who set it
    unlocked,      \* history: the searches whose open offer lost its lock
    driverRide,    \* Redis active_ride of each driver, set while ON_TRIP
    customerRide,  \* Redis active_ride of each customer
    reply,         \* each driver's answer to each ride
    cancel         \* the customer's CancelRide request, for each ride

vars == <<ride, search, expired, channel, pending, lock, unlocked, driverRide,
          customerRide, reply, cancel>>

-----------------------------------------------------------------------------
Row == [status : Status \cup {None}, driver : Drivers \cup {None}]

\* Where runLoop is, what it has tried and has still to try in this round,
\* whom it is offering the ride to, and whether it gives up on a context of
\* its own (context.WithoutCancel).
Points == {"off", "wait", "check", "list", "pick", "offer", "listen", "open",
           "declined", "accepted", "assign", "match", "negotiate", "occupy",
           "giveUp", "release", "done"}
Search == [pc : Points, attempt : 0..MaxAttempts, tried : SUBSET Drivers,
           queue : SUBSET Drivers, driver : Drivers \cup {None},
           detached : BOOLEAN]
NoSearch == [pc |-> "off", attempt |-> 0, tried |-> {}, queue |-> {},
             driver |-> None, detached |-> FALSE]
Done == [NoSearch EXCEPT !.pc = "done"]

\* A channel is None until it is stored, and then the set of what it buffers.
Signal == [driver : Drivers, accepted : BOOLEAN]

\* Between SetNX of the lock and its deferred Del.
Offering == {"offer", "listen", "open", "declined", "accepted"}

ContextOk(r) == search[r].detached \/ ~expired[r]
GoTo(r, pc) == search' = [search EXCEPT ![r].pc = pc]
NotOver(r) == ride[r].status \notin Terminal

-----------------------------------------------------------------------------
Init ==
    /\ ride = [r \in Rides |-> [status |-> None, driver |-> None]]
    /\ search = [r \in Rides |-> NoSearch]
    /\ expired = [r \in Rides |-> FALSE]
    /\ channel = [r \in Rides |-> None]
    /\ pending = [r \in Rides |-> None]
    /\ lock = [d \in Drivers |-> None]
    /\ unlocked = {}
    /\ driverRide = [d \in Drivers |-> None]
    /\ customerRide = [c \in Customers |-> None]
    /\ reply = [d \in Drivers |-> [r \in Rides |-> "none"]]
    /\ cancel = [r \in Rides |-> [pc |-> "idle", driver |-> None]]

\* CreateRide, from its guard on the pointer to StartSearch.
CreateRide(r) ==
    /\ ride[r].status = None /\ customerRide[CustomerOf[r]] = None
    /\ ride' = [ride EXCEPT ![r].status = "SEARCHING"]
    /\ customerRide' = [customerRide EXCEPT ![CustomerOf[r]] = r]
    /\ GoTo(r, "check")
    /\ UNCHANGED <<expired, channel, pending, lock, unlocked, driverRide,
                   reply, cancel>>

\* context.WithTimeout(GiveUpSeconds).
DeadlinePasses(r) ==
    /\ search[r].pc \notin {"off", "done"} /\ ~expired[r] /\ r \in Slow
    /\ expired' = [expired EXCEPT ![r] = TRUE]
    /\ UNCHANGED <<ride, search, channel, pending, lock, unlocked, driverRide,
                   customerRide, reply, cancel>>

-----------------------------------------------------------------------------
(* runLoop: one round of the search.                                       *)

\* Mutant: counts the rounds and never stops.
MutNextAttempt(r) ==
    search' = [search EXCEPT ![r] =
        [@ EXCEPT !.attempt = @ + 1, !.queue = {}, !.driver = None,
                  !.pc = "wait"]]

\* The next round, or, with none left, giveUp on the search's own context.
NextAttempt(r) ==
    search' = [search EXCEPT ![r] =
        LET n == search[r].attempt + 1 IN
        [@ EXCEPT !.attempt = n, !.queue = {}, !.driver = None,
                  !.pc = IF n < MaxAttempts THEN "wait" ELSE "giveUp"]]

\* Between two rounds: the wave's interval, or the deadline.
Wait(r) ==
    /\ search[r].pc = "wait"
    /\ \/ GoTo(r, "check")
       \/ /\ expired[r]
          /\ search' = [search EXCEPT ![r].pc = "giveUp",
                                      ![r].detached = TRUE]
    /\ UNCHANGED <<ride, expired, channel, pending, lock, unlocked, driverRide,
                   customerRide, reply, cancel>>

\* "Stop if the ride is no longer searchable."  When the read itself fails
\* the loop goes on.
CheckStatus(r) ==
    /\ search[r].pc = "check"
    /\ IF ContextOk(r) /\ ride[r].status # "SEARCHING"
       THEN search' = [search EXCEPT ![r] = Done]
       ELSE GoTo(r, "list")
    /\ UNCHANGED <<ride, expired, channel, pending, lock, unlocked, driverRide,
                   customerRide, reply, cancel>>

\* searchCandidates: some of the AVAILABLE drivers not yet tried.  The list is
\* read once for the whole round: by the time a driver's turn comes another
\* search may have taken it.  An error ends the loop.
ListCandidates(r) ==
    /\ search[r].pc = "list"
    /\ IF ContextOk(r)
       THEN \/ \E ds \in SUBSET {d \in Near[r] \ search[r].tried :
                                     driverRide[d] = None} :
                   /\ ds # {}
                   /\ search' = [search EXCEPT ![r].pc = "pick",
                                               ![r].queue = ds]
            \/ NextAttempt(r)
       ELSE GoTo(r, "giveUp")
    /\ UNCHANGED <<ride, expired, channel, pending, lock, unlocked, driverRide,
                   customerRide, reply, cancel>>

\* A candidate whose socket is gone is passed over and may be found again.
SkipOffline(r, d) ==
    /\ search[r].pc = "pick" /\ d \in search[r].queue
    /\ search' = [search EXCEPT ![r].queue = @ \ {d}]
    /\ UNCHANGED <<ride, expired, channel, pending, lock, unlocked, driverRide,
                   customerRide, reply, cancel>>

QueueDone(r) ==
    /\ search[r].pc = "pick" /\ search[r].queue = {}
    /\ NextAttempt(r)
    /\ UNCHANGED <<ride, expired, channel, pending, lock, unlocked, driverRide,
                   customerRide, reply, cancel>>

-----------------------------------------------------------------------------
(* offerToDriver.                                                          *)

\* Mutant: SET without NX.
MutLockDriver(r, d) ==
    /\ search[r].pc = "pick" /\ d \in search[r].queue
    /\ lock' = [lock EXCEPT ![d] = r]
    /\ search' = [search EXCEPT ![r].queue = @ \ {d},
                                ![r].tried = @ \cup {d},
                                ![r].driver = d, ![r].pc = "offer"]
    /\ UNCHANGED <<ride, expired, channel, pending, unlocked, driverRide,
                   customerRide, reply, cancel>>

\* SET NX on the driver: with the lock taken, or the context over, the
\* candidate counts as tried.
LockDriver(r, d) ==
    /\ search[r].pc = "pick" /\ d \in search[r].queue
    /\ \/ /\ lock[d] = None /\ ContextOk(r)
          /\ lock' = [lock EXCEPT ![d] = r]
          /\ search' = [search EXCEPT ![r].queue = @ \ {d},
                                      ![r].tried = @ \cup {d},
                                      ![r].driver = d, ![r].pc = "offer"]
       \/ /\ lock[d] # None \/ ~ContextOk(r)
          /\ search' = [search EXCEPT ![r].queue = @ \ {d},
                                      ![r].tried = @ \cup {d}]
          /\ UNCHANGED lock
    /\ UNCHANGED <<ride, expired, channel, pending, unlocked, driverRide,
                   customerRide, reply, cancel>>

\* The driver is told, and may answer from here on.
SetPending(r) ==
    /\ search[r].pc = "offer"
    /\ pending' = [pending EXCEPT ![r] =
                       IF ContextOk(r) THEN search[r].driver ELSE @]
    /\ GoTo(r, "listen")
    /\ UNCHANGED <<ride, expired, channel, lock, unlocked, driverRide,
                   customerRide, reply, cancel>>

\* The channel is stored only now: an answer sent before is dropped.
Listen(r) ==
    /\ search[r].pc = "listen"
    /\ channel' = [channel EXCEPT ![r] = {}]
    /\ GoTo(r, "open")
    /\ UNCHANGED <<ride, expired, pending, lock, unlocked, driverRide,
                   customerRide, reply, cancel>>

\* Mutant: without the check of the signal's driver.
MutReceive(r) ==
    /\ search[r].pc = "open"
    /\ \E signal \in channel[r] :
           GoTo(r, IF signal.accepted THEN "accepted" ELSE "declined")
    /\ channel' = [channel EXCEPT ![r] = {}]
    /\ UNCHANGED <<ride, expired, pending, lock, unlocked, driverRide,
                   customerRide, reply, cancel>>

\* Only the driver the ride is offered to may answer.
Receive(r) ==
    /\ search[r].pc = "open"
    /\ \E signal \in channel[r] :
           IF signal.driver = search[r].driver
           THEN GoTo(r, IF signal.accepted THEN "accepted" ELSE "declined")
           ELSE UNCHANGED search
    /\ channel' = [channel EXCEPT ![r] = {}]
    /\ UNCHANGED <<ride, expired, pending, lock, unlocked, driverRide,
                   customerRide, reply, cancel>>

\* Mutant: an offer is only ended by its driver or by the search's deadline.
MutOfferTimeout(r) ==
    /\ search[r].pc = "open" /\ expired[r]
    /\ pending' = [pending EXCEPT ![r] = IF ContextOk(r) THEN None ELSE @]
    /\ GoTo(r, "declined")
    /\ UNCHANGED <<ride, expired, channel, lock, unlocked, driverRide,
                   customerRide, reply, cancel>>

OfferTimeout(r) ==
    /\ search[r].pc = "open"
    /\ pending' = [pending EXCEPT ![r] = IF ContextOk(r) THEN None ELSE @]
    /\ GoTo(r, "declined")
    /\ UNCHANGED <<ride, expired, channel, lock, unlocked, driverRide,
                   customerRide, reply, cancel>>

\* The search whose open offer goes on without its lock when d's is deleted.
Unlocks(d) == {s \in {lock[d]} \cap Rides :
                   search[s].driver = d /\ search[s].pc \in Offering}

\* The deferred calls: the channel is deleted, and the lock, whoever holds
\* it, unless the context is over.
CloseOffer(r) ==
    LET d == search[r].driver IN
    /\ search[r].pc \in {"declined", "accepted"}
    /\ channel' = [channel EXCEPT ![r] = None]
    /\ IF ContextOk(r)
       THEN /\ lock' = [lock EXCEPT ![d] = None]
            /\ unlocked' = (unlocked \cup Unlocks(d)) \ {r}
       ELSE /\ unlocked' = unlocked \ {r}
            /\ UNCHANGED lock
    /\ GoTo(r, IF search[r].pc = "accepted" THEN "assign" ELSE "pick")
    /\ UNCHANGED <<ride, expired, pending, driverRide, customerRide, reply,
                   cancel>>

-----------------------------------------------------------------------------
(* onAccepted: every result is ignored.                                    *)

Assign(r) ==
    /\ search[r].pc = "assign"
    /\ ride' = IF ContextOk(r)
               THEN [ride EXCEPT ![r].driver = search[r].driver] ELSE ride
    /\ GoTo(r, "match")
    /\ UNCHANGED <<expired, channel, pending, lock, unlocked, driverRide,
                   customerRide, reply, cancel>>

Advance(r, from, to) ==
    ride' = IF ContextOk(r) /\ ride[r].status = from
            THEN [ride EXCEPT ![r].status = to] ELSE ride

\* Mutant: an offer accepted is enough.
MutMatch(r) ==
    /\ search[r].pc = "match"
    /\ GoTo(r, "negotiate")
    /\ UNCHANGED <<ride, expired, channel, pending, lock, unlocked, driverRide,
                   customerRide, reply, cancel>>

Match(r) ==
    /\ search[r].pc = "match"
    /\ Advance(r, "SEARCHING", "MATCHED")
    /\ GoTo(r, "negotiate")
    /\ UNCHANGED <<expired, channel, pending, lock, unlocked, driverRide,
                   customerRide, reply, cancel>>

Negotiate(r) ==
    /\ search[r].pc = "negotiate"
    /\ Advance(r, "MATCHED", "NEGOTIATING")
    /\ GoTo(r, "occupy")
    /\ UNCHANGED <<expired, channel, pending, lock, unlocked, driverRide,
                   customerRide, reply, cancel>>

\* The driver's state, its place in the geo index and its active ride.
Occupy(r) ==
    /\ search[r].pc = "occupy"
    /\ driverRide' = [driverRide EXCEPT ![search[r].driver] =
                          IF ContextOk(r) THEN r ELSE @]
    /\ search' = [search EXCEPT ![r] = Done]
    /\ UNCHANGED <<ride, expired, channel, pending, lock, unlocked,
                   customerRide, reply, cancel>>

-----------------------------------------------------------------------------
(* giveUp.                                                                 *)

\* Mutant: cancels the ride and touches Redis not at all.
MutGiveUpCancel(r) ==
    /\ search[r].pc = "giveUp"
    /\ ride' = IF ContextOk(r) /\ NotOver(r)
               THEN [ride EXCEPT ![r].status = "CANCELLED"] ELSE ride
    /\ search' = [search EXCEPT ![r] = Done]
    /\ UNCHANGED <<expired, channel, pending, lock, unlocked, driverRide,
                   customerRide, reply, cancel>>

GiveUpCancel(r) ==
    /\ search[r].pc = "giveUp"
    /\ ride' = IF ContextOk(r) /\ NotOver(r)
               THEN [ride EXCEPT ![r].status = "CANCELLED"] ELSE ride
    /\ GoTo(r, "release")
    /\ UNCHANGED <<expired, channel, pending, lock, unlocked, driverRide,
                   customerRide, reply, cancel>>

\* The pointer is deleted whichever ride it names.
GiveUpRelease(r) ==
    /\ search[r].pc = "release"
    /\ IF ContextOk(r)
       THEN /\ pending' = [pending EXCEPT ![r] = None]
            /\ customerRide' = [customerRide EXCEPT ![CustomerOf[r]] = None]
       ELSE UNCHANGED <<pending, customerRide>>
    /\ search' = [search EXCEPT ![r] = Done]
    /\ UNCHANGED <<ride, expired, channel, lock, unlocked, driverRide, reply,
                   cancel>>

-----------------------------------------------------------------------------
(* Drivers.                                                                *)

\* driverAcceptHandler up to its identity check.
AcceptRead(d, r) ==
    /\ pending[r] = d /\ reply[d][r] = "none"
    /\ reply' = [reply EXCEPT ![d][r] = "accepting"]
    /\ UNCHANGED <<ride, search, expired, channel, pending, lock, unlocked,
                   driverRide, customerRide, cancel>>

\* NotifyAccept: dropped when there is no channel, or it is full.
Send(r, d, accepted) ==
    channel' = [channel EXCEPT ![r] =
        IF @ = {} THEN {[driver |-> d, accepted |-> accepted]} ELSE @]

AcceptSignal(d, r) ==
    /\ reply[d][r] = "accepting"
    /\ reply' = [reply EXCEPT ![d][r] = "accepted"]
    /\ Send(r, d, TRUE)
    /\ UNCHANGED <<ride, search, expired, pending, lock, unlocked, driverRide,
                   customerRide, cancel>>

\* driverDeclineHandler asks for no pending offer.
Decline(d, r) ==
    /\ d \in search[r].tried /\ reply[d][r] = "none"
    /\ reply' = [reply EXCEPT ![d][r] = "declined"]
    /\ Send(r, d, FALSE)
    /\ UNCHANGED <<ride, search, expired, pending, lock, unlocked, driverRide,
                   customerRide, cancel>>

-----------------------------------------------------------------------------
(* The customer's CancelRide, and the keys' time-to-live.                  *)

CancelRead(r) ==
    /\ cancel[r].pc = "idle" /\ r \in Impatient
    /\ ride[r].status \in CustomerCancellable \cup Terminal
    /\ cancel' = [cancel EXCEPT ![r] =
           [pc |-> IF NotOver(r) THEN "write" ELSE "release",
            driver |-> ride[r].driver]]
    /\ UNCHANGED <<ride, search, expired, channel, pending, lock, unlocked,
                   driverRide, customerRide, reply>>

CancelWrite(r) ==
    /\ cancel[r].pc = "write"
    /\ \/ /\ NotOver(r)
          /\ ride' = [ride EXCEPT ![r].status = "CANCELLED"]
          /\ cancel' = [cancel EXCEPT ![r].pc = "release"]
       \/ /\ ~NotOver(r) /\ UNCHANGED ride
          /\ cancel' = [cancel EXCEPT ![r] = [pc |-> "idle", driver |-> None]]
    /\ UNCHANGED <<search, expired, channel, pending, lock, unlocked,
                   driverRide, customerRide, reply>>

\* releaseRideRedisState, with the driver the row named when it was READ.
CancelRelease(r) ==
    LET d == cancel[r].driver IN
    /\ cancel[r].pc = "release"
    /\ customerRide' = [customerRide EXCEPT ![CustomerOf[r]] = None]
    /\ pending' = [pending EXCEPT ![r] = None]
    /\ driverRide' = [e \in Drivers |-> IF e = d THEN None ELSE driverRide[e]]
    /\ cancel' = [cancel EXCEPT ![r] = [pc |-> "idle", driver |-> None]]
    /\ UNCHANGED <<ride, search, expired, channel, lock, unlocked, reply>>

PendingExpires(r) ==
    /\ pending[r] # None
    /\ pending' = [pending EXCEPT ![r] = None]
    /\ UNCHANGED <<ride, search, expired, channel, lock, unlocked, driverRide,
                   customerRide, reply, cancel>>

\* The lock's 20 seconds begin before the driver's devices are told, the offer's
\* TimeoutSeconds after it: the lock may lapse while the offer is open.
LockExpires(d) ==
    /\ lock[d] # None
    /\ lock' = [lock EXCEPT ![d] = None]
    /\ unlocked' = unlocked \cup Unlocks(d)
    /\ UNCHANGED <<ride, search, expired, channel, pending, driverRide,
                   customerRide, reply, cancel>>

-----------------------------------------------------------------------------
RunLoop(r) ==
    \/ Wait(r) \/ CheckStatus(r) \/ ListCandidates(r) \/ QueueDone(r)
    \/ \E d \in Drivers : SkipOffline(r, d) \/ LockDriver(r, d)
    \/ SetPending(r) \/ Listen(r) \/ Receive(r) \/ OfferTimeout(r)
    \/ CloseOffer(r)
    \/ Assign(r) \/ Match(r) \/ Negotiate(r) \/ Occupy(r)
    \/ GiveUpCancel(r) \/ GiveUpRelease(r)

CancelRide(r) == CancelRead(r) \/ CancelWrite(r) \/ CancelRelease(r)

Next ==
    \/ \E r \in Rides : \/ CreateRide(r) \/ DeadlinePasses(r) \/ RunLoop(r)
                        \/ CancelRide(r) \/ PendingExpires(r)
    \/ \E d \in Drivers : LockExpires(d)
    \/ \E d \in Drivers, r \in Rides :
           AcceptRead(d, r) \/ AcceptSignal(d, r) \/ Decline(d, r)

\* The goroutine runs, and its timers fire.
Spec == Init /\ [][Next]_vars /\ \A r \in Rides : WF_vars(RunLoop(r))

-----------------------------------------------------------------------------
(* Properties.                                                             *)

\* Every variable has its type.
TypeOK ==
    /\ ride \in [Rides -> Row]
    /\ search \in [Rides -> Search]
    /\ expired \in [Rides -> BOOLEAN]
    /\ channel \in [Rides -> (SUBSET Signal) \cup {None}]
    /\ pending \in [Rides -> Drivers \cup {None}]
    /\ lock \in [Drivers -> Rides \cup {None}]
    /\ unlocked \in SUBSET Rides
    /\ driverRide \in [Drivers -> Rides \cup {None}]
    /\ customerRide \in [Customers -> Rides \cup {None}]
    /\ reply \in [Drivers ->
                    [Rides -> {"none", "accepting", "accepted", "declined"}]]
    /\ cancel \in [Rides -> [pc : {"idle", "write", "release"},
                             driver : Drivers \cup {None}]]

\* What the SET NX lock is for, and how far it goes: of two open offers a
\* driver is looking at, at least one has lost its lock, because the 20 seconds
\* were over, or because a search that had so lost the driver's lock before
\* closed its own offer and deleted the lock of the next one.
OneOfferPerDriver ==
    \A r, s \in Rides :
        /\ search[r].pc \in Offering /\ search[s].pc \in Offering
        /\ search[r].driver = search[s].driver
        => r = s \/ r \in unlocked \/ s \in unlocked

\* Answers may come late, twice over, or from a driver the offer has moved on
\* from: whoever is assigned a ride has accepted that ride.
AssignedDriverAccepted ==
    \A r \in Rides : ride[r].driver # None =>
                         reply[ride[r].driver][r] = "accepted"

\* A search that ended before its deadline left the ride with a driver to
\* negotiate with, or over.
SettledInTime ==
    \A r \in Rides : search[r].pc = "done" /\ ~expired[r] =>
                         ride[r].status \notin {"SEARCHING", "MATCHED"}

\* A ride cancelled by its search, in time, or by its customer does not keep
\* the customer from booking again: whoever cancelled it is about to delete
\* the pointer.
CancelledRideFreesCustomer ==
    \A r \in Rides :
        /\ ride[r].status = "CANCELLED" /\ customerRide[CustomerOf[r]] = r
        => \/ expired[r]
           \/ search[r].pc = "release" \/ cancel[r].pc = "release"

\* Every search ends, whatever the drivers and the customer do.
SearchEnds ==
    \A r \in Rides : search[r].pc # "off" ~> search[r].pc = "done"

\* What runLoop's comment says is over: a driver who accepted a cancelled ride
\* "ending up stuck ON_TRIP on a dead ride".
\* It does not hold: onAccepted ignores a lost transition.
NoDriverOnDeadRide ==
    (\A r \in Rides : search[r].pc \in {"off", "done"} /\ cancel[r].pc = "idle")
    => \A d \in Drivers : driverRide[d] # None =>
                              ride[driverRide[d]].status # "CANCELLED"

=============================================================================
