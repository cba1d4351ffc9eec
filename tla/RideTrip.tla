------------------------------ MODULE RideTrip ------------------------------
(***************************************************************************)
(* A ride from the moment a driver is engaged (NEGOTIATING) to its end.    *)
(*                                                                         *)
(* Everything that writes the row is here: the HTTP handlers of both       *)
(* parties (internal/ride/service.go, internal/negotiation/service.go),    *)
(* the two in-memory timers, the dead-man finalizer, the admin's           *)
(* intervention, and a crash followed by recoverOrphanedRides.  A handler  *)
(* is a sequence of steps, one per statement it sends to Postgres or       *)
(* Redis, because any other handler may run between two of them.  It       *)
(* decides from the row it READ (snap), and writes the row that is there.  *)
(*                                                                         *)
(* Abstracted: event log, analytics, pushes, geography (the geofence is a  *)
(* free choice), time (a timer may fire at any moment after it is armed),  *)
(* and how the credit ledger works inside (module CreditLedger).           *)
(***************************************************************************)
EXTENDS Integers, FiniteSets, RideStatus

CONSTANTS
    Rides, Customers, Drivers,
    CustomerOf, DriverOf,   \* the parties of each ride
    Requests,               \* slots for HTTP requests in flight
    Fares,                  \* fares two parties may agree on
    Waits,                  \* waiting charges a completed trip may add
    StartCredits,           \* credits each driver begins with
    MaxAborts,              \* requests whose context dies half-way
    MaxCrashes,             \* server crashes
    MaxInterventions,       \* admin interventions
    None

\* Who may have cancelled a ride: cancelled_by_role and, for the driver's
\* no-show claim, the cancel_reason that tells verified from unverified.
CancelledBy == {"CUSTOMER", "DRIVER", "NO_SHOW", "NO_SHOW_UNVERIFIED",
                "SYSTEM"}

ASSUME RidesAssumption ==
    /\ CustomerOf \in [Rides -> Customers]
    /\ DriverOf \in [Rides -> Drivers]
    /\ Fares \subseteq Nat /\ Waits \subseteq Nat /\ 0 \in Waits
    /\ StartCredits \in Nat
    /\ MaxAborts \in Nat /\ MaxCrashes \in Nat /\ MaxInterventions \in Nat
    /\ None \notin Status \cup CancelledBy \cup Nat \cup Rides

VARIABLES
    ride,          \* the rides table
    call,          \* HTTP requests in flight
    rideKey,       \* Redis ride:<id>:state, replayed to a reconnecting client
    customerRide,  \* Redis customer:<id>:active_ride
    driverRide,    \* Redis driver:<id>:active_ride, set exactly while ON_TRIP
    credits,       \* each driver's spendable credits
    charge,        \* per ride: the SetNX guard and the two ledger entries
    penalties,     \* Redis daily cancel counters, of customers and drivers
    totalRides,    \* driver_profiles.total_rides
    negTimer, pickupTimer, finalizer,   \* background work, per ride
    aborts, crashes, interventions,     \* how many happened so far
    booting,       \* restarted, recovery not yet run
    orphans        \* rides recovery found and has still to handle

cache  == <<rideKey, customerRide, driverRide>>
money  == <<credits, charge>>
tally  == <<penalties, totalRides>>
timers == <<negTimer, pickupTimer, finalizer>>
faults == <<aborts, crashes, interventions, booting, orphans>>
vars   == <<ride, call, rideKey, customerRide, driverRide, credits, charge,
            penalties, totalRides, negTimer, pickupTimer, finalizer,
            aborts, crashes, interventions, booting, orphans>>

-----------------------------------------------------------------------------
Row == [status  : Status \cup {None},
        fare    : Fares \cup {None},    \* agreed_fare, with fare_locked_at
        arrived : BOOLEAN,              \* driver_arrived_at is set
        started : BOOLEAN,              \* started_at is set
        expired : BOOLEAN,              \* pickup_expired
        by      : CancelledBy \cup {None},
        fee     : BOOLEAN,              \* a late-cancel fee was recorded
        final   : Nat \cup {None}]      \* final_fare

NoRow == [status |-> None, fare |-> None, arrived |-> FALSE,
          started |-> FALSE, expired |-> FALSE, by |-> None, fee |-> FALSE,
          final |-> None]

\* What a request remembers between two statements: the handler and the
\* statement it is at, the status it read, and one argument (the fare of an
\* agreement, the waiting charge of a completion).
Ops == {"agree", "cancel", "driverCancel", "noShow", "enRoute", "arrive",
        "start", "complete"}
Points == {"lock", "write", "guard", "deduct", "disarm", "refund", "release",
           "clear", "penalty", "advance", "advanceKey", "stamp", "key", "arm",
           "settle", "count", "free"}
Idle == [op |-> "idle", pc |-> "idle", ride |-> None, snap |-> None,
         arg |-> None]
Busy == [op : Ops, pc : Points, ride : Rides, snap : Status,
         arg : Nat \cup {None}]

Idling(p) == call[p] = Idle
At(p, op, pc) == call[p].op = op /\ call[p].pc = pc
Admit(p, op, pc, r, arg) ==
    call' = [call EXCEPT ![p] = [op |-> op, pc |-> pc, ride |-> r,
                                 snap |-> ride[r].status, arg |-> arg]]
GoTo(p, pc) == call' = [call EXCEPT ![p].pc = pc]
Return(p) == call' = [call EXCEPT ![p] = Idle]

Live(r) == ride[r].status \notin Terminal \cup {None}

\* Mutant: an UPDATE that forgets AND status = from.
MutTransition(r, from, to) ==
    ride' = [ride EXCEPT ![r].status = to]

\* Repository.Transition: compare and set on the status.
Transition(r, from, to) ==
    /\ ride[r].status = from
    /\ ride' = [ride EXCEPT ![r].status = to]

\* A handler's Transition: on a lost race it returns ErrInvalidTransition.
TransitionOrReturn(p, from, to, pc) ==
    \/ Transition(call[p].ride, from, to) /\ GoTo(p, pc)
    \/ ride[call[p].ride].status # from /\ Return(p) /\ UNCHANGED ride

\* Repository.Cancel and CancelWithFee: one UPDATE that spares terminal rows.
MarkCancelled(r, by, fee) ==
    ride' = [ride EXCEPT ![r].status = "CANCELLED", ![r].by = by,
                         ![r].fee = fee]

\* releaseRideRedisState: unconditional deletes by customer and driver.
Release(r) ==
    /\ customerRide' = [customerRide EXCEPT ![CustomerOf[r]] = None]
    /\ driverRide' = [driverRide EXCEPT ![DriverOf[r]] = None]
    /\ rideKey' = [rideKey EXCEPT ![r] = None]

\* RefundForRide: idempotent on the ride, and asks for no earlier deduction.
Refund(r) ==
    /\ charge' = [charge EXCEPT ![r].refunded = TRUE]
    /\ credits' = [credits EXCEPT ![DriverOf[r]] =
                       IF charge[r].refunded THEN @ ELSE @ + 1]

\* recordCancelPenalty, as far as the daily counter.
Penalise(u) == penalties' = [penalties EXCEPT ![u] = @ + 1]

-----------------------------------------------------------------------------
Init ==
    /\ ride = [r \in Rides |-> NoRow]
    /\ call = [p \in Requests |-> Idle]
    /\ rideKey = [r \in Rides |-> None]
    /\ customerRide = [c \in Customers |-> None]
    /\ driverRide = [d \in Drivers |-> None]
    /\ credits = [d \in Drivers |-> StartCredits]
    /\ charge = [r \in Rides |-> [guard |-> FALSE, deducted |-> FALSE,
                                  refunded |-> FALSE]]
    /\ penalties = [u \in Customers \cup Drivers |-> 0]
    /\ totalRides = [d \in Drivers |-> 0]
    /\ negTimer = [r \in Rides |-> "off"]
    /\ pickupTimer = [r \in Rides |-> "off"]
    /\ finalizer = [r \in Rides |-> "idle"]
    /\ aborts = 0 /\ crashes = 0 /\ interventions = 0
    /\ booting = FALSE /\ orphans = {}

\* Mutant: the negotiation timer is never started.
MutEngage(r) ==
    LET c == CustomerOf[r]
        d == DriverOf[r] IN
    /\ ride[r] = NoRow
    /\ customerRide[c] = None /\ driverRide[d] = None /\ credits[d] > 0
    /\ ride' = [ride EXCEPT ![r].status = "NEGOTIATING"]
    /\ customerRide' = [customerRide EXCEPT ![c] = r]
    /\ driverRide' = [driverRide EXCEPT ![d] = r]
    /\ rideKey' = [rideKey EXCEPT ![r] = "NEGOTIATING"]
    /\ UNCHANGED <<call, money, tally, timers, faults>>

\* A booking that found its driver: CreateRide's guard and inserts through
\* onAccepted, as one step (the search itself is module Dispatch).
Engage(r) ==
    LET c == CustomerOf[r]
        d == DriverOf[r] IN
    /\ ride[r] = NoRow
    /\ customerRide[c] = None /\ driverRide[d] = None /\ credits[d] > 0
    /\ ride' = [ride EXCEPT ![r].status = "NEGOTIATING"]
    /\ customerRide' = [customerRide EXCEPT ![c] = r]
    /\ driverRide' = [driverRide EXCEPT ![d] = r]
    /\ rideKey' = [rideKey EXCEPT ![r] = "NEGOTIATING"]
    /\ negTimer' = [negTimer EXCEPT ![r] = "armed"]
    /\ UNCHANGED <<call, money, tally, pickupTimer, finalizer, faults>>

-----------------------------------------------------------------------------
(* Fare agreement: negotiation Accept and LockManualFare.                  *)

\* Mutant: confirms without locking the fare.
MutAgreeRead(p, r, f) ==
    /\ Idling(p) /\ ride[r].status = "NEGOTIATING"
    /\ Admit(p, "agree", "write", r, f)
    /\ UNCHANGED <<ride, cache, money, tally, timers, faults>>

AgreeRead(p, r, f) ==
    /\ Idling(p) /\ ride[r].status = "NEGOTIATING"
    /\ Admit(p, "agree", "lock", r, f)
    /\ UNCHANGED <<ride, cache, money, tally, timers, faults>>

\* Mutant: an UPDATE that forgets AND fare_locked_at IS NULL.
MutAgreeLock(p) ==
    /\ At(p, "agree", "lock")
    /\ ride' = [ride EXCEPT ![call[p].ride].fare = call[p].arg]
    /\ GoTo(p, "write")
    /\ UNCHANGED <<cache, money, tally, timers, faults>>

\* Mutant: disarms the timer before the ride is confirmed.
MutAgreeLockDisarms(p) ==
    LET r == call[p].ride IN
    /\ At(p, "agree", "lock") /\ ride[r].fare = None
    /\ ride' = [ride EXCEPT ![r].fare = call[p].arg]
    /\ negTimer' = [negTimer EXCEPT ![r] = "off"]
    /\ GoTo(p, "write")
    /\ UNCHANGED <<cache, money, tally, pickupTimer, finalizer, faults>>

\* Mutant: charges as soon as the fare is locked, before the transition.
MutAgreeLockCharges(p) ==
    LET r == call[p].ride IN
    /\ At(p, "agree", "lock") /\ ride[r].fare = None
    /\ ride' = [ride EXCEPT ![r].fare = call[p].arg]
    /\ GoTo(p, "guard")
    /\ UNCHANGED <<cache, money, tally, timers, faults>>

\* LockFare succeeds once per ride, whatever its status by now.
AgreeLock(p) ==
    LET r == call[p].ride IN
    /\ At(p, "agree", "lock")
    /\ \/ /\ ride[r].fare = None
          /\ ride' = [ride EXCEPT ![r].fare = call[p].arg]
          /\ GoTo(p, "write")
       \/ ride[r].fare # None /\ Return(p) /\ UNCHANGED ride
    /\ UNCHANGED <<cache, money, tally, timers, faults>>

AgreeConfirm(p) ==
    /\ At(p, "agree", "write")
    /\ TransitionOrReturn(p, "NEGOTIATING", "CONFIRMED", "guard")
    /\ UNCHANGED <<cache, money, tally, timers, faults>>

\* ChargeForAgreedFare: the SetNX guard, then the deduction.  The guard is
\* kept when the deduction fails, and the status is not looked at again.
ChargeGuard(p) ==
    LET r == call[p].ride IN
    /\ At(p, "agree", "guard")
    /\ charge' = [charge EXCEPT ![r].guard = TRUE]
    /\ GoTo(p, IF charge[r].guard THEN "disarm" ELSE "deduct")
    /\ UNCHANGED <<ride, cache, credits, tally, timers, faults>>

\* Mutant: deductOne without its balance check.
MutChargeDeduct(p) ==
    LET r == call[p].ride IN
    /\ At(p, "agree", "deduct")
    /\ credits' = [credits EXCEPT ![DriverOf[r]] = @ - 1]
    /\ charge' = [charge EXCEPT ![r].deducted = TRUE]
    /\ GoTo(p, "disarm")
    /\ UNCHANGED <<ride, cache, tally, timers, faults>>

ChargeDeduct(p) ==
    LET r == call[p].ride
        d == DriverOf[r] IN
    /\ At(p, "agree", "deduct")
    /\ IF credits[d] > 0 /\ ~charge[r].deducted
       THEN /\ credits' = [credits EXCEPT ![d] = @ - 1]
            /\ charge' = [charge EXCEPT ![r].deducted = TRUE]
       ELSE UNCHANGED money
    /\ GoTo(p, "disarm")
    /\ UNCHANGED <<ride, cache, tally, timers, faults>>

\* CancelNegotiationTimeout: too late for a timer that is already firing.
AgreeDisarm(p) ==
    /\ At(p, "agree", "disarm")
    /\ negTimer' = [negTimer EXCEPT ![call[p].ride] =
                        IF @ = "armed" THEN "off" ELSE @]
    /\ Return(p)
    /\ UNCHANGED <<ride, cache, money, tally, pickupTimer, finalizer, faults>>

-----------------------------------------------------------------------------
(* The three cancellations a party can ask for.                            *)

\* CancelRide.  On a ride that is over it still releases the Redis keys.
CancelRead(p, r) ==
    /\ Idling(p)
    /\ ride[r].status \in CustomerCancellable \cup Terminal
    /\ Admit(p, "cancel", IF Live(r) THEN "write" ELSE "clear", r, None)
    /\ UNCHANGED <<ride, cache, money, tally, timers, faults>>

\* DriverCancelRide: a no-op on a ride that is over.
DriverCancelRead(p, r) ==
    /\ Idling(p) /\ ride[r].status \in DriverCancellable
    /\ Admit(p, "driverCancel", "write", r, None)
    /\ UNCHANGED <<ride, cache, money, tally, timers, faults>>

\* CancelAfterPickupExpiry: GPS may or may not verify the no-show.
NoShowRead(p, r, verified) ==
    /\ Idling(p) /\ ride[r].status = "DRIVER_ARRIVED" /\ ride[r].expired
    /\ Admit(p, "noShow", "write", r, IF verified THEN 1 ELSE 0)
    /\ UNCHANGED <<ride, cache, money, tally, timers, faults>>

Canceller(c) ==
    CASE c.op = "cancel" -> "CUSTOMER"
      [] c.op = "driverCancel" -> "DRIVER"
      [] c.op = "noShow" -> IF c.arg = 1 THEN "NO_SHOW"
                            ELSE "NO_SHOW_UNVERIFIED"

\* Mutant: every no-show claim is refunded.
MutAfterCancel(c) ==
    CASE c.op = "cancel" /\ c.snap \in CreditCharged -> "refund"
      [] c.op = "cancel" /\ c.snap \notin CreditCharged -> "release"
      [] c.op = "driverCancel" -> "penalty"
      [] c.op = "noShow" -> "refund"

\* What follows a cancellation that won: decided from the status READ.
AfterCancel(c) ==
    CASE c.op = "cancel" /\ c.snap \in CreditCharged -> "refund"
      [] c.op = "cancel" /\ c.snap \notin CreditCharged -> "release"
      [] c.op = "driverCancel" -> "penalty"
      [] c.op = "noShow" -> IF c.arg = 1 THEN "refund" ELSE "release"

\* Mutant: ignores Cancel's didCancel.
MutCancelWrite(p) ==
    LET c == call[p] IN
    /\ c.op \in {"cancel", "driverCancel", "noShow"} /\ c.pc = "write"
    /\ IF Live(c.ride)
       THEN MarkCancelled(c.ride, Canceller(c),
                          c.op = "cancel" /\ c.snap = "DRIVER_ARRIVED")
       ELSE UNCHANGED ride
    /\ GoTo(p, AfterCancel(c))
    /\ UNCHANGED <<cache, money, tally, timers, faults>>

CancelWrite(p) ==
    LET c == call[p] IN
    /\ c.op \in {"cancel", "driverCancel", "noShow"} /\ c.pc = "write"
    /\ \/ /\ Live(c.ride)
          /\ MarkCancelled(c.ride, Canceller(c),
                           c.op = "cancel" /\ c.snap = "DRIVER_ARRIVED")
          /\ GoTo(p, AfterCancel(c))
       \/ ~Live(c.ride) /\ Return(p) /\ UNCHANGED ride
    /\ UNCHANGED <<cache, money, tally, timers, faults>>

CancelRefund(p) ==
    /\ call[p].op \in {"cancel", "noShow"} /\ call[p].pc = "refund"
    /\ Refund(call[p].ride)
    /\ GoTo(p, "release")
    /\ UNCHANGED <<ride, cache, tally, timers, faults>>

\* CancelRide releases, then penalises; the driver's handlers end here.
CancelRelease(p) ==
    /\ call[p].pc \in {"release", "clear"}
    /\ Release(call[p].ride)
    /\ IF At(p, "cancel", "release") THEN GoTo(p, "penalty") ELSE Return(p)
    /\ UNCHANGED <<ride, money, tally, timers, faults>>

\* DriverCancelRide penalises, then releases.
CancelPenalty(p) ==
    LET r == call[p].ride IN
    /\ call[p].pc = "penalty"
    /\ IF call[p].op = "cancel"
       THEN Penalise(CustomerOf[r]) /\ Return(p)
       ELSE Penalise(DriverOf[r]) /\ GoTo(p, "release")
    /\ UNCHANGED <<ride, cache, money, totalRides, timers, faults>>

-----------------------------------------------------------------------------
(* The driver's progress through the trip.                                 *)

\* Mutant: writes RideState first.
MutEnRouteRead(p, r) ==
    /\ Idling(p) /\ CanTransition(ride[r].status, "DRIVER_EN_ROUTE")
    /\ Admit(p, "enRoute", "key", r, None)
    /\ UNCHANGED <<ride, cache, money, tally, timers, faults>>

EnRouteRead(p, r) ==
    /\ Idling(p) /\ CanTransition(ride[r].status, "DRIVER_EN_ROUTE")
    /\ Admit(p, "enRoute", "write", r, None)
    /\ UNCHANGED <<ride, cache, money, tally, timers, faults>>

EnRouteWrite(p) ==
    /\ At(p, "enRoute", "write")
    /\ TransitionOrReturn(p, "CONFIRMED", "DRIVER_EN_ROUTE", "key")
    /\ UNCHANGED <<cache, money, tally, timers, faults>>

\* SetDriverArrived advances a CONFIRMED ride through DRIVER_EN_ROUTE first.
ArriveRead(p, r) ==
    /\ Idling(p) /\ ride[r].status \in {"CONFIRMED", "DRIVER_EN_ROUTE"}
    /\ Admit(p, "arrive",
              IF ride[r].status = "CONFIRMED" THEN "advance" ELSE "write",
              r, None)
    /\ UNCHANGED <<ride, cache, money, tally, timers, faults>>

ArriveAdvance(p) ==
    /\ At(p, "arrive", "advance")
    /\ TransitionOrReturn(p, "CONFIRMED", "DRIVER_EN_ROUTE", "advanceKey")
    /\ UNCHANGED <<cache, money, tally, timers, faults>>

ArriveWrite(p) ==
    /\ At(p, "arrive", "write")
    /\ \/ TransitionOrReturn(p, "DRIVER_EN_ROUTE", "DRIVER_ARRIVED", "stamp")
       \/ Return(p) /\ UNCHANGED ride      \* outside the geofence
    /\ UNCHANGED <<cache, money, tally, timers, faults>>

ArriveStamp(p) ==
    /\ At(p, "arrive", "stamp")
    /\ ride' = [ride EXCEPT ![call[p].ride].arrived = TRUE]
    /\ GoTo(p, "key")
    /\ UNCHANGED <<cache, money, tally, timers, faults>>

ArriveArm(p) ==
    /\ At(p, "arrive", "arm")
    /\ pickupTimer' = [pickupTimer EXCEPT ![call[p].ride] = "armed"]
    /\ Return(p)
    /\ UNCHANGED <<ride, cache, money, tally, negTimer, finalizer, faults>>

StartRead(p, r) ==
    /\ Idling(p) /\ CanTransition(ride[r].status, "IN_PROGRESS")
    /\ Admit(p, "start", "write", r, None)
    /\ UNCHANGED <<ride, cache, money, tally, timers, faults>>

\* Mutant: started_at is never stamped.
MutStartWrite(p) ==
    /\ At(p, "start", "write")
    /\ TransitionOrReturn(p, "DRIVER_ARRIVED", "IN_PROGRESS", "key")
    /\ UNCHANGED <<cache, money, tally, timers, faults>>

StartWrite(p) ==
    /\ At(p, "start", "write")
    /\ TransitionOrReturn(p, "DRIVER_ARRIVED", "IN_PROGRESS", "stamp")
    /\ UNCHANGED <<cache, money, tally, timers, faults>>

StartStamp(p) ==
    /\ At(p, "start", "stamp")
    /\ ride' = [ride EXCEPT ![call[p].ride].started = TRUE]
    /\ GoTo(p, "key")
    /\ UNCHANGED <<cache, money, tally, timers, faults>>

\* The handlers that advance the trip write RideState after the row.
WriteKey(p) ==
    LET r == call[p].ride
        To(status, next) ==
            /\ rideKey' = [rideKey EXCEPT ![r] = status]
            /\ IF next = "return" THEN Return(p) ELSE GoTo(p, next) IN
    /\ \/ At(p, "enRoute", "key") /\ To("DRIVER_EN_ROUTE", "return")
       \/ At(p, "arrive", "advanceKey") /\ To("DRIVER_EN_ROUTE", "write")
       \/ At(p, "arrive", "key") /\ To("DRIVER_ARRIVED", "arm")
       \/ At(p, "start", "key") /\ To("IN_PROGRESS", "return")
    /\ UNCHANGED <<ride, customerRide, driverRide, money, tally, timers,
                   faults>>

\* CompleteRide: the waiting charge comes from the timestamps in the row read.
CompleteRead(p, r, wait) ==
    /\ Idling(p) /\ CanTransition(ride[r].status, "COMPLETED")
    /\ wait > 0 => ride[r].arrived /\ ride[r].started
    /\ Admit(p, "complete", "write", r, wait)
    /\ UNCHANGED <<ride, cache, money, tally, timers, faults>>

CompleteWrite(p) ==
    /\ At(p, "complete", "write")
    /\ TransitionOrReturn(p, "IN_PROGRESS", "COMPLETED", "settle")
    /\ UNCHANGED <<cache, money, tally, timers, faults>>

\* Mutant: records the waiting charge instead of adding it.
MutCompleteSettle(p) ==
    /\ At(p, "complete", "settle")
    /\ ride' = [ride EXCEPT ![call[p].ride].final = call[p].arg]
    /\ GoTo(p, "count")
    /\ UNCHANGED <<cache, money, tally, timers, faults>>

CompleteSettle(p) ==
    LET r == call[p].ride IN
    /\ At(p, "complete", "settle")
    /\ ride' = [ride EXCEPT ![r].final = ride[r].fare + call[p].arg]
    /\ GoTo(p, "count")
    /\ UNCHANGED <<cache, money, tally, timers, faults>>

CompleteCount(p) ==
    /\ At(p, "complete", "count")
    /\ totalRides' = [totalRides EXCEPT ![DriverOf[call[p].ride]] = @ + 1]
    /\ GoTo(p, "free")
    /\ UNCHANGED <<ride, cache, money, penalties, timers, faults>>

CompleteFree(p) ==
    LET r == call[p].ride IN
    /\ At(p, "complete", "free")
    /\ customerRide' = [customerRide EXCEPT ![CustomerOf[r]] = None]
    /\ driverRide' = [driverRide EXCEPT ![DriverOf[r]] = None]
    /\ rideKey' = [rideKey EXCEPT ![r] = "COMPLETED"]
    /\ Return(p)
    /\ UNCHANGED <<ride, money, tally, timers, faults>>

\* RideState has a TTL once the trip has started (2 h) or ended (5 min).
KeyExpires(r) ==
    /\ rideKey[r] \in {"IN_PROGRESS", "COMPLETED"}
    /\ rideKey' = [rideKey EXCEPT ![r] = None]
    /\ UNCHANGED <<ride, call, customerRide, driverRide, money, tally, timers,
                   faults>>

-----------------------------------------------------------------------------
(* Timers, finalizer, admin.                                               *)

\* StartNegotiationTimeout's fire: read, then cancel, then release.
NegotiationFires(r) ==
    /\ negTimer[r] = "armed"
    /\ negTimer' = [negTimer EXCEPT ![r] =
           IF ride[r].status = "NEGOTIATING" THEN "firing" ELSE "off"]
    /\ UNCHANGED <<ride, call, cache, money, tally, pickupTimer, finalizer,
                   faults>>

\* The result of Cancel is ignored: the release follows in any case.
NegotiationCancel(r) ==
    /\ negTimer[r] = "firing"
    /\ IF Live(r) THEN MarkCancelled(r, "SYSTEM", ride[r].fee)
       ELSE UNCHANGED ride
    /\ negTimer' = [negTimer EXCEPT ![r] = "releasing"]
    /\ UNCHANGED <<call, cache, money, tally, pickupTimer, finalizer, faults>>

NegotiationRelease(r) ==
    /\ negTimer[r] = "releasing"
    /\ Release(r)
    /\ negTimer' = [negTimer EXCEPT ![r] = "off"]
    /\ UNCHANGED <<ride, call, money, tally, pickupTimer, finalizer, faults>>

PickupFires(r) ==
    /\ pickupTimer[r] = "armed"
    /\ pickupTimer' = [pickupTimer EXCEPT ![r] =
           IF ride[r].status = "DRIVER_ARRIVED" THEN "firing" ELSE "off"]
    /\ UNCHANGED <<ride, call, cache, money, tally, negTimer, finalizer,
                   faults>>

PickupExpire(r) ==
    /\ pickupTimer[r] = "firing"
    /\ ride' = [ride EXCEPT ![r].expired = TRUE]
    /\ pickupTimer' = [pickupTimer EXCEPT ![r] = "off"]
    /\ UNCHANGED <<call, cache, money, tally, negTimer, finalizer, faults>>

\* FinalizeStaleInProgressRides handles its rides one after the other; here
\* each ride goes through its steps on its own, which allows that order and
\* every other.
FinalizerSees(r) ==
    /\ finalizer[r] = "idle"
    /\ ride[r].status = "IN_PROGRESS" /\ ride[r].started
    /\ finalizer' = [finalizer EXCEPT ![r] = "write"]
    /\ UNCHANGED <<ride, call, cache, money, tally, negTimer, pickupTimer,
                   faults>>

FinalizerWrite(r) ==
    /\ finalizer[r] = "write"
    /\ \/ /\ Transition(r, "IN_PROGRESS", "COMPLETED")
          /\ finalizer' = [finalizer EXCEPT ![r] = "settle"]
       \/ /\ ride[r].status # "IN_PROGRESS" /\ UNCHANGED ride
          /\ finalizer' = [finalizer EXCEPT ![r] = "idle"]
    /\ UNCHANGED <<call, cache, money, tally, negTimer, pickupTimer, faults>>

FinalizerSettle(r) ==
    /\ finalizer[r] = "settle"
    /\ ride' = [ride EXCEPT ![r].final = ride[r].fare]
    /\ finalizer' = [finalizer EXCEPT ![r] = "count"]
    /\ UNCHANGED <<call, cache, money, tally, negTimer, pickupTimer, faults>>

\* Mutant: leaves the driver ON_TRIP.
MutFinalizerCount(r) ==
    /\ finalizer[r] = "count"
    /\ totalRides' = [totalRides EXCEPT ![DriverOf[r]] = @ + 1]
    /\ finalizer' = [finalizer EXCEPT ![r] = "idle"]
    /\ UNCHANGED <<ride, call, cache, money, penalties, negTimer, pickupTimer,
                   faults>>

FinalizerCount(r) ==
    /\ finalizer[r] = "count"
    /\ totalRides' = [totalRides EXCEPT ![DriverOf[r]] = @ + 1]
    /\ finalizer' = [finalizer EXCEPT ![r] = "release"]
    /\ UNCHANGED <<ride, call, cache, money, penalties, negTimer, pickupTimer,
                   faults>>

FinalizerRelease(r) ==
    /\ finalizer[r] = "release"
    /\ Release(r)
    /\ finalizer' = [finalizer EXCEPT ![r] = "idle"]
    /\ UNCHANGED <<ride, call, money, tally, negTimer, pickupTimer, faults>>

\* InterveneRide writes the status and nothing else of the state kept here: no
\* refund, no release, no cancelled_by_role.  Its lists of statuses are not
\* the state machine's.
InterveneCancel(r) ==
    /\ interventions < MaxInterventions
    /\ ride[r].status \in {"SEARCHING", "NEGOTIATING", "DRIVER_EN_ROUTE",
                           "DRIVER_ARRIVED", "IN_PROGRESS"}
    /\ ride' = [ride EXCEPT ![r].status = "CANCELLED"]
    /\ interventions' = interventions + 1
    /\ UNCHANGED <<call, cache, money, tally, timers, aborts, crashes, booting,
                   orphans>>

InterveneComplete(r) ==
    /\ interventions < MaxInterventions
    /\ ride[r].status \in {"DRIVER_ARRIVED", "IN_PROGRESS"}
    /\ ride' = [ride EXCEPT ![r].status = "COMPLETED"]
    /\ interventions' = interventions + 1
    /\ UNCHANGED <<call, cache, money, tally, timers, aborts, crashes, booting,
                   orphans>>

-----------------------------------------------------------------------------
(* Faults.                                                                 *)

\* The handlers run on the request's context: when the client goes away every
\* later statement fails.  Steps on server memory alone are still taken.
Abort(p) ==
    LET c == call[p] IN
    /\ ~Idling(p) /\ aborts < MaxAborts
    /\ \/ /\ c.op = "agree" /\ c.pc \in {"guard", "deduct"}
          /\ GoTo(p, "disarm")
       \/ c.op = "arrive" /\ c.pc = "key" /\ GoTo(p, "arm")
       \/ /\ c.pc \notin {"guard", "deduct", "disarm", "arm"}
          /\ ~At(p, "arrive", "key")
          /\ Return(p)
    /\ aborts' = aborts + 1
    /\ UNCHANGED <<ride, cache, money, tally, timers, crashes, interventions,
                   booting, orphans>>

\* Requests and timers live in the process; Postgres and Redis do not.
Crash ==
    /\ crashes < MaxCrashes
    /\ crashes' = crashes + 1
    /\ call' = [p \in Requests |-> Idle]
    /\ negTimer' = [r \in Rides |-> "off"]
    /\ pickupTimer' = [r \in Rides |-> "off"]
    /\ finalizer' = [r \in Rides |-> "idle"]
    /\ booting' = TRUE /\ orphans' = {}
    /\ UNCHANGED <<ride, cache, money, tally, aborts, interventions>>

\* recoverOrphanedRides queries once, while requests are already served ...
RecoveryScan ==
    /\ booting
    /\ booting' = FALSE
    /\ orphans' = {r \in Rides : ride[r].status = "NEGOTIATING"}
    /\ UNCHANGED <<ride, call, cache, money, tally, timers, aborts, crashes,
                   interventions>>

\* ... then, for each ride, sends an UPDATE that sets rides.cancelled_by.  No
\* migration creates that column, so Postgres rejects the statement; the error
\* is dropped, and only the two deletes have an effect.
RecoverOrphan(r) ==
    /\ r \in orphans
    /\ orphans' = orphans \ {r}
    /\ rideKey' = [rideKey EXCEPT ![r] = None]
    /\ customerRide' = [customerRide EXCEPT ![CustomerOf[r]] = None]
    /\ UNCHANGED <<ride, call, driverRide, money, tally, timers, aborts,
                   crashes, interventions, booting>>

-----------------------------------------------------------------------------
Arrival(p, r) ==
    \/ \E f \in Fares : AgreeRead(p, r, f)
    \/ CancelRead(p, r)
    \/ DriverCancelRead(p, r)
    \/ \E verified \in BOOLEAN : NoShowRead(p, r, verified)
    \/ EnRouteRead(p, r)
    \/ ArriveRead(p, r)
    \/ StartRead(p, r)
    \/ \E wait \in Waits : CompleteRead(p, r, wait)

Progress(p) ==
    \/ AgreeLock(p) \/ AgreeConfirm(p) \/ ChargeGuard(p) \/ ChargeDeduct(p)
    \/ AgreeDisarm(p)
    \/ CancelWrite(p) \/ CancelRefund(p) \/ CancelRelease(p)
    \/ CancelPenalty(p)
    \/ EnRouteWrite(p) \/ ArriveAdvance(p) \/ ArriveWrite(p) \/ ArriveStamp(p)
    \/ ArriveArm(p) \/ StartWrite(p) \/ StartStamp(p) \/ WriteKey(p)
    \/ CompleteWrite(p) \/ CompleteSettle(p) \/ CompleteCount(p)
    \/ CompleteFree(p)

NegotiationTimeout(r) ==
    NegotiationFires(r) \/ NegotiationCancel(r) \/ NegotiationRelease(r)

PickupTimeout(r) == PickupFires(r) \/ PickupExpire(r)

Finalize(r) ==
    FinalizerSees(r) \/ FinalizerWrite(r) \/ FinalizerSettle(r)
        \/ FinalizerCount(r) \/ FinalizerRelease(r)

Background(r) ==
    NegotiationTimeout(r) \/ PickupTimeout(r) \/ Finalize(r) \/ KeyExpires(r)

Admin(r) == InterveneCancel(r) \/ InterveneComplete(r)

Next ==
    \/ \E r \in Rides : Engage(r)
    \/ \E p \in Requests, r \in Rides : Arrival(p, r)
    \/ \E p \in Requests : Progress(p) \/ Abort(p)
    \/ \E r \in Rides : Background(r) \/ Admin(r) \/ RecoverOrphan(r)
    \/ Crash \/ RecoveryScan

\* The scheduler runs every request it has accepted, Go's timers fire, and
\* the finalizer's ticker ticks.  No fairness on what people do, but one thing
\* is assumed of them: a counter-offer or a chat message puts the negotiation
\* timer back (ResetNegotiationTimeout, a stutter here), and they stop sending.
Fairness ==
    /\ \A p \in Requests : WF_vars(Progress(p))
    /\ \A r \in Rides : /\ WF_vars(NegotiationTimeout(r))
                        /\ WF_vars(PickupTimeout(r))
                        /\ WF_vars(Finalize(r))

Spec == Init /\ [][Next]_vars /\ Fairness

-----------------------------------------------------------------------------
(* Properties.                                                             *)

\* Every variable has its type.
TypeOK ==
    /\ ride \in [Rides -> Row]
    /\ call \in [Requests -> Busy \cup {Idle}]
    /\ rideKey \in [Rides -> Status \cup {None}]
    /\ customerRide \in [Customers -> Rides \cup {None}]
    /\ driverRide \in [Drivers -> Rides \cup {None}]
    /\ credits \in [Drivers -> Nat]
    /\ charge \in [Rides -> [guard : BOOLEAN, deducted : BOOLEAN,
                             refunded : BOOLEAN]]
    /\ penalties \in [Customers \cup Drivers -> Nat]
    /\ totalRides \in [Drivers -> Nat]
    /\ negTimer \in [Rides -> {"off", "armed", "firing", "releasing"}]
    /\ pickupTimer \in [Rides -> {"off", "armed", "firing"}]
    /\ finalizer \in [Rides -> {"idle", "write", "settle", "count",
                                "release"}]
    /\ aborts \in Nat /\ crashes \in Nat /\ interventions \in Nat
    /\ booting \in BOOLEAN /\ orphans \subseteq Rides

\* How far along a ride is.
Rank(status) ==
    CASE status = None -> 0
      [] status = "NEGOTIATING" -> 1
      [] status = "CONFIRMED" -> 2
      [] status = "DRIVER_EN_ROUTE" -> 3
      [] status = "DRIVER_ARRIVED" -> 4
      [] status = "IN_PROGRESS" -> 5
      [] OTHER -> 6

Agreed == {"CONFIRMED", "DRIVER_EN_ROUTE", "DRIVER_ARRIVED", "IN_PROGRESS",
           "COMPLETED"}

\* Whoever wins the race to agree, a ride past NEGOTIATING that was not
\* cancelled has its fare locked (LockFare comes before the transition).
AgreedRideHasFare == \A r \in Rides : ride[r].status \in Agreed =>
                                        ride[r].fare # None

\* However handlers interleave, a ride never moves back and never leaves
\* COMPLETED or CANCELLED: what the compare-and-set of Transition and the
\* guard of Cancel are for.
NoRowMovesBack ==
    \A r \in Rides : \/ ride'[r].status = ride[r].status
                     \/ Rank(ride'[r].status) > Rank(ride[r].status)
TripOnlyAdvances == [][NoRowMovesBack]_vars

\* Two agreements may be in flight with two different fares: once one is
\* locked the other never replaces it.
AgreedFareIsFinal ==
    [][\A r \in Rides : ride[r].fare # None =>
                             ride'[r].fare = ride[r].fare]_vars

\* The status replayed to a reconnecting client is never ahead of the row: the
\* key is written after the transition it reports.
ReplayNeverAhead ==
    \A r \in Rides : rideKey[r] # None =>
                         Rank(rideKey[r]) <= Rank(ride[r].status)

\* A credit is spent for a ride only once its fare is agreed and it has left
\* NEGOTIATING, so a negotiation that fails costs the driver nothing.
ChargeFollowsAgreement ==
    \A r \in Rides : charge[r].deducted =>
                         ride[r].fare # None /\ ride[r].status # "NEGOTIATING"

\* "The only blameless driver exit is a verified no-show": a refund is only
\* ever made for a ride its customer cancelled or failed to appear for.
RefundOnlyBlameless ==
    \A r \in Rides : charge[r].refunded =>
        ride[r].status = "CANCELLED" /\ ride[r].by \in {"CUSTOMER", "NO_SHOW"}

\* The driver's and the finalizer's completion race: a ride counts at most
\* once in total_rides.
RideCountedOnce ==
    \A d \in Drivers : totalRides[d] <=
        Cardinality({r \in Rides : /\ DriverOf[r] = d
                                   /\ ride[r].status = "COMPLETED"})

\* A cancellation retried or raced is penalised at most once, and only the
\* party who made it.
PenalisedOnce ==
    \A u \in Customers \cup Drivers : penalties[u] <=
        Cardinality({r \in Rides : \/ /\ CustomerOf[r] = u
                                      /\ ride[r].by = "CUSTOMER"
                                   \/ /\ DriverOf[r] = u
                                      /\ ride[r].by = "DRIVER"})

\* A final fare is recorded only for a completed ride, and is never below the
\* fare the parties agreed on.
FinalFareCoversAgreed ==
    \A r \in Rides : ride[r].final # None =>
        /\ ride[r].status = "COMPLETED"
        /\ ride[r].final >= ride[r].fare

\* While the server stays up, every negotiation has a timer that will end it.
NegotiationWatched ==
    \A r \in Rides : ride[r].status = "NEGOTIATING" /\ ~booting
                         /\ r \notin orphans
                      => negTimer[r] \in {"armed", "firing"}

\* A negotiation ends once its parties fall silent, whatever they did before.
NegotiationEnds ==
    \A r \in Rides : ride[r].status = "NEGOTIATING" ~>
                         ride[r].status # "NEGOTIATING"

\* A started trip ends even if the driver never completes it.
StartedTripEnds ==
    \A r \in Rides : ride[r].status = "IN_PROGRESS" ~>
                         ride[r].status \in Terminal

\* When a ride is over, both parties are eventually free for another one.
OverRideReleasesBoth ==
    \A r \in Rides : ride[r].status \in Terminal ~>
        customerRide[CustomerOf[r]] # r /\ driverRide[DriverOf[r]] # r

\* Nobody is in the middle of anything.
Quiet ==
    /\ \A p \in Requests : Idling(p)
    /\ \A r \in Rides : /\ negTimer[r] \in {"off", "armed"}
                         /\ finalizer[r] = "idle"

\* What CancelRide's comment promises: the customer cancelled after the fare
\* was agreed, the driver is blameless, and gets back the credit charged.
BlamelessCancelRefunded ==
    Quiet => \A r \in Rides : ride[r].by = "CUSTOMER" /\ charge[r].deducted =>
                                  charge[r].refunded

\* What DriverCancelRide's comment promises: "IN_PROGRESS cannot be cancelled
\* (the driver must complete the ride once the customer is aboard)".
\* It does not hold: Cancel spares only rows that are over.
DriverNeverLeavesStartedTrip ==
    [][\A r \in Rides : ride[r].status = "IN_PROGRESS" =>
          ~(ride'[r].status = "CANCELLED" /\ ride'[r].by = "DRIVER")]_vars

=============================================================================
