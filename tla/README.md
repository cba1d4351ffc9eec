# Verification of the Rides API

TLA+ models, model-checking configurations and machine-checked proofs for the
ride-hailing back end in `src/api-server` (Go, PostgreSQL, Redis, WebSockets).
Source paths below are relative to `src/api-server`.

## The system

One Go process serves the customers' and drivers' apps and the operators'
console over HTTP and WebSocket. PostgreSQL holds what must last (rides,
credits, purchases, users); Redis holds what must be fast or expire (locks,
pointers, driver state, GEO index, sessions, counters, cached copies); timers,
search goroutines, delivery goroutines and connections live in the process's
memory and die with it. Handlers run concurrently, one goroutine for each
request, and take no lock across statements. What they may rely on is that one
SQL statement is atomic, that `UPDATE ... WHERE status = from` is a
compare-and-set, that a transaction may lock a row, that a UNIQUE index refuses
the second of two, and that Redis has `SET NX`. The models rest on the same.

A ride goes `SEARCHING -> MATCHED -> NEGOTIATING -> CONFIRMED ->
DRIVER_EN_ROUTE -> DRIVER_ARRIVED -> IN_PROGRESS -> COMPLETED`, and to
`CANCELLED` from most of these.

### What is hard

* **Stale reads.** Every handler reads a row, decides, and writes later. Only
  the `WHERE` of the write, where there is one, protects it.
* **Several writers of one thing.** Customer, driver, two timers, finalizer,
  admin and recovery write a ride; rides, engine, app, GPS and admin write a
  driver's state; two admins work on one claim, case, region or advert.
* **One fact in several places.** A ride and the pointers to it; a profile, a
  role and the role in a token; a rating and its average; a row and its copy
  in Redis; a driver's availability in a row, a key and an index.
* **Half-done handlers.** A client that disconnects cancels the request's
  context: the statements after the current one fail.
* **Restarts.** Timers, searches, deliveries and jobs vanish;
  `recoverOrphanedRides` reconstructs some.
* **Money without a serial order.** Callbacks, sweeps, polls and admins settle
  one purchase; grants, deductions, refunds and sweeps write one balance.

The hazards are listed in PROJECT.json, each at its line, with the properties
that would catch it going wrong or the reason why none does.

## Components and modules

| Component | Code | Modules | Correct when |
|---|---|---|---|
| Ride lifecycle | `internal/ride`, `recoverOrphanedRides` | `RideStatus`, `RideTrip`, `Dispatch`, `Booking` | a ride only advances, is counted and penalised once, and its end frees both parties; nobody books twice |
| Matching | `internal/matching` | `Dispatch`, `Booking`, `Presence` | one open offer for a driver; a search ends |
| Negotiation | `internal/negotiation` | `Negotiation`, `RideTrip` | the fare both were told is the one on the ride |
| Ride credits | `packages/ledger.go`, `admin_entitlements.go` | `CreditLedger` | cache and ledger agree, each event once, no overdraft |
| Purchases, journal, provider | `packages/purchase.go`, `internal/ledger`, `internal/payment` | `Purchase`, `Sale` | sold, credited and booked together, once, for a reason, in time |
| Packages and campaigns | `packages/repository.go`, `handler.go`, `purchase.go` | `Catalogue` | charged what was offered |
| Claims | `internal/packagepayments` | `Claims` | what is approved has been granted |
| Bonus | `internal/bonus` | `Bonus` | one registration bonus, unless the tier changed in between |
| Driver availability | `internal/driver`, `matching/engine.go` | `Presence` | who may be offered a ride is free and approved |
| Applications | `driver/service.go`, `admin/drivers.go` | `Papers` | approved on papers that were seen |
| Vehicles | `driver/vehicles.go` | `Vehicles` | the profile repeats the active vehicle |
| WebSocket hub | `internal/tracking` | `Sockets` | the connected app is heard and found |
| Sessions, penalties, bans | `internal/auth`, `ride/service.go`, `admin/customers.go` | `Sessions` | a session ends only for a reason; a suspension reaches every device |
| Registration | `internal/auth` | `Signup` | a number has one account |
| Roles | `location.SwitchMode`, `auth.ReconcileRoleState` | `Roles` | the role follows the profile, and the tokens the role |
| Team | `internal/team` | `Team` | who was removed or reset is signed out |
| Payment methods | `internal/paymentmethods` | `PayMethods` | one default, kept |
| Ratings | `internal/rating` | `Ratings` | the profile shows the average |
| Notices | `admin/notifications.go`, `internal/notification` | `Messages` | a notice arrives once |
| Rate limits | `middleware/ratelimit.go` | `Limits` | never twice the limit |
| Places and routes | `internal/location` | `Places` | a cached copy is fresh |
| Fares | `internal/fare`, `ride/service.go` | `Pricing` | charged by the prices agreed |
| Cases | `internal/tickets`, `incidents`, `inbox`, `reports` | `Cases` | a case's record matches its state |
| Settings, adverts | `internal/settings`, `internal/monetization` | `Settings` | an edit stands |
| Jobs | `driver/expiry_notifier.go`, `internal/digest` | `Jobs` | a restart loses no notice |
| Operators' chat | `pkg/alerting` | `Alerts` | paced alerts, handled commands |
| Analytics | `internal/analytics` | `Jobs` | read means processed or still pending |

PROJECT.json gives the status of each, with what is left out.

## The modules

Each handler is a sequence of actions, one for each statement it sends to
PostgreSQL or Redis, unless a transaction or a row lock makes several one. A
request that has read keeps what it read in a variable of its own; what the
code re-reads, the model re-reads. Definitions carry the code's names where
they can, and `map` in PROJECT.json gives the lines of each.

`Absent` declares `None`: nil, NULL, a missing key. Definitions named `Mut...`
stand before the definition they would replace: plausible bugs, which the runs
are tried against.

### Rides

* **`RideStatus`**: the statuses, the transition table, the sets of statuses
  handlers test. No state.
* **`RideTrip`**: all that writes a ride's row from `NEGOTIATING` on. `ride` is
  the row, `call` the requests in flight with the status they READ, `rideKey`,
  `customerRide`, `driverRide` the Redis keys, `charge` the `SetNX` guard and
  whether a deduction and a refund exist, then the two timers, the dead-man
  finalizer, the penalty counters, and the faults so far. Agreement is
  `AgreeRead, AgreeLock, AgreeConfirm, ChargeGuard, ChargeDeduct, AgreeDisarm`;
  a cancellation reads (`CancelRead`, `DriverCancelRead`, `NoShowRead`) and
  then does `CancelWrite, CancelRefund, CancelRelease, CancelPenalty`. `Abort`
  is a request whose context dies, `Crash`, `RecoveryScan` and `RecoverOrphan`
  a restart.
* **`Dispatch`**: the search goroutine of `runLoop` with its position, attempt
  and queue; accept channels, driver locks, pending drivers, replies. Once the
  deadline has passed every statement of that search fails, and the loop
  ignores most errors, so the model goes on with the effects missing.
* **`Booking`**: `CreateRide` statement by statement with its lock, idempotency
  key and pointer, the replay of a key, the searches a ride starts, `giveUp`,
  the app's poll of its active ride, crash and recovery of searches. The ghost
  `loose` holds rides whose lock lapsed or whose pointer was deleted for
  another ride.
* **`Negotiation`**: `Propose` with its limits (counted, not locked), `Accept`,
  `Decline`, `LockManualFare`, chat, the timer and its reset by a load and an
  arm, as separate steps, and the announcements.
* **`Pricing`**: the tariff rows and their replacement, the calculation as
  integer arithmetic with its tiers, night, waiting and minimum, and a ride's
  quote, agreement and final fare while an admin edits.

Module boundaries: `Dispatch` ends where `RideTrip`'s `Engage` begins; the key
`Booking` calls `pointer` is `RideTrip`'s `customerRide`.

### Credits and purchases

* **`CreditLedger`**: the append-only table in commit order, the cached row,
  the calls in flight, the sweep. A transaction that holds the row lock is one
  action; the unlocked look-ups, the case with no row to lock and the sweep's
  three statements are separate ones. The comment of `deductOne` says "bonus
  first", its body spends paid credits first; the model follows the body.
* **`Purchase`**: the request that opens a sale, the provider's side, the
  settlement calls of callback, sweep, poll and admin as a set (so late,
  repeated and contradictory), and `confirm` as one transaction. Free,
  promotional and office sales are granted commit by commit instead.
* **`Sale`**: the abstract specification. A sale is opened and then sold or
  lapsed for good; selling delivers, books and uses up the provider's
  transaction in one step. `Purchase!KeepsPromise` is its `Spec` under the
  refinement mapping (`Promise == INSTANCE Sale WITH ...`).
* **`Claims`** extends `Purchase`: driver and admins on a claim, each in
  separate read and write; an approval opens an office sale of its own, or
  credits a top-up.
* **`Catalogue`**, **`Bonus`**: editions of packages and campaigns against the
  three statements in which an offer is resolved; the three of a grant.

### Drivers

* **`Presence`**: the profile's approval and `is_online`, the Redis state and
  ride pointer, and the GEO index, against the availability switch, pings,
  declines, logout, GPS anomalies, suspension, the engine and the ride's end.
  `slack` names what may be wrong for how long, and why.
* **`Papers`**: application, uploads with their versions, decisions, approval.
* **`Vehicles`**: adding, editing, activating and deleting vehicles, and the
  type the profile repeats.
* **`Sockets`**: old and new sockets of a driver and of a customer, whose
  handlers end in any order and remove whoever is registered.

### People

* **`Sessions`**: token pairs as keys with a lifetime, refresh, logout, the
  four ways to suspend, revocation by SCAN, the middleware's check.
* **`Signup`**: codes and attempts, registration, change of number, deletion.
* **`Roles`**: profile status, `role_state`, the role in the access tokens;
  mode switch, sign-in, decisions, renewal. It takes `Papers`' decisions as
  two writes each (profile, then role).
* **`Team`**, **`PayMethods`**, **`Ratings`**, **`Messages`**, **`Limits`**,
  **`Places`**: as the table above says.

### Console and background

* **`Cases`**, **`Settings`** (regions and adverts): read-modify-write by two
  members of staff; a request of `Cases` may die in between.
* **`Jobs`**: the two daily jobs by slots of a day, and the consumer group of
  the event stream, with restarts.
* **`Alerts`**: the pacing of alerts, and the offset of the bot's polls.

### Compositions

`Claims` extends `Purchase`, `Presence` has the rides' writes on a driver,
`RideTrip` the ledger's answer. Components that share no state are put side by
side so that one run checks them: `MCDrivers`, `MCAppState`, `MCAccounts` and
`MCOffice` extend several modules, a variable (`part`, `desk`) says which of
them a behaviour is of, and the others stay as they began. (`MCAppState` is
run twice, with the `Parts` each run is about.) That is a disjoint union, not a product: it adds no interleavings, and
none exist in the code, because the parts touch no common row. Each part was
also run on its own with TLC's coverage, and every action of every part fires
under the bounds below (`Booking`'s crash and recovery in `app_state`).
`MCRideTrip`, `MCDispatch`, `MCCreditLedger` and `MCPurchase` only give
instances.

## The runs

| Run | Question | What holds | States |
|---|---|---|---|
| `trip_safety` | one ride, two requests, one dead client, one intervention, one crash | `RefundOnlyBlameless`, `RideCountedOnce`, `PenalisedOnce`, `TripOnlyAdvances` | 1,445,427 |
| `trip_liveness` | one ride, two requests, no faults | `NegotiationEnds`, `StartedTripEnds`, `OverRideReleasesBoth` | 205,477 |
| `trip_refund` | is a blameless driver always refunded? | NOT `BlamelessCancelRefunded`: see the finding | violation |
| `ledger` | two calls, rollbacks, a revocation, the sweep, one tick | `CacheIsNewestEntry`, `DeductionTakesOneCredit` | 1,445,010 |
| `dispatch` | two searches sharing a driver, one cancelled or slow | `OneOfferPerDriver`, `SettledInTime` | 3,054,529 |
| `dispatch_ends` | one search, three rounds, two drivers | `SearchEnds` | 40,849 |
| `purchase` | two attempts under one key, an office sale, callback, sweep, poll, admin | `SettledForAReason`, `KeepsPromise` (refinement of `Sale`), `SweptSaleEnds` | 95,403 |
| `booking` | two bookings of one customer; two offers and the clock | `TwoRidesOnlyIfLoose`, `GiveUpSparesMatched`, `ToldFareIsAgreed` | 546,565 |
| `app_state` | a device, its sockets and its ride pointer, with one crash | `StaysSignedIn`, `SuspensionReachesEveryDevice`, `HeardUnlessTakenOver`, `NotLockedOut`, `DiscoverableAgain` | 600,242 |
| `presence` | a driver's availability, papers and vehicles | `OneRideAtATime`, `PoolAgreesWithProfile`, `ApprovedOnSeenPapers`, `ProfileFollowsVehicle` | 1,438,911 |
| `office` | claims, catalogue, bonus, cases, pricing, settings, adverts, jobs, events, alerts, chat | `ApprovedIsGranted`, `PurchasePriced`, `RegistrationBonusOnce`, `NothingHalfDone`, `PricesHold`, `EditsStand`, `BackgroundKeepsUp` | 1,273,936 |
| `accounts` | signup, team, payment methods, ratings, notices, limits, roles, places | `PhoneHasOneAccount`, `SessionsEnd`, `DefaultKept`, `StoredTwiceAgrees`, `NoticeArrivesOnce`, `NeverTwiceTheLimit` | 1,268,566 |

`PurchasePriced`, `NothingHalfDone`, `PricesHold`, `EditsStand`,
`BackgroundKeepsUp` and `StoredTwiceAgrees` are conjunctions of named
properties; their definitions say which. Every property has a mutant: one
definition of the model changed as a plausible bug would, under which TLC finds
it violated in the same run.

Several properties name the exceptions the code allows (a ride that is
`loose`, an edit that `overlapped`, a role written from a read that a decision
`overtook`). They then say that NOTHING ELSE goes wrong: the exception is the
code's own window, computed by the model from the steps and listed as a hazard.

### Bounds, and why they are enough

* **Two requests at a time** throughout: every race in these handlers is
  between a stale read and one other writer; timers, finalizer, sweeps and
  admins come on top. `app_state` has one booking request because its question
  is what outlives it.
* **One or two of everything shared**: two rides of one customer, two drivers
  of whom one is contended, two numbers for two users, two admins on one claim.
  `RideTrip` has one ride: what its rides share are counters and credits.
  `Dispatch`'s `Near` is the smallest with both a contended lock and an
  alternative.
* **Fares and credits**: `StartCredits` = 1, so that the second agreement meets
  an empty balance; two fares where agreements may differ (`trip_liveness`,
  `trip_refund`, `booking`), one in `trip_safety`, whose properties read none.
* **`MaxAborts`, `MaxCrashes`, `MaxInterventions`** at most 1 in `RideTrip`, 1
  crash in `Booking`, 1 lost answer in `Sessions`, 2 restarts of the bot and the
  event consumer, 3 of the daily jobs: each is enabled at every step, and recovery is
  complete before the next.
* **Ledger**: one ride and one purchase, so that both calls hit the same key;
  the adjustment <<1, -1>> is the mixed one the handler lets through; four
  entries hold a grant, its bonus, a use and a sweep.
* **Purchase**: `p1` (MTN) and `p2` (a provider no sweep asks, whose proof an
  admin may look at) carry one key; `p3` is an admin's sale, written commit by
  commit. Two purchases under one provider's number need a fourth sale and do
  not fit; that no transaction pays twice is proved for any number.
* **Counts of edits, calls, visits** (`MaxEdits`, `MaxCalls`, `MaxVisits`,
  `MaxRows`, `MaxLoose`, ...): enough for two overlapping edits and one after
  them. `Pricing`'s tariffs have no or a large base fare, no first tier, and a
  night that wraps round midnight or not; the distances and hours lie on and
  beside the boundaries. `Limits` sees two windows.
* **`MaxAttempts`** is 2 (3 in `dispatch_ends`; 4 in production): a first and a
  last round differ, another adds nothing new.
* **Symmetry** over requests, workers, and rows of the same kind, in runs that
  check no liveness.
* **`CHECK_DEADLOCK FALSE`** throughout: every ride, purchase and request ends,
  and then nothing is left to do.

### Fairness

Weak fairness of what the process itself runs, and nothing more: a request's
next statement, timers, the finalizer's ticker, the search goroutine with its
`time.After`, the sweep of purchases and the end of a payment window, the read
and write loops of a socket, Redis' expiry of a session, and the app's own polling and pings where the
property is about an app that keeps running (`NotLockedOut`,
`DiscoverableAgain`). Go's scheduler and runtime timers justify the first,
the app's periodic timers the last. Nothing people do is fair: no one has to
reply, pay, cancel or complete. One assumption is left on people: chat
messages put the negotiation timer back without a limit, so `NegotiationEnds`
presumes that they stop some time. The liveness of a trip is checked without
aborts, crashes and interventions, because with them it is false of the code
(see the hazards); that of sessions, pointers, sockets and purchases is
checked with them.

## The proofs

TLAPS proves, for every value of the constants that the named assumptions
allow (`RidesAssumption`, `LedgerAssumption`, `PurchaseAssumption`,
`DispatchAssumption`, ...: the parties are functions, amounts are numbers, an
office key is new, `None` is none of the values):

| Module | Theorems | Properties of runs among them |
|---|---|---|
| `RideTrip_proofs` | `TypeCorrect`, `AgreedFareLocked`, `ChargeAfterAgreement`, `BlamelessRefund`, `FinalFareBounded`, `NeverBack`, `FareFinal`, `CountedOnce`, `BlamedOnce` | all four of `trip_safety` |
| `CreditLedger_proofs` | `TypeCorrect`, `NoOverdraftHolds`, `CacheAgrees`, `EventsOnce`, `OneCreditEach` | both of `ledger` |
| `Purchase_proofs` | `TypeCorrect`, `KeysAreSpentOnce`, `TransactionsAreSpentOnce`, `DeliveriesArePaid`, `SettlementsHaveReasons`, and the refinement `PurchaseImplementsSale` | those of `purchase` that are not liveness |
| `Dispatch_proofs` | `TypeCorrect`, `OneOfferEach`, `SettledBeforeDeadline`, `AssignedAccepted`, `CancelledFreesCustomer` | both of `dispatch` |
| `AppState_proofs` | `OneRideWhileGuarded`, `MatchedRidesSpared`, `ToldOneFare`, `SessionsLast`, `HeardByTheNewest` | all of `booking`, and of `app_state` those that are not liveness |
| `Drivers_proofs` | `OneRideEach`, `PoolIsProfile`, `ApprovalIsOfPapers`, `ActiveIsApproved`, `VehicleIsProfile` | all of `presence` |
| `Office_proofs` | `OfficeInvariance`, `ApprovedClaimsAreGranted`, `PurchasesArePriced`, `RegistrationBonusIsOnce`, `CasesAreFinished`, `PricesAreHeld`, `EditsAreKept`, `BackgroundIsKeptUp` | all of `office` |
| `Accounts_proofs` | `OneAccountPerNumber`, `ConsoleSessionsEnd`, `CopiesAgree`, `DeliveredOnce`, `LimitHeldTwice`, `DefaultIsKept` | all of `accounts` |

None of the properties is inductive: a request half-way through could break
each of them if nothing were known of it. So each module states what a request
may rely on at the statement it has reached, and shows that the others' steps
leave it that. The invariants were first checked by TLC on the runs' instances.
A composition's specification (`AppStateSafety`, `DriversSpec`, `AccountsSpec`,
`OfficeSpec`) leaves the parts it is not of as they began; each part has an invariant of its
own, and one lemma joins them.

**RideTrip.** `IInv` adds to `TypeOK` what every row satisfies (`RowOK`) and
what every request may rely on (`CallOK`): past `LockFare` the fare is there,
past the confirming transition the ride is beyond `NEGOTIATING`, before a
refund the ride is cancelled by someone blameless, before the final fare it is
completed. These facts survive other requests because a row only advances
(`RowAdvances`: no way back, a locked fare stays, a cancelled row keeps its
canceller). So each action is shown to give `Kept`, the invariant and that
every row advanced, in groups that disturb the same parts; the frame lemmas
(`AdvanceKeeps`, `FrameCall`, `Combine`) carry the other requests over.
`NeverBack` and `FareFinal` are then read off `Kept`.

`CountedOnce` and `BlamedOnce` compare counters with cardinalities. `OnceInv`
says who still owes a count or a penalty: a completed ride has at most one
counter to come (a request between its transition and its increment, or the
finalizer), a cancelled one at most one request with its penalty to come, and
what has been counted is at most the number of rides that are over and owed
nothing. A completion raises neither side (the ride is owed), the increment
raises both.

**CreditLedger.** `IInv` is `TypeOK`, the four properties and `WaitingOK`
(what a waiting call of each type holds). All writes go through `Write`, so
one lemma (`WriteKeepsInv`) says when an appended entry keeps the invariant,
and each action only has to meet its premises (`Sound`): a fresh key or none, a
deduction that takes one credit from the balance before it, and no balance
newly below zero unless the entry is an admin's negative grant.

**Purchase.** `IInv` adds to the properties what a request may assume of its
row (`RequestOK`), what a row says of its own transaction (`RowOK`), that every
call in flight has the reason the property asks for (`CallOK`), and that a
settled row that is PAID is credited and booked in full (`DeliveredOK`), which
is what makes the mapping's `delivered` and `booked` move only in `Settle`. For
the refinement, each action of `Purchase` is shown to be `Open`, `Sell`,
`Lapse` or a stutter of `Sale` (`CreatePromise`, `OthersPromise`,
`SettlePromise`); the backfill is a stutter because `DeliveredOK` leaves it
nothing to post for a settled sale. The office sales, which are not atomic, are
outside the promise, and the theorem shows they do not disturb it.

**Dispatch.** Four facts about the points of the search loop, each inductive
over the types: a driver to whom an offer is open is locked by that ride
(`LockHeld`, which is why no two offers can be open to one driver); signals in
the channel of an open offer, and everything from "accepted" on, are backed by
the driver's own yes (`AnswersOK`); while its deadline has not passed, the ride
has come exactly as far as the search's last statement, or is cancelled
(`StatusOK`); and whoever cancelled a ride has its pointer still to delete.
After the deadline statements fail silently, so `StatusOK` claims nothing then,
which is as far as `SettledInTime` goes.

**AppState.** *Bookings*: a live ride that is not `loose` is named by the
pointer, or by the request that holds the lock and is about to write it
(`Guarded`), and a request that holds the lock past the check of the pointer is
alone (`Alone`); `GiveUpSparesMatched` needs that before a crash a ride has one
search, which ends with the match (`OneSearch`). *Negotiation*: who confirms
has locked the fare. *Sessions*: `PairsOK`, that the pairs devices hold or are
about to get are pairwise different, so that no device's request drops
another's. *Sockets*: the hub has the newest client or none, and a connected
newest client that is missing was removed by another's end.

**Drivers.** Outside the named races (`loose`, `oddPapers`, `oddRole`,
`crossed`), which only grow: *Presence*: of the rides a driver is matched to
there is one, AVAILABLE goes with its early points only, and pool and profile
agree up to the half-done request (`Agreed`). *Papers*: an approval is of the
live paper, or an upload is about to reopen it. *Vehicles*: what each request
in flight may rely on (`RequestsOK`): who fills the empty garage is the only
request, who deletes has another vehicle to fall back on; the oldest of the
vehicles exists because they are finitely many (`OldestIsThere`).

**Accounts.** *Signup*: a number given is one that nobody has (the UNIQUE
index), so accounts stay apart. *Team*: a session is as old as its chain and
the request that renews it; those a reset met are among the ones it ends.
*Methods*: a request that has cleared the default is in the transaction that
sets one or fails. *Ratings*: no update is in flight, or one that will write
the average, or the average is `torn`. *Messages*: a notice in delivery was
claimed, by one delivery, and is in the feeds only of whom that delivery is
through with. *Limits*: the calls let through in the current window are at most
its counter, those of the window before are at most the limit and one window
old (`Numbered`, `LimitsInv`), and the last window of time reaches back into one
window before at most. *Roles*, *Places*: what a request has read, and is about
to write elsewhere, is still so, or is marked as overtaken.

**Office.** *Claims* rests on `Purchase_proofs`: its `IInv` holds here too, a
settled or granted sale stays `Granted` through every other step (`SaleStep`),
and a review that is about to mark its claim has its grant or its top-up
(`ClaimsOK`). *Catalogue*: what an order was shown, and the price it carries,
are the catalogue's until an edit makes it forget; the campaign that applies is
one, because priority and age order those that fit (`BestIsThere`,
`BestIsOne`), and it is the same of fewer kinds if its kind is among them
(`BestOfFewer`). *Bonus*: an approval that goes on saw no grant. *Cases*: what
is half done has a member at work on it. *Pricing*: every row passed
`ValidateConfig`, and a ride's amounts are `Calculate` of its own row;
`CalculateGrows` shows, for all integers, that the tiers, the night and the wait
never shrink it. *Settings*: unless two edits overlapped, what an edit in flight
has read is what there is, or its advert is gone. *Jobs*: where the timers
stand in the day (`DigestAfter`), and that a pass due only after today has run
today. *Events*: stream, worker and group hold an entry once, and of those in
hand only the first may be processed. *Alerts*: the log has
all of the last hour. *Chat*: what precedes the loop's position is handled,
what follows is not, but by an earlier process.

The assumptions say what the code's types give: `None` (nil, NULL) is not a
status, a name or a number (`CasesAssumption`, `AdvertsAssumption`,
`CatalogueAssumption`, `ClaimsAssumption`, `AlertsAssumption`), a tariff is a
record of whole numbers (`PricingAssumption`; amounts are scaled as
`Pricing` says), and the marks at which papers are announced lie in the alert
window (`JobsAssumption`; 30 to -1 days, and 30, in `expiry_notifier.go:15` and
`driver/session.go`).

**Only model-checked**: liveness under fairness, which is beyond this prover
(`NegotiationEnds`, `StartedTripEnds`, `OverRideReleasesBoth`, `SearchEnds`,
`SweptSaleEnds`, `SuspensionReachesEveryDevice`, `NotLockedOut`,
`DiscoverableAgain`). Every invariant and action property of a passing run is
proved. Some theorems (`NoOverdraftHolds`,
`EventsOnce`, `AgreedFareLocked`, `ChargeAfterAgreement`, `FinalFareBounded`,
`FareFinal`, `KeysAreSpentOnce`, `TransactionsAreSpentOnce`,
`DeliveriesArePaid`, `AssignedAccepted`, `CancelledFreesCustomer`,
`ActiveIsApproved`, the `TypeCorrect`s) are about properties that no run lists:
the proof has replaced it.

## Where code and comments disagree

`trip_refund` exhibits one such case, and PROJECT.json quotes it. The modules
state further promises of comments that the code does not keep, marked as such
and listed by no run: `DriverNeverLeavesStartedTrip` (`RideTrip`),
`NoDriverOnDeadRide` (`Dispatch`), `SweepTakesOnlyLapsed` (`CreditLedger`),
`OneLiveRide` (`Booking`), `ClaimGrantedOnce` (`Claims`), `TokenHasOneOwner`
(`Messages`), `NewestIsRegistered` (`Sockets`). TLC refutes each. What else was
met while modelling:

* **Rides.** Recovery's UPDATE of orphaned negotiations names a column that
  does not exist (`cmd/server/main.go:1790`), and a search it restarts may be a
  second one. `LockFare` followed by a failed transition leaves a locked fare;
  round numbers are not unique, offer limits are counted unlocked.
* **Drivers.** `UploadDocument` can leave "PENDING", a status `ApproveDriver`
  never approves, while the role and the trial are still written;
  NEEDS_MORE_INFO has no way out; an upload whose profile read precedes the
  approval leaves APPROVED on an unseen paper (`driver/service.go:210`). The
  GPS suspension and the automatic offline after declines write only the row.
  The last statements of `releaseDriver` may delete the next ride's pointer.
* **Accounts.** Admin decisions revoke no access token, so a mode switch or a
  renewal that a decision overtakes carries the old role; `SwitchMode` takes a
  failed COUNT for "no ride" and a failed profile read for "no profile".
  `BanCustomer` leaves `suspension_until`, which a later login may lift, and
  revokes no session. `SetPassword` makes a SUSPENDED member ACTIVE; two
  concurrent renewals of a console session leave two.
* **Catalogue and bonus.** `max_redemptions` and `per_driver_limit` are never
  read; an offer may be put together from an old package and a new campaign;
  two pending purchases both get a first-purchase price. Bonus grants go to
  `driver_ride_credits`, which the v4 ledger never reads.
* **Console.** A reply that read OPEN reopens a RESOLVED ticket; a stale
  acknowledgement un-resolves an incident; a report whose request died stays
  PENDING; overlapping edits of regions or adverts lose one, and
  `CreateRegion` after a failed read wipes the regions
  (`settings/repository.go:95-99`); concurrent `CreateConfig` leaves two active
  tariffs.
* **Messages and jobs.** A campaign claimed before a restart is never resumed;
  a failing query loses a day's notices, a process that is down at the slot
  the digest; the digest counts `PENDING` where applications wait as
  `PENDING_REVIEW`.
* **Copies.** An older average may overwrite a newer one; `UpsertRoute` answers
  and caches the app's distance while the row keeps the first; overlapping
  replacements of the saved places leave both sets live.
* **Background.** An alert that a full queue drops still silences its key; a
  chat reply Telegram does not take is not repeated; events read but not
  acknowledged before a crash are never read again.
* **Sockets.** The end of an old socket's handler unregisters the new client
  and takes the connected driver out of the GEO index until the next ping.

## Not modelled, and why

* **Wallet.** Top-up and withdrawal answer PAYMENTS_DISABLED, and the rest has
  no caller: no request changes a wallet.
* **Dashboard, finance, export, audit, lists.** They only read.
* **Launch settings, media, profile fields, trust-and-safety clears.** Single
  statements that nothing else reads and decides on.
* **Uploads, mail, SMS, masked calls, FCM.** I/O whose answers are ignored or
  are free choices in the modules that call it.
* **Legacy credit functions** of `packages/repository.go`
  (`BuyPackageFromWallet`, `DeductCredit`, `RefundCredit`, `GrantFreeTrial`)
  and `bonus.AfterPackagePurchase`: nothing calls them.
* **Google and Apple sign-in**: they differ from the code path in how the user
  is found.
* **Command-line tools** in `cmd/`, except the backfill of the journal: run by
  hand on an idle database.
* **Data**: distances, scores, geohashes and wording are free choices.

## Plan

1. Done: the modules above; proofs of all the safety properties that the runs
   check.
2. An abstract lifecycle (a ride is open, agreed, over) that `RideTrip` is
   shown to implement.
3. Two rides in one instance of `RideTrip`.
