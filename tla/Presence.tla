------------------------------ MODULE Presence ------------------------------
(***************************************************************************)
(* One driver and the pool the matching engine takes from.  Whether a      *)
(* driver may be offered a ride is kept in three places: the profile row   *)
(* (approval, is_online), the Redis state and ride pointer, and the GEO    *)
(* index.  The availability switch, location pings, declines, logout, the  *)
(* administrator, the engine and the end of a ride each write some of      *)
(* them, statement by statement, and lock nothing.                         *)
(***************************************************************************)
EXTENDS Naturals, FiniteSets, Absent

CONSTANTS
    Trips,               \* rides this driver may be offered
    AnomaliesToSuspend,  \* 3 impossible speeds suspend the driver
    OfflineAt,           \* cfg.Driver.DeclineAutoOfflineThreshold
    MaxLoose             \* bound: kinds of slack in one behaviour

ASSUME PresenceAssumption ==
    /\ {AnomaliesToSuspend, OfflineAt} \subseteq Nat \ {0}
    /\ MaxLoose \in Nat
    /\ None \notin Trips

VARIABLES
    row,     \* driver_profiles: approved, online
    state,   \* driver:{id}:state
    active,  \* driver:{id}:active_ride
    near,    \* in the GEO index; a location known
    count,   \* Redis counters: GPS anomalies, declines of the day
    toggle,  \* the availability request in flight
    ping,    \* the location update in flight
    leaving, \* the logout in flight
    admin,   \* the suspension in flight
    trip,    \* per ride, how far the match, the ride, its end is
    loose    \* what has gone on that excuses a mismatch
presenceVars == <<row, state, active, near, count, toggle, ping, leaving,
                  admin, trip, loose>>

NoToggle == [pc |-> "idle", online |-> FALSE, seen |-> {}]
Reasons == {"overlap", "stale", "toggle", "logout", "aside", "lost"}
Engaged == {"offered", "accepted", "marked", "unlisted", "riding", "over",
            "available", "unset"}
\* The rides the database has under way with this driver (HasActiveRide).
Riding == {t \in Trips : trip[t] \in {"accepted", "marked", "unlisted",
                                      "riding"}}
Matched == {t \in Trips : trip[t] \in Engaged}
Because(reason, holds) ==
    loose' = IF holds THEN loose \cup {reason} ELSE loose

PresenceInit ==
    /\ row = [approved |-> TRUE, online |-> FALSE]
    /\ state = "OFFLINE" /\ active = None
    /\ near = [indexed |-> FALSE, located |-> FALSE]
    /\ count = [anomalies |-> 0, declines |-> 0]
    /\ toggle = NoToggle /\ ping = "none"
    /\ leaving = "none" /\ admin = "none"
    /\ trip = [t \in Trips |-> "none"]
    /\ loose = {}

-----------------------------------------------------------------------------
(* Statements of driver/repository.go.                                      *)

UpdateOnlineStatus(on) == row' = [row EXCEPT !.online = on]
SetApprovalStatus(ok) == row' = [row EXCEPT !.approved = ok]
HasActiveRide == Riding # {}

-----------------------------------------------------------------------------
(* SetAvailability (driver/service.go).                                     *)

ToggleTo(pc) == toggle' = [toggle EXCEPT !.pc = pc]

\* Going online takes an approved profile, papers that have not expired and
\* credits; the last two may be refused at any time.
Toggle(on) ==
    /\ toggle.pc = "idle" /\ leaving = "none"
    /\ on => row.approved
    /\ toggle' = [NoToggle EXCEPT !.pc = "pointer", !.online = on]
    /\ UNCHANGED <<row, state, active, near, count, ping, leaving, admin,
                   trip, loose>>

\* Mutant: a driver who comes back in the middle of a ride is pooled again.
MutOnlineRead ==
    /\ toggle.pc = "pointer" /\ toggle.online
    /\ count' = [count EXCEPT !.anomalies = 0]
    /\ toggle' = [toggle EXCEPT !.pc = "set", !.seen = Matched]
    /\ UNCHANGED <<row, state, active, near, ping, leaving, admin, trip, loose>>

\* Online: the history and the anomalies are cleared, and the ride pointer is
\* read.
OnlineRead ==
    /\ toggle.pc = "pointer" /\ toggle.online
    /\ count' = [count EXCEPT !.anomalies = 0]
    /\ toggle' = [toggle EXCEPT !.pc = IF active = None THEN "set" ELSE "save",
                                !.seen = Matched]
    /\ Because("toggle", active = None /\ Matched # {})
    /\ UNCHANGED <<row, state, active, near, ping, leaving, admin, trip>>

OnlineSet ==
    /\ toggle.pc = "set" /\ toggle.online
    /\ state' = "AVAILABLE" /\ ToggleTo("save")
    /\ Because("toggle", ~(Matched \subseteq toggle.seen) \/ ~row.approved)
    /\ UNCHANGED <<row, active, near, count, ping, leaving, admin, trip>>

\* Offline: refused while the pointer names a ride the database confirms; a
\* pointer left behind by a release that failed is dropped.
OfflineCheck ==
    /\ toggle.pc = "pointer" /\ ~toggle.online
    /\ IF active # None /\ HasActiveRide
       THEN toggle' = NoToggle /\ UNCHANGED <<active, loose>>
       ELSE /\ ToggleTo("set") /\ active' = None
            /\ Because("toggle", Matched # {})
    /\ UNCHANGED <<row, state, near, count, ping, leaving, admin, trip>>

OfflineSet ==
    /\ toggle.pc = "set" /\ ~toggle.online
    /\ state' = "OFFLINE" /\ ToggleTo("leave")
    /\ Because("toggle", Matched # {})
    /\ UNCHANGED <<row, active, near, count, ping, leaving, admin, trip>>

OfflineLeave ==
    /\ toggle.pc = "leave"
    /\ near' = [near EXCEPT !.indexed = FALSE] /\ ToggleTo("save")
    /\ UNCHANGED <<row, state, active, count, ping, leaving, admin, trip,
                   loose>>

ToggleSave ==
    /\ toggle.pc = "save"
    /\ UpdateOnlineStatus(toggle.online) /\ toggle' = NoToggle
    /\ Because("toggle", toggle.online /\ (~row.approved \/ leaving # "none"
                                           \/ state = "OFFLINE"))
    /\ UNCHANGED <<state, active, near, count, ping, leaving, admin, trip>>

-----------------------------------------------------------------------------
(* UpdateLocation, UpdateLocationBatch.                                     *)

\* Only an approved driver who is online may send a position.
PingRead(kind) ==
    /\ ping = "none" /\ row.online /\ row.approved
    /\ ping' = kind
    /\ UNCHANGED <<row, state, active, near, count, toggle, leaving, admin,
                   trip, loose>>

\* checkGPSPlausibility: a speed needs an earlier position.  (The grace period
\* after going online is left out: an anomaly may come at any time.)
Implausible == near.located

\* The third anomaly suspends the profile, and nothing else.
Anomaly ==
    /\ count' = [count EXCEPT !.anomalies =
                    IF @ < AnomaliesToSuspend THEN @ + 1 ELSE @]
    /\ IF count'.anomalies = AnomaliesToSuspend
       THEN SetApprovalStatus(FALSE) /\ Because("aside", TRUE)
       ELSE UNCHANGED <<row, loose>>
    /\ ping' = "none"

PingRefused ==
    /\ ping = "one" /\ Implausible
    /\ Anomaly
    /\ UNCHANGED <<state, active, near, toggle, leaving, admin, trip>>

\* Set of the location, then GeoAdd, on every ping, whatever the state is.
PingWrite ==
    /\ ping \in {"one", "batch"}
    /\ near' = [near EXCEPT !.located = TRUE, !.indexed = TRUE]
    /\ ping' = "telemetry"
    /\ UNCHANGED <<row, state, active, count, toggle, leaving, admin, trip,
                   loose>>

\* The goroutine left behind checks again, against the newest position.
PingTelemetry ==
    /\ ping = "telemetry"
    /\ \/ Implausible /\ Anomaly
       \/ ping' = "none" /\ UNCHANGED <<row, count, loose>>
    /\ UNCHANGED <<state, active, near, toggle, leaving, admin, trip>>

\* The keys with a life: location 120 s, declines of the day.
KeyExpires ==
    /\ \/ near' = [near EXCEPT !.located = FALSE] /\ UNCHANGED count
       \/ count' = [count EXCEPT !.declines = 0] /\ UNCHANGED near
    /\ UNCHANGED <<row, state, active, toggle, ping, leaving, admin, trip,
                   loose>>

-----------------------------------------------------------------------------
(* Declines, logout, the administrator.                                     *)

\* DeclineRide and RecordDecline.  At the second threshold the row, and only
\* the row, goes offline (at the first the driver is ranked lower).
Decline(t) ==
    /\ trip[t] = "offered"
    /\ trip' = [trip EXCEPT ![t] = "none"]
    /\ count' = [count EXCEPT !.declines = IF @ < OfflineAt THEN @ + 1 ELSE @]
    /\ IF count'.declines = OfflineAt
       THEN UpdateOnlineStatus(FALSE) /\ Because("aside", TRUE)
       ELSE UNCHANGED <<row, loose>>
    /\ UNCHANGED <<state, active, near, toggle, ping, leaving, admin>>

\* ForceOffline, in a goroutine after the logout is answered: unconditional.
Logout ==
    /\ leaving = "none" /\ leaving' = "pointer"
    /\ Because("logout", Matched # {} \/ toggle.pc # "idle")
    /\ UNCHANGED <<row, state, active, near, count, toggle, ping, admin, trip>>
LogoutStep ==
    \/ /\ leaving = "pointer" /\ leaving' = "state"
       /\ active' = None /\ UNCHANGED <<row, state, near>>
    \/ /\ leaving = "state" /\ leaving' = "index"
       /\ state' = "OFFLINE" /\ UNCHANGED <<row, active, near>>
    \/ /\ leaving = "index" /\ leaving' = "row"
       /\ near' = [near EXCEPT !.indexed = FALSE]
       /\ UNCHANGED <<row, state, active>>
    \/ /\ leaving = "row" /\ leaving' = "none"
       /\ UpdateOnlineStatus(FALSE) /\ UNCHANGED <<state, active, near>>
ForceOffline ==
    /\ LogoutStep
    /\ Because("logout", Matched # {})
    /\ UNCHANGED <<count, toggle, ping, admin, trip>>

\* Mutant: a suspension is written to the database only.
MutSuspendRedis ==
    /\ admin \in {"state", "index"} /\ admin' = "none"
    /\ UNCHANGED <<row, state, active, near, count, toggle, ping, leaving,
                   trip, loose>>

\* SuspendDriver: the rows in one transaction, then Redis.
SuspendDriver ==
    /\ admin = "none" /\ admin' = "state"
    /\ row' = [row EXCEPT !.approved = FALSE, !.online = FALSE]
    /\ Because("aside", Matched # {} \/ toggle.pc # "idle")
    /\ UNCHANGED <<state, active, near, count, toggle, ping, leaving, trip>>
SuspendRedis ==
    /\ \/ /\ admin = "state" /\ admin' = "index"
          /\ state' = "OFFLINE" /\ UNCHANGED near
       \/ /\ admin = "index" /\ admin' = "none"
          /\ near' = [near EXCEPT !.indexed = FALSE] /\ UNCHANGED state
    /\ Because("aside", Matched # {} \/ toggle.pc # "idle" \/ row.approved)
    /\ UNCHANGED <<row, active, count, toggle, ping, leaving, trip>>

ReinstateDriver ==
    /\ ~row.approved /\ SetApprovalStatus(TRUE)
    /\ UNCHANGED <<state, active, near, count, toggle, ping, leaving, admin,
                   trip, loose>>

\* The console's force-offline writes the row only.
ForceDriverOffline ==
    /\ row.online /\ UpdateOnlineStatus(FALSE)
    /\ Because("aside", TRUE)
    /\ UNCHANGED <<state, active, near, count, toggle, ping, leaving, admin,
                   trip>>

-----------------------------------------------------------------------------
(* The engine's match and the end of the ride (matching/engine.go,          *)
(* ride/service.go).  The driver lock is held while an offer is open.       *)

TripTo(t, pc) == trip' = [trip EXCEPT ![t] = pc]

\* searchCandidatesWithRadius reads, once for a whole round of offers, who is
\* AVAILABLE and in the index.  When the index gives nobody, or Redis fails,
\* fallbackPostGIS asks the database alone who is online, approved and
\* without a ride (the location in PostGIS is left out).
ListCandidate(t) ==
    /\ trip[t] = "none" /\ TripTo(t, "listed")
    /\ \/ state = "AVAILABLE" /\ near.indexed
       \/ row.online /\ row.approved /\ ~HasActiveRide
    /\ UNCHANGED <<row, state, active, near, count, toggle, ping, leaving,
                   admin, loose>>

\* Somebody before them on the list took the ride, or their lock is held.
PassOver(t) ==
    /\ trip[t] = "listed" /\ TripTo(t, "none")
    /\ UNCHANGED <<row, state, active, near, count, toggle, ping, leaving,
                   admin, loose>>

\* offerToDriver takes the lock, and reads nothing again: the offer is stale
\* when the pool does not have the driver AVAILABLE now.  It overlaps another
\* match that the pool does not show: an open offer whose lock has lapsed, an
\* acceptance before ON_TRIP, a release before its last write.
Offer(t) ==
    /\ trip[t] = "listed" /\ TripTo(t, "offered")
    /\ IF state # "AVAILABLE" THEN Because("stale", TRUE)
       ELSE Because("overlap",
               \E u \in Trips : trip[u] \in {"offered", "accepted", "available",
                                             "unset"})
    /\ UNCHANGED <<row, state, active, near, count, toggle, ping, leaving,
                   admin>>

OfferEnds(t) ==
    /\ trip[t] = "offered" /\ TripTo(t, "none")
    /\ UNCHANGED <<row, state, active, near, count, toggle, ping, leaving,
                   admin, loose>>

\* Mutant: the match is not written to the driver's state.
MutOnAccepted(t) ==
    /\ \/ /\ trip[t] = "accepted" /\ TripTo(t, "unlisted")
          /\ UNCHANGED active
       \/ /\ trip[t] = "unlisted" /\ TripTo(t, "riding")
          /\ active' = t
    /\ UNCHANGED <<row, state, near, count, toggle, ping, leaving, admin,
                   loose>>

\* onAccepted: the ride is the driver's in the database, then their state,
\* the index and the pointer follow.
AcceptRide(t) ==
    /\ trip[t] = "offered" /\ TripTo(t, "accepted")
    /\ UNCHANGED <<row, state, active, near, count, toggle, ping, leaving,
                   admin, loose>>
OnAccepted(t) ==
    /\ \/ /\ trip[t] = "accepted" /\ TripTo(t, "marked")
          /\ state' = "ON_TRIP" /\ UNCHANGED <<active, near>>
       \/ /\ trip[t] = "marked" /\ TripTo(t, "unlisted")
          /\ near' = [near EXCEPT !.indexed = FALSE]
          /\ UNCHANGED <<state, active>>
       \/ /\ trip[t] = "unlisted" /\ TripTo(t, "riding")
          /\ active' = t /\ UNCHANGED <<state, near>>
    /\ UNCHANGED <<row, count, toggle, ping, leaving, admin, loose>>

\* The ride is completed or cancelled in the database ...
RideEnds(t) ==
    /\ trip[t] = "riding" /\ TripTo(t, "over")
    /\ UNCHANGED <<row, state, active, near, count, toggle, ping, leaving,
                   admin, loose>>
\* ... and releaseDriverRedisState gives the driver back, unconditionally.
Release(t) ==
    /\ \/ /\ trip[t] = "over" /\ TripTo(t, "available")
          /\ state' = "AVAILABLE" /\ UNCHANGED <<active, near>>
       \/ /\ trip[t] = "available" /\ TripTo(t, "unset")
          /\ active' = None /\ UNCHANGED <<state, near>>
       \/ /\ trip[t] = "unset" /\ TripTo(t, "none")
          /\ near' = [near EXCEPT !.indexed = @ \/ near.located]
          /\ UNCHANGED <<state, active>>
    /\ UNCHANGED <<row, count, toggle, ping, leaving, admin, loose>>

\* The process stops, or Redis fails, before the driver is given back.
ReleaseLost(t) ==
    /\ trip[t] \in {"over", "available", "unset"} /\ TripTo(t, "none")
    /\ Because("lost", TRUE)
    /\ UNCHANGED <<row, state, active, near, count, toggle, ping, leaving,
                   admin>>

PresenceStep ==
    \/ \E on \in BOOLEAN : Toggle(on)
    \/ OnlineRead \/ OnlineSet
    \/ OfflineCheck \/ OfflineSet \/ OfflineLeave \/ ToggleSave
    \/ \E kind \in {"one", "batch"} : PingRead(kind)
    \/ PingRefused \/ PingWrite \/ PingTelemetry \/ KeyExpires
    \/ Logout \/ ForceOffline
    \/ SuspendDriver \/ SuspendRedis \/ ReinstateDriver \/ ForceDriverOffline
    \/ \E t \in Trips :
          \/ ListCandidate(t) \/ PassOver(t)
          \/ Offer(t) \/ OfferEnds(t) \/ Decline(t) \/ AcceptRide(t)
          \/ OnAccepted(t) \/ RideEnds(t) \/ Release(t) \/ ReleaseLost(t)
PresenceNext == Cardinality(loose) <= MaxLoose /\ PresenceStep

-----------------------------------------------------------------------------
(* Properties.                                                              *)

\* A driver serves one ride at a time.  Two are possible only after an offer
\* from a list that was read before the driver was taken out of the pool (or
\* that never asked the pool), a second offer while the pool does not show the
\* first match, a switch flipped around a match, or a logout that dropped the
\* pointer: an offer to a driver who is AVAILABLE at that moment, with none of
\* these, never meets a ride they are in the middle of.
OneRideAtATime ==
    Cardinality(Riding) > 1 =>
        loose \cap {"overlap", "stale", "toggle", "logout"} # {}

\* When no request of the driver, of the console or of the engine is in
\* flight, the pool has a driver AVAILABLE exactly when the profile is
\* online and approved, unless a writer that touches one of the two alone
\* has been at work, or a driver no longer in the pool was offered a ride.
Quiet == /\ toggle.pc = "idle" /\ leaving = "none" /\ admin = "none"
         /\ Matched = {}
PoolAgreesWithProfile ==
    Quiet /\ loose = {} => (state = "AVAILABLE" <=> row.online /\ row.approved)
=============================================================================
