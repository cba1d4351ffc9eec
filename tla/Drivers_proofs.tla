---------------------------- MODULE Drivers_proofs ----------------------------
(***************************************************************************)
(* Proofs about what makes a driver one the engine may offer rides to, for *)
(* any trips, uploads, vehicles and requests.  Each of the three parts of  *)
(* MCDrivers has an inductive invariant of its own; a step of one leaves   *)
(* the variables of the others alone.                                      *)
(***************************************************************************)
EXTENDS MCDrivers, FiniteSetTheorems, WellFoundedInduction, TLAPS

\* A set of which any two members are one has one at most.
LEMMA OneAtMost ==
    ASSUME NEW S, \A x, y \in S : x = y
    PROVE  Cardinality(S) \in Nat /\ Cardinality(S) <= 1
  <1>1. CASE S = {}
    BY <1>1, FS_EmptySet
  <1>2. ASSUME NEW x \in S PROVE Cardinality(S) = 1
    <2>1. S = {x}
      BY <1>2
    <2> QED
      BY <2>1, FS_Singleton
  <1> QED
    BY <1>1, <1>2

-----------------------------------------------------------------------------
(* Presence.                                                                *)

TogglePoints == {"idle", "pointer", "set", "leave", "save"}
Profile == [approved : BOOLEAN, online : BOOLEAN]
Position == [indexed : BOOLEAN, located : BOOLEAN]
Counters == [anomalies : Nat, declines : Nat]
ToggleRequest == [pc : TogglePoints, online : BOOLEAN, seen : SUBSET Trips]
PresenceType ==
    /\ row \in Profile
    /\ state \in {"OFFLINE", "AVAILABLE", "ON_TRIP"}
    /\ active \in Trips \cup {None}
    /\ near \in Position
    /\ count \in Counters
    /\ toggle \in ToggleRequest
    /\ ping \in {"none", "one", "batch", "telemetry"}
    /\ leaving \in {"none", "pointer", "state", "index", "row"}
    /\ admin \in {"none", "state", "index"}
    /\ trip \in [Trips -> Engaged \cup {"none", "listed"}]
    /\ loose \in SUBSET Reasons

\* What a driver is AVAILABLE with: an offer, a match that has not reached
\* their state yet, a ride whose end has.
Early == {"offered", "accepted", "available", "unset"}

\* Unless the lock, a switch or a logout let another one in, there is one
\* match at most, and a driver in the middle of a ride is not AVAILABLE.
OneMatch ==
    loose \cap {"overlap", "stale", "toggle", "logout"} = {} =>
        /\ \A t, u \in Matched : t = u
        /\ state = "AVAILABLE" => \A t \in Matched : trip[t] \in Early
        /\ toggle.pc = "set" /\ toggle.online => toggle.seen = {}

\* The switch has been turned on, or off, and the profile is still to follow.
ComingOn == toggle.pc = "save" /\ toggle.online
GoneOff == toggle.pc \in {"leave", "save"} /\ ~toggle.online
LoggedOut == leaving \in {"index", "row"}
\* The pool and the profile agree, but for a request that is half done.
Agreed ==
    /\ \A t \in Matched : /\ row.approved
                          /\ row.online \/ ComingOn
                          /\ trip[t] \in Early => state = "AVAILABLE"
    /\ Matched = {} /\ ComingOn => state = "AVAILABLE" /\ row.approved
    /\ Matched = {} /\ ~ComingOn /\ ~GoneOff /\ ~LoggedOut =>
           (state = "AVAILABLE" <=> row.online /\ row.approved)
PoolInv ==
    loose = {} =>
        /\ active # None => trip[active] \in {"riding", "over", "available"}
        /\ toggle.pc # "idle" => leaving = "none"
        /\ toggle.pc = "leave" => ~toggle.online
        /\ GoneOff \/ LoggedOut => state = "OFFLINE" /\ Matched = {}
        /\ ~row.approved =>
               ~row.online /\ (toggle.pc # "idle" => ~toggle.online)
        /\ admin = "index" /\ ~row.approved =>
               state = "OFFLINE" /\ Matched = {}
        /\ admin = "none" => Agreed
PresenceInv == PresenceType /\ OneMatch /\ PoolInv

\* Slack, once there, stays.
LEMMA Loosens ==
    ASSUME NEW reason, NEW holds, Because(reason, holds)
    PROVE  loose \subseteq loose' /\ (holds => reason \in loose')
  BY DEF Because

\* A field of a record set leaves the record one of its kind.
LEMMA FieldsSet ==
    ASSUME PresenceType
    PROVE  /\ \A b \in BOOLEAN :
                  /\ [row EXCEPT !.approved = b] \in Profile
                  /\ [row EXCEPT !.online = b] \in Profile
                  /\ [near EXCEPT !.indexed = b] \in Position
                  /\ [near EXCEPT !.located = b] \in Position
           /\ \A b, c \in BOOLEAN :
                  /\ [row EXCEPT !.approved = b, !.online = c] \in Profile
                  /\ [near EXCEPT !.located = b, !.indexed = c] \in Position
           /\ \A n \in Nat : /\ [count EXCEPT !.anomalies = n] \in Counters
                             /\ [count EXCEPT !.declines = n] \in Counters
           /\ NoToggle \in ToggleRequest
           /\ \A pc \in TogglePoints :
                  /\ [toggle EXCEPT !.pc = pc] \in ToggleRequest
                  /\ \A on \in BOOLEAN :
                         [NoToggle EXCEPT !.pc = pc, !.online = on] \in ToggleRequest
                  /\ \A S \in SUBSET Trips :
                         [toggle EXCEPT !.pc = pc, !.seen = S] \in ToggleRequest
           /\ row.approved \in BOOLEAN /\ near.located \in BOOLEAN
           /\ near.indexed \in BOOLEAN /\ toggle.online \in BOOLEAN
           /\ count.anomalies \in Nat /\ count.declines \in Nat
           /\ row.online \in BOOLEAN /\ Matched \in SUBSET Trips
  <1>1. \A n \in Nat : /\ [count EXCEPT !.anomalies = n] \in Counters
                       /\ [count EXCEPT !.declines = n] \in Counters
    BY DEF PresenceType, Counters
  <1>2. \A b \in BOOLEAN : /\ [row EXCEPT !.approved = b] \in Profile
                           /\ [row EXCEPT !.online = b] \in Profile
    BY DEF PresenceType, Profile
  <1>3. \A b \in BOOLEAN : /\ [near EXCEPT !.indexed = b] \in Position
                           /\ [near EXCEPT !.located = b] \in Position
    BY DEF PresenceType, Position
  <1>4. \A b, c \in BOOLEAN :
            /\ [row EXCEPT !.approved = b, !.online = c] \in Profile
            /\ [near EXCEPT !.located = b, !.indexed = c] \in Position
    BY DEF PresenceType, Position, Profile
  <1>5. NoToggle \in ToggleRequest
    BY DEF NoToggle, ToggleRequest, TogglePoints
  <1>6. ASSUME NEW rec \in ToggleRequest, NEW pc \in TogglePoints
        PROVE  /\ [rec EXCEPT !.pc = pc] \in ToggleRequest
               /\ \A on \in BOOLEAN :
                      [rec EXCEPT !.pc = pc, !.online = on] \in ToggleRequest
               /\ \A S \in SUBSET Trips :
                      [rec EXCEPT !.pc = pc, !.seen = S] \in ToggleRequest
    BY DEF ToggleRequest
  <1>7. toggle \in ToggleRequest
    BY DEF PresenceType
  <1>8. /\ row.approved \in BOOLEAN /\ near.located \in BOOLEAN
        /\ near.indexed \in BOOLEAN /\ toggle.online \in BOOLEAN
        /\ count.anomalies \in Nat /\ count.declines \in Nat
        /\ row.online \in BOOLEAN /\ Matched \in SUBSET Trips
    BY DEF PresenceType, Profile, Position, Counters, ToggleRequest, Matched
  <1> QED
    BY <1>1, <1>2, <1>3, <1>4, <1>5, <1>6, <1>7, <1>8

\* An anomaly counts, and may suspend.
LEMMA AnomalyType ==
    ASSUME PresenceType, Anomaly
    PROVE  /\ row' \in Profile /\ count' \in Counters
           /\ loose' \in SUBSET Reasons /\ ping' = "none"
  <1>1. row' = row \/ row' = [row EXCEPT !.approved = FALSE]
    BY DEF Anomaly, SetApprovalStatus
  <1>2. \E n \in {count.anomalies, count.anomalies + 1} :
            count' = [count EXCEPT !.anomalies = n]
    BY DEF Anomaly
  <1>3. \/ count' = [count EXCEPT !.anomalies = count.anomalies]
        \/ count' = [count EXCEPT !.anomalies = count.anomalies + 1]
    BY <1>2
  <1>4. loose' = loose \/ loose' = loose \cup {"aside"}
    BY DEF Anomaly, Because
  <1>5. count.anomalies \in Nat /\ count.anomalies + 1 \in Nat
    BY DEF PresenceType, Counters
  <1> QED
    BY <1>1, <1>3, <1>4, <1>5, FieldsSet DEF PresenceType, Reasons, Anomaly

\* The types, through every step.
LEMMA PresenceTypeNext ==
    ASSUME PresenceType, PresenceStep
    PROVE  PresenceType'
  <1> USE DEF Because, PresenceType, TogglePoints, Engaged, Reasons
  <1>1. ASSUME NEW on \in BOOLEAN, Toggle(on) PROVE PresenceType'
    BY <1>1, FieldsSet DEF Toggle
  <1>2. CASE OnlineRead
    BY <1>2, FieldsSet DEF OnlineRead
  <1>3. CASE OnlineSet
    BY <1>3, FieldsSet DEF OnlineSet, ToggleTo
  <1>4. CASE OfflineCheck
    BY <1>4, FieldsSet DEF OfflineCheck, ToggleTo, HasActiveRide
  <1>5. CASE OfflineSet
    BY <1>5, FieldsSet DEF OfflineSet, ToggleTo
  <1>6. CASE OfflineLeave
    BY <1>6, FieldsSet DEF OfflineLeave, ToggleTo
  <1>7. CASE ToggleSave
    BY <1>7, FieldsSet DEF ToggleSave, UpdateOnlineStatus
  <1>8. CASE PingRefused
    BY <1>8, AnomalyType DEF PingRefused, PresenceType
  <1>9. CASE PingWrite
    BY <1>9, FieldsSet DEF PingWrite
  <1>10. CASE PingTelemetry
    BY <1>10, AnomalyType DEF PingTelemetry, PresenceType
  <1>11. CASE KeyExpires
    <2>1. /\ near' = near \/ near' = [near EXCEPT !.located = FALSE]
          /\ count' = count \/ count' = [count EXCEPT !.declines = 0]
      BY <1>11 DEF KeyExpires
    <2>2. near' \in Position
      BY <2>1 DEF PresenceType, Position
    <2>3. count' \in Counters
      BY <2>1 DEF PresenceType, Counters
    <2> QED
      BY <1>11, <2>2, <2>3 DEF KeyExpires, PresenceType
  <1>12. CASE Logout
    BY <1>12, FieldsSet DEF Logout
  <1>13. CASE ForceOffline
    BY <1>13, FieldsSet DEF ForceOffline, LogoutStep, UpdateOnlineStatus
  <1>14. CASE SuspendDriver
    BY <1>14, FieldsSet DEF SuspendDriver
  <1>15. CASE SuspendRedis
    BY <1>15, FieldsSet DEF SuspendRedis
  <1>16. CASE ReinstateDriver
    BY <1>16, FieldsSet DEF ReinstateDriver, SetApprovalStatus
  <1>17. CASE ForceDriverOffline
    BY <1>17, FieldsSet DEF ForceDriverOffline, UpdateOnlineStatus
  <1>18. ASSUME NEW kind \in {"one", "batch"}, PingRead(kind) PROVE PresenceType'
    BY <1>18, FieldsSet DEF PingRead
  <1>19. ASSUME NEW t \in Trips, Offer(t) PROVE PresenceType'
    BY <1>19, FieldsSet DEF Offer, TripTo
  <1>20. ASSUME NEW t \in Trips, OfferEnds(t) PROVE PresenceType'
    BY <1>20, FieldsSet DEF OfferEnds, TripTo
  <1>27. ASSUME NEW t \in Trips, ListCandidate(t) \/ PassOver(t) PROVE PresenceType'
    BY <1>27, FieldsSet DEF ListCandidate, PassOver, TripTo
  <1>21. ASSUME NEW t \in Trips, Decline(t) PROVE PresenceType'
    <2>1. /\ row' = row \/ row' = [row EXCEPT !.online = FALSE]
          /\ \/ count' = [count EXCEPT !.declines = count.declines]
             \/ count' = [count EXCEPT !.declines = count.declines + 1]
          /\ loose' = loose \/ loose' = loose \cup {"aside"}
      BY <1>21 DEF Decline, UpdateOnlineStatus, Because
    <2>2. count.declines \in Nat /\ count.declines + 1 \in Nat
      BY DEF PresenceType, Counters
    <2>3. row' \in Profile /\ count' \in Counters /\ loose' \in SUBSET Reasons
      BY <2>1, <2>2, FieldsSet DEF PresenceType, Reasons
    <2> QED
      BY <1>21, <2>3 DEF Decline, PresenceType
  <1>22. ASSUME NEW t \in Trips, AcceptRide(t) PROVE PresenceType'
    BY <1>22, FieldsSet DEF AcceptRide, TripTo
  <1>23. ASSUME NEW t \in Trips, OnAccepted(t) PROVE PresenceType'
    BY <1>23, FieldsSet DEF OnAccepted, TripTo
  <1>24. ASSUME NEW t \in Trips, RideEnds(t) PROVE PresenceType'
    BY <1>24, FieldsSet DEF RideEnds, TripTo
  <1>25. ASSUME NEW t \in Trips, Release(t) PROVE PresenceType'
    BY <1>25, FieldsSet DEF Release, TripTo
  <1>26. ASSUME NEW t \in Trips, ReleaseLost(t) PROVE PresenceType'
    BY <1>26, FieldsSet DEF ReleaseLost, TripTo
  <1> QED
    BY <1>1, <1>2, <1>3, <1>4, <1>5, <1>6, <1>7, <1>8, <1>9, <1>10, <1>11,
       <1>12, <1>13, <1>14, <1>15, <1>16, <1>17, <1>18, <1>19, <1>20, <1>21,
       <1>22, <1>23, <1>24, <1>25, <1>26, <1>27
       DEF PresenceStep

\* One match at most, through every step.
LEMMA OneMatchNext ==
    ASSUME PresenceType, PresenceType', OneMatch, PresenceStep
    PROVE  OneMatch'
  <1> USE DEF Because, OneMatch, Matched, Engaged, Early, Reasons, PresenceType,
              Profile, Position, Counters, ToggleRequest, TogglePoints
  <1>1. ASSUME NEW on \in BOOLEAN, Toggle(on) PROVE OneMatch'
    BY <1>1 DEF Toggle, NoToggle
  <1>2. CASE OnlineRead
    <2>1. /\ UNCHANGED <<state, trip>> /\ loose \subseteq loose'
          /\ active = None /\ Matched # {} => "toggle" \in loose'
      BY <1>2 DEF OnlineRead, Because
    <2>2. toggle'.pc = "set" => active = None /\ toggle'.seen = Matched
      BY <1>2 DEF OnlineRead, PresenceType, ToggleRequest
    <2> QED
      BY <2>1, <2>2 DEF OneMatch, Matched
  <1>3. CASE OnlineSet
    BY <1>3 DEF OnlineSet, ToggleTo
  <1>4. CASE OfflineCheck
    BY <1>4 DEF OfflineCheck, ToggleTo, NoToggle, HasActiveRide
  <1>5. CASE OfflineSet
    BY <1>5 DEF OfflineSet, ToggleTo
  <1>6. CASE OfflineLeave
    BY <1>6 DEF OfflineLeave, ToggleTo
  <1>7. CASE ToggleSave
    BY <1>7 DEF ToggleSave, UpdateOnlineStatus, NoToggle
  <1>8. CASE PingRefused
    BY <1>8 DEF PingRefused, Anomaly, SetApprovalStatus
  <1>9. CASE PingWrite
    BY <1>9 DEF PingWrite
  <1>10. CASE PingTelemetry
    BY <1>10 DEF PingTelemetry, Anomaly, SetApprovalStatus
  <1>11. CASE KeyExpires
    BY <1>11 DEF KeyExpires
  <1>12. CASE Logout
    BY <1>12 DEF Logout
  <1>13. CASE ForceOffline
    BY <1>13 DEF ForceOffline, LogoutStep, UpdateOnlineStatus
  <1>14. CASE SuspendDriver
    BY <1>14 DEF SuspendDriver
  <1>15. CASE SuspendRedis
    BY <1>15 DEF SuspendRedis
  <1>16. CASE ReinstateDriver
    BY <1>16 DEF ReinstateDriver, SetApprovalStatus
  <1>17. CASE ForceDriverOffline
    BY <1>17 DEF ForceDriverOffline, UpdateOnlineStatus
  <1>18. ASSUME NEW kind \in {"one", "batch"}, PingRead(kind) PROVE OneMatch'
    BY <1>18 DEF PingRead
  <1>19. ASSUME NEW t \in Trips, Offer(t) PROVE OneMatch'
    BY <1>19 DEF Offer, TripTo
  <1>20. ASSUME NEW t \in Trips, OfferEnds(t) PROVE OneMatch'
    BY <1>20 DEF OfferEnds, TripTo
  <1>27. ASSUME NEW t \in Trips, ListCandidate(t) \/ PassOver(t) PROVE OneMatch'
    BY <1>27 DEF ListCandidate, PassOver, TripTo
  <1>21. ASSUME NEW t \in Trips, Decline(t) PROVE OneMatch'
    BY <1>21 DEF Decline, UpdateOnlineStatus
  <1>22. ASSUME NEW t \in Trips, AcceptRide(t) PROVE OneMatch'
    BY <1>22 DEF AcceptRide, TripTo
  <1>23. ASSUME NEW t \in Trips, OnAccepted(t) PROVE OneMatch'
    BY <1>23 DEF OnAccepted, TripTo
  <1>24. ASSUME NEW t \in Trips, RideEnds(t) PROVE OneMatch'
    BY <1>24 DEF RideEnds, TripTo
  <1>25. ASSUME NEW t \in Trips, Release(t) PROVE OneMatch'
    BY <1>25 DEF Release, TripTo
  <1>26. ASSUME NEW t \in Trips, ReleaseLost(t) PROVE OneMatch'
    BY <1>26 DEF ReleaseLost, TripTo
  <1> QED
    BY <1>1, <1>2, <1>3, <1>4, <1>5, <1>6, <1>7, <1>8, <1>9, <1>10, <1>11,
       <1>12, <1>13, <1>14, <1>15, <1>16, <1>17, <1>18, <1>19, <1>20, <1>21,
       <1>22, <1>23, <1>24, <1>25, <1>26, <1>27
       DEF PresenceStep

\* The pool and the profile, through every step.
LEMMA PoolNext ==
    ASSUME PresenceType, PresenceType', OneMatch, PoolInv, PresenceStep
    PROVE  PoolInv'
  <1> USE DEF Because, PoolInv, Agreed, ComingOn, GoneOff, LoggedOut, OneMatch,
              Matched, Engaged, Early, Reasons, PresenceType, Profile, Position,
              Counters, ToggleRequest, TogglePoints
  <1>1. ASSUME NEW on \in BOOLEAN, Toggle(on) PROVE PoolInv'
    BY <1>1 DEF Toggle, NoToggle
  <1>2. CASE OnlineRead
    BY <1>2 DEF OnlineRead
  <1>3. CASE OnlineSet
    BY <1>3 DEF OnlineSet, ToggleTo
  <1>4. CASE OfflineCheck
    BY <1>4 DEF OfflineCheck, ToggleTo, NoToggle, HasActiveRide
  <1>5. CASE OfflineSet
    BY <1>5 DEF OfflineSet, ToggleTo
  <1>6. CASE OfflineLeave
    BY <1>6 DEF OfflineLeave, ToggleTo
  <1>7. CASE ToggleSave
    BY <1>7 DEF ToggleSave, UpdateOnlineStatus, NoToggle
  <1>8. CASE PingRefused
    BY <1>8 DEF PingRefused, Anomaly, SetApprovalStatus
  <1>9. CASE PingWrite
    BY <1>9 DEF PingWrite
  <1>10. CASE PingTelemetry
    BY <1>10 DEF PingTelemetry, Anomaly, SetApprovalStatus
  <1>11. CASE KeyExpires
    BY <1>11 DEF KeyExpires
  <1>12. CASE Logout
    BY <1>12 DEF Logout
  <1>13. CASE ForceOffline
    BY <1>13 DEF ForceOffline, LogoutStep, UpdateOnlineStatus
  <1>14. CASE SuspendDriver
    BY <1>14 DEF SuspendDriver
  <1>15. CASE SuspendRedis
    BY <1>15 DEF SuspendRedis
  <1>16. CASE ReinstateDriver
    BY <1>16 DEF ReinstateDriver, SetApprovalStatus
  <1>17. CASE ForceDriverOffline
    BY <1>17 DEF ForceDriverOffline, UpdateOnlineStatus
  <1>18. ASSUME NEW kind \in {"one", "batch"}, PingRead(kind) PROVE PoolInv'
    BY <1>18 DEF PingRead
  <1>19. ASSUME NEW t \in Trips, Offer(t) PROVE PoolInv'
    BY <1>19 DEF Offer, TripTo
  <1>20. ASSUME NEW t \in Trips, OfferEnds(t) PROVE PoolInv'
    BY <1>20 DEF OfferEnds, TripTo
  <1>27. ASSUME NEW t \in Trips, ListCandidate(t) \/ PassOver(t) PROVE PoolInv'
    BY <1>27 DEF ListCandidate, PassOver, TripTo
  <1>21. ASSUME NEW t \in Trips, Decline(t) PROVE PoolInv'
    BY <1>21 DEF Decline, UpdateOnlineStatus
  <1>22. ASSUME NEW t \in Trips, AcceptRide(t) PROVE PoolInv'
    BY <1>22 DEF AcceptRide, TripTo
  <1>23. ASSUME NEW t \in Trips, OnAccepted(t) PROVE PoolInv'
    BY <1>23 DEF OnAccepted, TripTo
  <1>24. ASSUME NEW t \in Trips, RideEnds(t) PROVE PoolInv'
    BY <1>24 DEF RideEnds, TripTo
  <1>25. ASSUME NEW t \in Trips, Release(t) PROVE PoolInv'
    BY <1>25 DEF Release, TripTo
  <1>26. ASSUME NEW t \in Trips, ReleaseLost(t) PROVE PoolInv'
    BY <1>26 DEF ReleaseLost, TripTo
  <1> QED
    BY <1>1, <1>2, <1>3, <1>4, <1>5, <1>6, <1>7, <1>8, <1>9, <1>10, <1>11,
       <1>12, <1>13, <1>14, <1>15, <1>16, <1>17, <1>18, <1>19, <1>20, <1>21,
       <1>22, <1>23, <1>24, <1>25, <1>26, <1>27
       DEF PresenceStep

\* What a step of the presence keeps of the invariant.
LEMMA PresenceKept ==
    ASSUME PresenceInv, PresenceNext
    PROVE  PresenceInv'
  <1>1. PresenceStep
    BY DEF PresenceNext
  <1>2. PresenceType'
    BY <1>1, PresenceTypeNext DEF PresenceInv
  <1> QED
    BY <1>1, <1>2, OneMatchNext, PoolNext DEF PresenceInv

\* And the properties follow from it.
LEMMA PresenceSafe ==
    ASSUME PresenceInv
    PROVE  OneRideAtATime /\ PoolAgreesWithProfile
  <1>1. ASSUME loose \cap {"overlap", "stale", "toggle", "logout"} = {}
        PROVE  Cardinality(Riding) \in Nat /\ Cardinality(Riding) <= 1
    <2>1. Riding \subseteq Matched
      BY DEF Riding, Matched, Engaged
    <2> QED
      BY <1>1, <2>1, OneAtMost DEF PresenceInv, OneMatch
  <1>2. PoolAgreesWithProfile
    BY DEF PoolAgreesWithProfile, Quiet, PresenceInv, PoolInv, Agreed,
           ComingOn, GoneOff, LoggedOut
  <1> QED
    BY <1>1, <1>2 DEF OneRideAtATime

-----------------------------------------------------------------------------
(* The papers.                                                              *)

\* An approval is about the live paper, or an upload is about to reopen it.
PapersInv ==
    profile = "APPROVED" /\ ~oddPapers =>
        \/ judged = live.version
        \/ \E u \in Uploads : upload[u].pc = "reopen"
\* An active driver is an approved one, or is about to stop being active.
RoleInv ==
    role = "DRIVER_ACTIVE" /\ ~oddRole =>
        \/ profile = "APPROVED" \/ apply = "role"
        \/ \E u \in Uploads : upload[u].pc = "role"
UploadsType == upload \in [Uploads -> [pc : {"idle", "store", "reopen", "role"},
                                      approved : BOOLEAN]]
PaperInv == UploadsType /\ PapersInv /\ RoleInv

\* NULL is no status.
LEMMA NoneNotApproved == None # "APPROVED"
  BY PapersAssumption DEF Statuses

\* What a step of the papers keeps of the invariant.
LEMMA PapersKept ==
    ASSUME PaperInv, PapersNext
    PROVE  PaperInv'
  <1> USE DEF SetStatus, UpdateUserRoleState, UploadTo
  <1>1. ASSUME NEW u \in Uploads, UploadRead(u) PROVE PaperInv'
    BY <1>1 DEF UploadRead, PaperInv, PapersInv, RoleInv, UploadsType
  <1>2. ASSUME NEW u \in Uploads, UploadStore(u) PROVE PaperInv'
    BY <1>2
       DEF UploadStore, UpsertDocument, PaperInv, PapersInv, RoleInv,
           UploadsType
  <1>3. ASSUME NEW u \in Uploads, UploadRefused(u) PROVE PaperInv'
    BY <1>3 DEF UploadRefused, PaperInv, PapersInv, RoleInv, UploadsType
  <1>4. ASSUME NEW u \in Uploads, UploadReopen(u) PROVE PaperInv'
    BY <1>4, NoneNotApproved
       DEF UploadReopen, PaperInv, PapersInv, RoleInv, UploadsType
  <1>5. ASSUME NEW u \in Uploads, UploadDemote(u) PROVE PaperInv'
    BY <1>5 DEF UploadDemote, PaperInv, PapersInv, RoleInv, UploadsType
  <1>6. CASE \/ ApplyRead \/ ApplyWrite \/ ApplyRole \/ ApproveRole
             \/ RequestDriverMoreInfo \/ GpsSuspends \/ UpsertDriverDocument
    BY <1>6 DEF ApplyRead, ApplyWrite, ApplyRole, ApproveRole,
                RequestDriverMoreInfo, GpsSuspends, UpsertDriverDocument,
                UpsertDocument, PaperInv, PapersInv, RoleInv, UploadsType
  <1>7. ASSUME NEW action \in {"approve", "reject"}, VerifyDriver(action)
        PROVE  PaperInv'
    BY <1>7
       DEF VerifyDriver, ApproveRow, RejectDriver, PaperInv, PapersInv,
           RoleInv, UploadsType
  <1>8. ASSUME NEW status \in {"Suspended", "Active"}, UpdateDriverStatus(status)
        PROVE  PaperInv'
    BY <1>8 DEF UpdateDriverStatus, SuspendProfile, ReinstateProfile, PaperInv,
                RoleInv, PapersInv, RoleInv, UploadsType
  <1>9. ASSUME NEW status \in Statuses, UpdateDriver(status) PROVE PaperInv'
    BY <1>9 DEF UpdateDriver, PaperInv, PapersInv, RoleInv, UploadsType
  <1>10. CASE CreateDriverFromAdmin \/ DeleteDriver
    BY <1>10, NoneNotApproved
       DEF CreateDriverFromAdmin, DeleteDriver, PaperInv, RoleInv, PapersInv,
           RoleInv, UploadsType
  <1> QED
    BY <1>1, <1>2, <1>3, <1>4, <1>5, <1>6, <1>7, <1>8, <1>9, <1>10
       DEF PapersNext

\* And the properties follow from it.
LEMMA PapersSafe ==
    ASSUME PaperInv
    PROVE  ApprovedOnSeenPapers /\ ActiveMeansApproved
  BY DEF PaperInv, PapersInv, RoleInv, NothingInFlight, ApprovedOnSeenPapers,
         ActiveMeansApproved

-----------------------------------------------------------------------------
(* The vehicles.                                                            *)

CarRow == [there : BOOLEAN, active : BOOLEAN, type : Types \cup {None},
           born : Nat]
CarRequest == [op : {"add", "fill", "switch", "delete", None},
               pc : {"idle", "clear", "insert", "insertActive", "switch",
                     "delete", "next"},
               car : Cars \cup {None}, was : BOOLEAN]
\* The requests that put the first vehicle on file, and those that take one.
Filling(q) == carReq[q].pc \in {"clear", "insertActive"}
Deleting(q) == carReq[q].pc \in {"delete", "next"}
CarsType ==
    /\ car \in [Cars -> CarRow]
    /\ carType \in Types
    /\ carReq \in [CarRequests -> CarRequest]
    /\ IsFiniteSet(Present)
    /\ \A v \in Present : car[v].type \in Types
    /\ \A q \in CarRequests :
          /\ carReq[q].pc # "idle" => carReq[q].car \in Cars
          /\ carReq[q].pc = "insert" => carReq[q].op = "add"
          /\ Filling(q) => carReq[q].op \in {"add", "fill"}
          /\ carReq[q].pc = "switch" => carReq[q].op = "switch"
          /\ Deleting(q) => carReq[q].op = "delete"

\* What each request in flight may rely on, unless they crossed.
RequestsOK ==
    /\ \A q \in CarRequests : Filling(q) => Present = {}
    /\ Present = {} => \A q, r \in CarRequests :
           carReq[q].pc # "idle" /\ carReq[r].pc # "idle" => Filling(q) /\ q = r
    /\ \A q, r \in CarRequests :
           Deleting(q) /\ (Deleting(r) \/ carReq[r].pc = "switch") => q = r
    /\ \A q \in CarRequests : carReq[q].pc = "switch" =>
           car[carReq[q].car].there
    /\ \A q \in CarRequests : carReq[q].pc = "delete" =>
           /\ car[carReq[q].car].there
           /\ carReq[q].was = car[carReq[q].car].active
           /\ \E v \in Present : v # carReq[q].car
\* One vehicle is active, and the profile has its type, but for what is apart.
OneActive ==
    /\ "untyped" \notin apart =>
           \A v \in Present : car[v].active => car[v].type = carType
    /\ \A v, w \in Present : car[v].active /\ car[w].active => v = w
    /\ Present # {} => \/ \E v \in Present : car[v].active
                      \/ \E q \in CarRequests : carReq[q].pc = "next"
                      \/ "unswitched" \in apart
CarInv == CarsType /\ (crossed = {} => RequestsOK /\ OneActive)

\* A set of naturals has a least member.
LEMMA LeastThere ==
    ASSUME NEW S \in SUBSET Nat, S # {}
    PROVE  \E m \in S : \A n \in S : m <= n
  <1> DEFINE R == OpToRel(<, Nat)
  <1>1. \E m \in S : \A n \in S : ~(<<n, m>> \in R)
    BY NatLessThanWellFounded, WFMin
  <1>2. \A m, n \in S : <<n, m>> \in R <=> n < m
    BY DEF OpToRel
  <1> HIDE DEF R
  <1>3. \A m, n \in S : ~(n < m) => m <= n
    OBVIOUS
  <1> QED
    BY <1>1, <1>2, <1>3

\* Of the vehicles there are, one is the oldest.
LEMMA OldestIsThere ==
    ASSUME CarsType, Present # {}
    PROVE  Oldest \in Present
  <1> DEFINE S == {car[v].born : v \in Present}
  <1>1. S \in SUBSET Nat /\ S # {}
    BY DEF CarsType, CarRow, Present
  <1>2. PICK m \in S : \A n \in S : m <= n
    BY <1>1, LeastThere
  <1>3. \E v \in Present : \A w \in Present : car[v].born <= car[w].born
    BY <1>2
  <1> QED
    BY <1>3 DEF Oldest

\* A row keeps its kind when its mark moves.
LEMMA MarkSet ==
    ASSUME NEW rec \in CarRow, NEW b \in BOOLEAN
    PROVE  /\ [rec EXCEPT !.active = b] \in CarRow
           /\ [rec EXCEPT !.active = b].there = rec.there
           /\ [rec EXCEPT !.active = b].type = rec.type
           /\ [rec EXCEPT !.active = b].active = b
  BY DEF CarRow

\* No vehicle is active for a moment ...
LEMMA NoneActive ==
    ASSUME CarsType
    PROVE  /\ Deactivated \in [Cars -> CarRow]
           /\ \A v \in Cars : /\ Deactivated[v].there = car[v].there
                             /\ Deactivated[v].type = car[v].type
                             /\ Deactivated[v].active = FALSE
  <1>1. \A v \in Cars : car[v] \in CarRow
    BY DEF CarsType
  <1>2. \A v \in Cars : Deactivated[v] = [car[v] EXCEPT !.active = FALSE]
    BY DEF Deactivated
  <1>3. ASSUME NEW v \in Cars
        PROVE  /\ Deactivated[v] \in CarRow
               /\ Deactivated[v].there = car[v].there
               /\ Deactivated[v].type = car[v].type
               /\ Deactivated[v].active = FALSE
    <2>1. /\ car[v] \in CarRow
          /\ Deactivated[v] = [car[v] EXCEPT !.active = FALSE]
      BY <1>1, <1>2
    <2> QED
      BY ONLY <2>1 DEF CarRow
  <1> QED
    BY <1>3 DEF Deactivated

\* ... and after a switch the one switched to is, if it is there.
LEMMA Switched ==
    ASSUME CarsType, NEW v \in Cars, NEW type \in Types, Switch(v, type)
    PROVE  /\ car' \in [Cars -> CarRow] /\ carType' = type
           /\ \A w \in Cars : car'[w].there = car[w].there
           /\ \A w \in Cars : car'[w].type = car[w].type
           /\ \A w \in Cars : car'[w].active = IF w = v THEN car[v].there ELSE FALSE
           /\ Present' = Present
  <1>1. /\ Deactivated \in [Cars -> CarRow] /\ car[v].there \in BOOLEAN
        /\ car' = [Deactivated EXCEPT ![v] =
                       [Deactivated[v] EXCEPT !.active = car[v].there]]
    BY NoneActive DEF Switch, CarsType, CarRow
  <1>2. \A w \in Cars : car'[w] = IF w = v
              THEN [Deactivated[w] EXCEPT !.active = car[v].there]
              ELSE Deactivated[w]
    BY <1>1
  <1>3. ASSUME NEW w \in Cars
        PROVE  /\ car'[w] \in CarRow
               /\ car'[w].there = car[w].there
               /\ car'[w].type = car[w].type
               /\ car'[w].active = IF w = v THEN car[v].there ELSE FALSE
    <2>1. Deactivated[w] \in CarRow
      BY <1>1
    <2>2. CASE w = v
      <3>1. car'[w] = [Deactivated[w] EXCEPT !.active = car[v].there]
        BY <1>2, <2>2
      <3>2. /\ car'[w] \in CarRow /\ car'[w].there = Deactivated[w].there
            /\ car'[w].type = Deactivated[w].type
            /\ car'[w].active = car[v].there
        BY ONLY <2>1, <3>1, <1>1 DEF CarRow
      <3> QED
        BY <2>2, <3>2, NoneActive
    <2>3. CASE w # v
      BY <1>2, <2>1, <2>3, NoneActive
    <2> QED
      BY <2>2, <2>3
  <1>4. car' \in [Cars -> CarRow]
    BY <1>1, <1>3
  <1> QED
    BY <1>3, <1>4 DEF Present, Switch

\* A vehicle comes on file.
LEMMA Inserted ==
    ASSUME CarsType, NEW v \in Cars, ~car[v].there, NEW type \in Types,
           NEW on \in BOOLEAN, InsertCar(v, type, on)
    PROVE  /\ car' \in [Cars -> CarRow]
           /\ \A w \in Cars \ {v} : car'[w] = car[w]
           /\ car'[v].there /\ car'[v].type = type /\ car'[v].active = on
           /\ Present' = Present \cup {v} /\ IsFiniteSet(Present')
  <1>1. 1 + Cardinality(Present) \in Nat
    BY FS_CardinalityType DEF CarsType
  <1>2. [there |-> TRUE, active |-> on, type |-> type,
         born |-> 1 + Cardinality(Present)] \in CarRow
    BY <1>1 DEF CarRow
  <1>3. /\ car' \in [Cars -> CarRow]
        /\ \A w \in Cars \ {v} : car'[w] = car[w]
        /\ car'[v].there /\ car'[v].type = type /\ car'[v].active = on
    BY <1>2 DEF InsertCar, CarsType
  <1>4. Present' = Present \cup {v}
    BY <1>3 DEF Present
  <1>5. IsFiniteSet(Present')
    BY <1>4, FS_AddElement DEF CarsType
  <1> QED
    BY <1>3, <1>4, <1>5

\* A request of the driver's app begins.
LEMMA RequestBegins ==
    ASSUME CarsType, NEW q \in CarRequests, NEW v \in Cars,
           NEW op \in {"add", "fill", "switch", "delete"},
           NEW pc \in {"clear", "insert", "switch", "delete"},
           CarBegins(q, op, v, pc)
    PROVE  /\ carReq[q].pc = "idle" /\ carReq' \in [CarRequests -> CarRequest]
           /\ \A r \in CarRequests \ {q} : carReq'[r] = carReq[r]
           /\ carReq'[q].op = op /\ carReq'[q].pc = pc
           /\ carReq'[q].car = v /\ carReq'[q].was = car[v].active
  <1>1. [op |-> op, pc |-> pc, car |-> v, was |-> car[v].active] \in CarRequest
    BY DEF CarsType, CarRow, CarRequest
  <1> QED
    BY <1>1 DEF CarBegins, CarsType
\* It goes on.
LEMMA RequestGoesOn ==
    ASSUME CarsType, NEW q \in CarRequests, NEW pc \in {"insertActive", "next"},
           CarTo(q, pc)
    PROVE  /\ carReq' \in [CarRequests -> CarRequest]
           /\ \A r \in CarRequests \ {q} : carReq'[r] = carReq[r]
           /\ carReq'[q].pc = pc /\ carReq'[q].op = carReq[q].op
           /\ carReq'[q].car = carReq[q].car
  <1>1. carReq[q] \in CarRequest
    BY DEF CarsType
  <1>2. [carReq[q] EXCEPT !.pc = pc] \in CarRequest
    BY <1>1 DEF CarRequest
  <1>3. carReq' = [carReq EXCEPT ![q] = [carReq[q] EXCEPT !.pc = pc]]
    BY DEF CarTo, CarsType
  <1>4. /\ carReq'[q] = [carReq[q] EXCEPT !.pc = pc]
        /\ carReq' \in [CarRequests -> CarRequest]
    BY <1>2, <1>3 DEF CarsType
  <1> QED
    BY <1>1, <1>3, <1>4 DEF CarRequest, CarsType
\* It ends.
LEMMA RequestEnds ==
    ASSUME CarsType, NEW q \in CarRequests, CarDone(q)
    PROVE  /\ carReq' \in [CarRequests -> CarRequest]
           /\ \A r \in CarRequests \ {q} : carReq'[r] = carReq[r]
           /\ carReq'[q].pc = "idle"
  BY DEF CarDone, NoCarReq, CarsType, CarRequest

\* The types, through every step.
LEMMA CarsTypeNext ==
    ASSUME CarsType, VehiclesNext
    PROVE  CarsType'
  <1>1. ASSUME NEW q \in CarRequests, NEW v \in Cars,
               AddRead(q, v) \/ SwitchRead(q, v) \/ DeleteRead(q, v)
        PROVE  CarsType'
    <2>1. UNCHANGED <<car, carType>> /\ Present' = Present
      BY <1>1 DEF AddRead, SwitchRead, DeleteRead, Present
    <2>2. PICK op \in {"add", "fill", "switch", "delete"},
                pc \in {"clear", "insert", "switch", "delete"} :
             /\ CarBegins(q, op, v, pc)
             /\ pc \in {"clear", "insert"} => op = "add"
             /\ pc \in {"switch", "delete"} => op = pc
      BY <1>1 DEF AddRead, SwitchRead, DeleteRead
    <2>3. /\ carReq' \in [CarRequests -> CarRequest]
          /\ \A r \in CarRequests \ {q} : carReq'[r] = carReq[r]
          /\ carReq'[q].op = op /\ carReq'[q].pc = pc /\ carReq'[q].car = v
      BY <2>2, RequestBegins
    <2> QED
      BY <2>1, <2>2, <2>3 DEF CarsType, Filling, Deleting
  <1>2. ASSUME NEW q \in CarRequests, BackfillRead(q) PROVE CarsType'
    <2>1. /\ UNCHANGED <<car, carType>> /\ Present' = Present
          /\ CarBegins(q, "fill", Original, "clear") /\ Original \in Cars
      BY <1>2, VehiclesAssumption DEF BackfillRead, Present
    <2>2. /\ carReq' \in [CarRequests -> CarRequest]
          /\ \A r \in CarRequests \ {q} : carReq'[r] = carReq[r]
          /\ carReq'[q].op = "fill" /\ carReq'[q].pc = "clear"
          /\ carReq'[q].car = Original
      BY <2>1, RequestBegins
    <2> QED
      BY <2>1, <2>2 DEF CarsType, Filling, Deleting
  <1>3. ASSUME NEW q \in CarRequests, AddClear(q) PROVE CarsType'
    <2>1. /\ car' = Deactivated /\ carType' = carType
          /\ CarTo(q, "insertActive") /\ carReq[q].pc = "clear"
      BY <1>3 DEF AddClear
    <2>2. /\ car' \in [Cars -> CarRow] /\ Present' = Present
          /\ \A v \in Present : car'[v].type \in Types
      BY <2>1, NoneActive DEF CarsType, Present
    <2>3. /\ carReq' \in [CarRequests -> CarRequest]
          /\ \A r \in CarRequests \ {q} : carReq'[r] = carReq[r]
          /\ carReq'[q].pc = "insertActive" /\ carReq'[q].op = carReq[q].op
          /\ carReq'[q].car = carReq[q].car
      BY <2>1, RequestGoesOn
    <2> QED
      BY <2>1, <2>2, <2>3 DEF CarsType, Filling, Deleting
  <1>4. ASSUME NEW q \in CarRequests, DeleteRow(q) PROVE CarsType'
    <2>1. /\ car' \in [Cars -> CarRow] /\ Present' \subseteq Present
          /\ \A v \in Present' : car'[v].type = car[v].type
      BY <1>4 DEF DeleteRow, NoCar, CarsType, CarRow, Present
    <2>2. IsFiniteSet(Present')
      BY <2>1, FS_Subset DEF CarsType
    <2> QED
      BY <1>4, <2>1, <2>2, RequestGoesOn, RequestEnds
         DEF DeleteRow, CarsType, Filling, Deleting
  <1>5. ASSUME NEW q \in CarRequests, DeleteNext(q) PROVE CarsType'
    <2>1. /\ car' \in [Cars -> CarRow] /\ Present' = Present
          /\ carType' \in Types
          /\ \A v \in Present : car'[v].type = car[v].type
      <3>1. CASE Present = {}
        BY <1>5, <3>1 DEF DeleteNext, CarsType, Present
      <3>2. CASE Present # {}
        <4>1. Oldest \in Cars /\ car[Oldest].there
          BY <3>2, OldestIsThere DEF Present
        <4>2. /\ Switch(Oldest, car[Oldest].type)
              /\ car[Oldest].type \in Types
          BY <1>5, <3>2, <4>1 DEF DeleteNext, CarsType, Present
        <4>3. /\ car' \in [Cars -> CarRow] /\ Present' = Present
              /\ carType' = car[Oldest].type
              /\ \A w \in Cars : car'[w].type = car[w].type
          BY <4>1, <4>2, Switched
        <4> QED
          BY <4>2, <4>3 DEF Present
      <3> QED
        BY <3>1, <3>2
    <2> QED
      BY <1>5, <2>1, RequestEnds DEF DeleteNext, CarsType, Filling, Deleting
  <1>6. ASSUME NEW q \in CarRequests, NEW type \in Types, AddInsert(q, type)
        PROVE  CarsType'
    <2>1. carReq[q].car \in Cars
      BY <1>6 DEF AddInsert, CarsType
    <2>2. /\ car' \in [Cars -> CarRow] /\ IsFiniteSet(Present')
          /\ \A v \in Present' : car'[v].type \in Types
      <3>1. CASE UNCHANGED car
        BY <3>1 DEF CarsType, Present
      <3>2. CASE /\ ~car[carReq[q].car].there
                 /\ InsertCar(carReq[q].car, type, carReq[q].pc = "insertActive")
        <4> DEFINE v == carReq[q].car
        <4>1. /\ car' \in [Cars -> CarRow] /\ IsFiniteSet(Present')
              /\ \A w \in Cars \ {v} : car'[w] = car[w]
              /\ car'[v].type = type /\ Present' = Present \cup {v}
          BY <2>1, <3>2, Inserted
        <4> QED
          BY <4>1 DEF CarsType, Present
      <3> QED
        BY <1>6, <3>1, <3>2 DEF AddInsert
    <2> QED
      BY <1>6, <2>2, RequestEnds DEF AddInsert, CarsType, Filling, Deleting
  <1>7. ASSUME NEW q \in CarRequests, NEW type \in Types, SwitchWrite(q, type)
        PROVE  CarsType'
    <2>1. carReq[q].car \in Cars
      BY <1>7 DEF SwitchWrite, CarsType
    <2>2. /\ car' \in [Cars -> CarRow] /\ Present' = Present
          /\ carType' \in Types
          /\ \A v \in Present : car'[v].type = car[v].type
      <3>1. Switch(carReq[q].car, type)
        BY <1>7 DEF SwitchWrite
      <3>2. /\ car' \in [Cars -> CarRow] /\ Present' = Present
            /\ carType' = type
            /\ \A w \in Cars : car'[w].type = car[w].type
        BY <2>1, <3>1, Switched
      <3> QED
        BY <3>2 DEF Present
    <2> QED
      BY <1>7, <2>2, RequestEnds DEF SwitchWrite, CarsType, Filling, Deleting
  <1>8. CASE RideMoves \/ Retyped
    BY <1>8 DEF RideMoves, Retyped, CarsType, Filling, Deleting, Present
  <1>9. ASSUME NEW q \in CarRequests, CarFails(q) PROVE CarsType'
    <2>1. UNCHANGED <<car, carType>> /\ Present' = Present /\ CarDone(q)
      BY <1>9 DEF CarFails, Present
    <2> QED
      BY <2>1, RequestEnds DEF CarsType, Filling, Deleting
  <1> QED
    BY <1>1, <1>2, <1>3, <1>4, <1>5, <1>6, <1>7, <1>8, <1>9 DEF VehiclesNext

\* A switch leaves one vehicle active, whose type the profile has.
LEMMA SwitchedOneActive ==
    ASSUME CarsType, NEW v \in Cars, car[v].there, Switch(v, car[v].type),
           car[v].type \in Types
    PROVE  /\ Present' = Present /\ v \in Present
           /\ \A w \in Present : car'[w].active => w = v
           /\ car'[v].active /\ car'[v].type = carType'
           /\ \A w \in Cars : car'[w].there = car[w].there
  BY Switched DEF Present

\* What the requests rely on, and the one active vehicle, through every step.
LEMMA CarsNext ==
    ASSUME CarsType, CarsType', RequestsOK, OneActive, VehiclesNext, crossed = {},
           crossed' = {}
    PROVE  RequestsOK' /\ OneActive'
  <1>1. ASSUME NEW q \in CarRequests, NEW v \in Cars, AddRead(q, v)
        PROVE  RequestsOK' /\ OneActive'
    <2>1. /\ UNCHANGED <<car, carType, apart>> /\ Present' = Present
          /\ CarBegins(q, "add", v, IF Present = {} THEN "clear" ELSE "insert")
          /\ Present = {} => Busy({"add", "fill"}) = {}
      BY <1>1 DEF AddRead, Cross, Present
    <2>2. /\ \A r \in CarRequests \ {q} : carReq'[r] = carReq[r]
          /\ carReq'[q].pc = (IF Present = {} THEN "clear" ELSE "insert")
          /\ carReq[q].pc = "idle"
      BY <2>1, RequestBegins
    <2>3. CASE Present # {}
      BY <2>1, <2>2, <2>3 DEF RequestsOK, OneActive, Filling, Deleting
    <2>4. CASE Present = {}
      <3>1. \A r \in CarRequests : carReq[r].pc = "idle"
        BY <2>1, <2>4 DEF Busy, RequestsOK, CarsType, Filling
      <3> QED
        BY <2>1, <2>2, <2>4, <3>1 DEF RequestsOK, OneActive, Filling, Deleting
    <2> QED
      BY <2>3, <2>4
  <1>2. ASSUME NEW q \in CarRequests, NEW v \in Cars, SwitchRead(q, v)
        PROVE  RequestsOK' /\ OneActive'
    <2>1. /\ UNCHANGED <<car, carType, apart>> /\ Present' = Present /\ Present # {}
          /\ CarBegins(q, "switch", v, "switch") /\ car[v].there
          /\ Busy({"delete"}) = {}
      BY <1>2 DEF SwitchRead, Cross, Present
    <2>2. /\ \A r \in CarRequests \ {q} : carReq'[r] = carReq[r]
          /\ carReq'[q].pc = "switch" /\ carReq[q].pc = "idle"
          /\ carReq'[q].car = v
      BY <2>1, RequestBegins
    <2>3. \A r \in CarRequests : ~Deleting(r)
      BY <2>1 DEF Busy, CarsType
    <2> QED
      BY <2>1, <2>2, <2>3 DEF RequestsOK, OneActive, Filling, Deleting
  <1>3. ASSUME NEW q \in CarRequests, NEW v \in Cars, DeleteRead(q, v)
        PROVE  RequestsOK' /\ OneActive'
    <2>1. /\ UNCHANGED <<car, carType, apart>> /\ Present' = Present
          /\ CarBegins(q, "delete", v, "delete") /\ car[v].there
          /\ Busy({"delete", "switch"}) = {} /\ v \in Present
      BY <1>3 DEF DeleteRead, Cross, Present
    <2>2. /\ \A r \in CarRequests \ {q} : carReq'[r] = carReq[r]
          /\ carReq'[q].pc = "delete" /\ carReq[q].pc = "idle"
          /\ carReq'[q].car = v /\ carReq'[q].was = car[v].active
      BY <2>1, RequestBegins
    <2>3. \A r \in CarRequests : ~Deleting(r) /\ carReq[r].pc # "switch"
      BY <2>1 DEF Busy, CarsType
    <2>4. \E w \in Present : w # v
      <3>1. SUFFICES ASSUME Present = {v} PROVE FALSE
        BY <2>1
      <3>2. Cardinality(Present) > 1
        BY <1>3 DEF DeleteRead
      <3>3. Cardinality({v}) = 1
        BY FS_Singleton
      <3> QED
        BY <3>1, <3>2, <3>3
    <2> QED
      BY <2>1, <2>2, <2>3, <2>4 DEF RequestsOK, OneActive, Filling, Deleting
  <1>4. ASSUME NEW q \in CarRequests, BackfillRead(q)
        PROVE  RequestsOK' /\ OneActive'
    <2>1. /\ UNCHANGED <<car, carType, apart>> /\ Present' = {} /\ Present = {}
          /\ CarBegins(q, "fill", Original, "clear") /\ Original \in Cars
          /\ Busy({"add", "fill"}) = {}
      BY <1>4, VehiclesAssumption DEF BackfillRead, Cross, Present
    <2>2. /\ \A r \in CarRequests \ {q} : carReq'[r] = carReq[r]
          /\ carReq'[q].pc = "clear" /\ carReq[q].pc = "idle"
          /\ carReq'[q].op = "fill"
      BY <2>1, RequestBegins
    <2>3. \A r \in CarRequests : carReq[r].pc = "idle"
      BY <2>1 DEF Busy, RequestsOK, CarsType, Filling
    <2> QED
      BY <2>1, <2>2, <2>3 DEF RequestsOK, OneActive, Filling, Deleting
  <1>5. ASSUME NEW q \in CarRequests, AddClear(q)
        PROVE  RequestsOK' /\ OneActive'
    <2>1. /\ car' = Deactivated /\ UNCHANGED <<carType, apart>>
          /\ CarTo(q, "insertActive") /\ carReq[q].pc = "clear"
      BY <1>5 DEF AddClear
    <2>2. Present' = {} /\ Present = {}
      BY <2>1, NoneActive DEF RequestsOK, Filling, Present
    <2>3. /\ \A r \in CarRequests \ {q} : carReq'[r] = carReq[r]
          /\ carReq'[q].pc = "insertActive" /\ carReq'[q].op = carReq[q].op
      BY <2>1, RequestGoesOn
    <2> QED
      BY <2>1, <2>2, <2>3 DEF RequestsOK, OneActive, Filling, Deleting
  <1>6. ASSUME NEW q \in CarRequests, DeleteRow(q)
        PROVE  RequestsOK' /\ OneActive'
    <2> DEFINE v == carReq[q].car
    <2>1. /\ carReq[q].pc = "delete" /\ v \in Cars /\ car[v].there
          /\ carReq[q].was = car[v].active
          /\ \E w \in Present : w # v
          /\ \A r \in CarRequests \ {q} :
                 ~Deleting(r) /\ carReq[r].pc # "switch" /\ ~Filling(r)
      BY <1>6 DEF DeleteRow, CarsType, RequestsOK, Deleting
    <2>2. /\ \A w \in Cars \ {v} : car'[w] = car[w]
          /\ Present' = Present \ {v} /\ Present' # {}
          /\ UNCHANGED <<carType, apart>>
      BY <1>6, <2>1 DEF DeleteRow, NoCar, CarsType, Present
    <2>3. IF car[v].active THEN CarTo(q, "next") ELSE CarDone(q)
      BY <1>6, <2>1 DEF DeleteRow
    <2>4. /\ \A r \in CarRequests \ {q} : carReq'[r] = carReq[r]
          /\ carReq'[q].pc = IF car[v].active THEN "next" ELSE "idle"
      BY <2>3, RequestGoesOn, RequestEnds
    <2>5. RequestsOK'
      BY <2>1, <2>2, <2>4 DEF RequestsOK, Filling, Deleting
    <2>6. OneActive'
      BY <2>1, <2>2, <2>4 DEF OneActive, RequestsOK, Deleting, Present
    <2> QED
      BY <2>5, <2>6
  <1>7. ASSUME NEW q \in CarRequests, DeleteNext(q)
        PROVE  RequestsOK' /\ OneActive'
    <2>1. /\ carReq[q].pc = "next" /\ Present # {}
          /\ \A r \in CarRequests \ {q} :
                 ~Deleting(r) /\ carReq[r].pc # "switch" /\ ~Filling(r)
      BY <1>7 DEF DeleteNext, RequestsOK, Deleting, Filling
    <2>2. /\ Oldest \in Cars /\ car[Oldest].there
          /\ Switch(Oldest, car[Oldest].type) /\ car[Oldest].type \in Types
      BY <1>7, <2>1, OldestIsThere DEF DeleteNext, CarsType, Present
    <2>3. /\ Present' = Present /\ Oldest \in Present
          /\ \A w \in Present : car'[w].active => w = Oldest
          /\ car'[Oldest].active /\ car'[Oldest].type = carType'
      BY <2>2, SwitchedOneActive
    <2>4. /\ \A r \in CarRequests \ {q} : carReq'[r] = carReq[r]
          /\ carReq'[q].pc = "idle"
      BY <1>7, RequestEnds DEF DeleteNext
    <2> QED
      BY <2>1, <2>3, <2>4 DEF RequestsOK, OneActive, Filling, Deleting
  <1>8. ASSUME NEW q \in CarRequests, NEW type \in Types, AddInsert(q, type)
        PROVE  RequestsOK' /\ OneActive'
    <2> DEFINE v == carReq[q].car
    <2>1. v \in Cars /\ carReq[q].pc \in {"insert", "insertActive"}
      BY <1>8 DEF AddInsert, CarsType
    <2>2. /\ \A r \in CarRequests \ {q} : carReq'[r] = carReq[r]
          /\ carReq'[q].pc = "idle" /\ carType' = carType
      BY <1>8, RequestEnds DEF AddInsert
    <2>3. CASE UNCHANGED <<car, apart>>
      <3>1. Present' = Present
        BY <2>3 DEF Present
      <3> QED
        BY <2>1, <2>2, <2>3, <3>1 DEF RequestsOK, OneActive, Filling, Deleting
    <2>4. CASE /\ ~car[v].there
               /\ InsertCar(v, type, carReq[q].pc = "insertActive")
               /\ apart' = IF carReq[q].pc = "insertActive" /\ type # carType
                           THEN apart \cup {"untyped"} ELSE apart
      <3>1. /\ \A w \in Cars \ {v} : car'[w] = car[w]
            /\ car'[v].there /\ car'[v].type = type
            /\ car'[v].active = (carReq[q].pc = "insertActive")
            /\ Present' = Present \cup {v}
        BY <2>1, <2>4, Inserted
      <3>2. CASE carReq[q].pc = "insert"
        <4>1. Present # {} /\ v \notin Present
          BY <2>4, <3>2 DEF RequestsOK, Filling, Present
        <4>2. RequestsOK'
          <5>1. \A r \in CarRequests : Filling(r) => carReq[r].pc = "idle"
            BY <4>1 DEF RequestsOK, Filling
          <5>2. \A w \in Present : w # v /\ car'[w] = car[w]
            BY <3>1, <4>1 DEF Present
          <5>3. \A r \in CarRequests :
                   carReq[r].pc \in {"switch", "delete"} /\ car[carReq[r].car].there
                      => carReq[r].car \in Present
            BY DEF CarsType, Present
          <5> QED
            BY <2>1, <2>2, <3>1, <3>2, <4>1, <5>1, <5>2, <5>3
               DEF RequestsOK, Filling, Deleting
        <4>3. OneActive'
          <5>1. \A w \in Present : w # v /\ car'[w] = car[w]
            BY <3>1, <4>1 DEF Present
          <5>2. ~car'[v].active /\ apart' = apart
            BY <2>4, <3>1, <3>2
          <5> QED
            BY <2>1, <2>2, <3>1, <3>2, <4>1, <5>1, <5>2 DEF OneActive
        <4> QED
          BY <4>2, <4>3
      <3>3. CASE carReq[q].pc = "insertActive"
        <4>1. /\ Present = {} /\ (type # carType => "untyped" \in apart')
              /\ \A r \in CarRequests \ {q} : carReq[r].pc = "idle"
          BY <2>4, <3>3 DEF RequestsOK, Filling
        <4>2. \A r \in CarRequests : carReq'[r].pc = "idle"
          BY <2>2, <4>1
        <4>3. /\ Present' = {v} /\ car'[v].active
              /\ car'[v].type # carType' => "untyped" \in apart'
          BY <2>2, <3>1, <3>3, <4>1
        <4> QED
          BY <4>2, <4>3 DEF RequestsOK, OneActive, Filling, Deleting
      <3> QED
        BY <2>1, <3>2, <3>3
    <2> QED
      BY <1>8, <2>3, <2>4 DEF AddInsert
  <1>9. ASSUME NEW q \in CarRequests, NEW type \in Types, SwitchWrite(q, type)
        PROVE  RequestsOK' /\ OneActive'
    <2> DEFINE v == carReq[q].car
    <2>1. /\ v \in Cars /\ car[v].there /\ type = car[v].type
          /\ \A r \in CarRequests : ~Deleting(r) /\ ~Filling(r)
      BY <1>9 DEF SwitchWrite, CarsType, RequestsOK, Deleting, Filling, Present
    <2>2. /\ Present' = Present /\ v \in Present
          /\ \A w \in Present : car'[w].active => w = v
          /\ car'[v].active /\ car'[v].type = carType'
          /\ \A w \in Cars : car'[w].there = car[w].there
      BY <1>9, <2>1, SwitchedOneActive DEF SwitchWrite
    <2>3. /\ \A r \in CarRequests \ {q} : carReq'[r] = carReq[r]
          /\ carReq'[q].pc = "idle"
      BY <1>9, RequestEnds DEF SwitchWrite
    <2>4. \A r \in CarRequests : carReq[r].pc # "idle" => carReq[r].car \in Cars
      BY DEF CarsType
    <2> QED
      BY <2>1, <2>2, <2>3, <2>4 DEF RequestsOK, OneActive, Filling, Deleting
  <1>10. CASE RideMoves \/ Retyped
    BY <1>10 DEF RideMoves, Retyped, Cross, RequestsOK, OneActive, Filling,
                 Deleting, Present
  <1>11. ASSUME NEW q \in CarRequests, CarFails(q)
         PROVE  RequestsOK' /\ OneActive'
    <2>1. /\ UNCHANGED <<car, carType>> /\ Present' = Present
          /\ apart \subseteq apart'
          /\ "untyped" \in apart' => "untyped" \in apart
          /\ carReq[q].pc = "next" => "unswitched" \in apart'
      BY <1>11 DEF CarFails, Present
    <2>2. /\ \A r \in CarRequests \ {q} : carReq'[r] = carReq[r]
          /\ carReq'[q].pc = "idle"
      BY <1>11, RequestEnds DEF CarFails
    <2>3. RequestsOK'
      BY <2>1, <2>2 DEF RequestsOK, Filling, Deleting
    <2>4. OneActive'
      BY <2>1, <2>2 DEF OneActive
    <2> QED
      BY <2>3, <2>4
  <1> QED
    BY <1>1, <1>2, <1>3, <1>4, <1>5, <1>6, <1>7, <1>8, <1>9, <1>10, <1>11
       DEF VehiclesNext

\* What a step of the vehicles keeps of the invariant: what has crossed has
\* crossed for good.
LEMMA CarsKept ==
    ASSUME CarInv, VehiclesNext
    PROVE  CarInv'
  <1>1. CarsType'
    BY CarsTypeNext DEF CarInv
  <1>2. crossed \subseteq crossed'
    BY DEF VehiclesNext, AddRead, SwitchRead, DeleteRead, BackfillRead,
           AddClear, DeleteRow, DeleteNext, AddInsert, SwitchWrite, RideMoves,
           Retyped, CarFails, Cross
  <1> QED
    BY <1>1, <1>2, CarsNext DEF CarInv

\* And the property follows from it.
LEMMA CarsSafe ==
    ASSUME CarInv
    PROVE  ProfileFollowsVehicle
  <1> SUFFICES ASSUME \A q \in CarRequests : carReq[q].pc = "idle", crossed = {}
               PROVE  /\ "untyped" \notin apart =>
                             \A v \in Present : car[v].active => car[v].type = carType
                      /\ Cardinality({v \in Present : car[v].active}) <= 1
                      /\ "unswitched" \notin apart =>
                             (Present # {} => \E v \in Present : car[v].active)
    BY DEF ProfileFollowsVehicle
  <1>1. OneActive
    BY DEF CarInv
  <1>2. Cardinality({v \in Present : car[v].active}) <= 1
    BY <1>1, OneAtMost DEF OneActive
  <1> QED
    BY <1>1, <1>2 DEF OneActive

-----------------------------------------------------------------------------
(* The three together.                                                      *)

DriversInv == PresenceInv /\ PaperInv /\ CarInv

\* It holds at first ...
LEMMA DriversInvInit == DriversInit => DriversInv
  <1> SUFFICES ASSUME DriversInit PROVE DriversInv
    OBVIOUS
  <1>1. PresenceInv
    BY DEF DriversInit, PresenceInit, PresenceInv, PresenceType, OneMatch,
           PoolInv, Agreed, ComingOn, GoneOff, LoggedOut, Matched, Engaged,
           NoToggle, ToggleRequest, TogglePoints, Profile, Position, Counters
  <1>2. PaperInv
    BY NoneNotApproved
       DEF DriversInit, PapersInit, PaperInv, PapersInv, RoleInv, UploadsType,
           NoUpload
  <1>3. CarInv
    <2>1. /\ VehiclesInit /\ \A q \in CarRequests : carReq[q] = NoCarReq
      BY DEF DriversInit, VehiclesInit
    <2>2. Present = {} \/ Present = {Original}
      BY VehiclesAssumption DEF DriversInit, VehiclesInit, Present, NoCar
    <2>3. IsFiniteSet(Present)
      BY <2>2, FS_EmptySet, FS_Singleton
    <2>5. \A v \in Present : car[v].active /\ car[v].type = carType
      BY <2>1 DEF VehiclesInit, NoCar, Present
    <2>4. CarsType
      <3>1. carType \in Types /\ NoCar \in CarRow
        BY <2>1 DEF VehiclesInit, NoCar, CarRow
      <3>2. [there |-> TRUE, active |-> TRUE, type |-> carType, born |-> 1]
                \in CarRow
        BY <3>1 DEF CarRow
      <3>3. \/ car = [v \in Cars |-> NoCar]
            \/ car = [v \in Cars |-> IF v # Original THEN NoCar
                     ELSE [there |-> TRUE, active |-> TRUE,
                           type |-> carType, born |-> 1]]
        BY <2>1 DEF VehiclesInit
      <3>4. car \in [Cars -> CarRow]
        BY <3>1, <3>2, <3>3
      <3>5. \A v \in Present : car[v].type \in Types
        BY <2>5, <3>1
      <3>6. carReq \in [CarRequests -> CarRequest]
        BY <2>1 DEF VehiclesInit, NoCarReq, CarRequest
      <3>7. \A q \in CarRequests : carReq[q].pc = "idle"
        BY <2>1 DEF NoCarReq
      <3> QED
        BY <2>3, <3>1, <3>4, <3>5, <3>6, <3>7 DEF CarsType, Filling, Deleting
    <2>6. RequestsOK /\ OneActive
      BY <2>1, <2>2, <2>5
         DEF RequestsOK, OneActive, Filling, Deleting, NoCarReq
    <2> QED
      BY <2>4, <2>6 DEF CarInv
  <1> QED
    BY <1>1, <1>2, <1>3 DEF DriversInv

\* ... and through every step, of whichever part.
LEMMA DriversInvNext ==
    DriversInv /\ [DriversNext]_<<desk, presenceVars, paperVars, vehicleVars>>
        => DriversInv'
  <1> SUFFICES ASSUME DriversInv,
                      [DriversNext]_<<desk, presenceVars, paperVars, vehicleVars>>
               PROVE  DriversInv'
    OBVIOUS
  <1>1. PresenceNext \/ UNCHANGED presenceVars
    BY DEF DriversNext
  <1>2. PapersNext \/ UNCHANGED paperVars
    BY DEF DriversNext
  <1>3. VehiclesNext \/ UNCHANGED vehicleVars
    BY DEF DriversNext
  <1>4. PresenceInv'
    <2>1. CASE UNCHANGED presenceVars
      BY <2>1
         DEF DriversInv, presenceVars, PresenceInv, PresenceType, OneMatch,
             PoolInv, Agreed, ComingOn, GoneOff, LoggedOut, Matched
    <2> QED
      BY <1>1, <2>1, PresenceKept DEF DriversInv
  <1>5. PaperInv'
    <2>1. CASE UNCHANGED paperVars
      BY <2>1
         DEF DriversInv, paperVars, PaperInv, PapersInv, RoleInv, UploadsType
    <2> QED
      BY <1>2, <2>1, PapersKept DEF DriversInv
  <1>6. CarInv'
    <2>1. CASE UNCHANGED vehicleVars
      BY <2>1
         DEF DriversInv, vehicleVars, CarInv, CarsType, RequestsOK, OneActive,
             Filling, Deleting, Present
    <2> QED
      BY <1>3, <2>1, CarsKept DEF DriversInv
  <1> QED
    BY <1>4, <1>5, <1>6 DEF DriversInv

\* So it holds for good.
LEMMA DriversInvariance == DriversSpec => []DriversInv
  BY DriversInvInit, DriversInvNext, PTL DEF DriversSpec

\* A driver serves one ride at a time, unless an offer came from a list read
\* before the driver left the pool (or one that never asked it), a second offer
\* went out before the first ride reached their state, a switch was flipped
\* around a match, or a logout dropped the pointer (engine.go, SetAvailability,
\* ForceOffline): for any number of rides on offer and of searches.
THEOREM OneRideEach == DriversSpec => []OneRideAtATime
  BY DriversInvariance, PresenceSafe, PTL DEF DriversInv

\* When nothing is in flight, AVAILABLE in the pool and online-and-approved on
\* the profile say the same, although seven writers touch one or the other,
\* unless one of them wrote the row alone (the third GPS anomaly, the second
\* decline, the console), a writer crossed a match or a switch, a driver no
\* longer in the pool was offered a ride, or Redis lost a write.
THEOREM PoolIsProfile == DriversSpec => []PoolAgreesWithProfile
  BY DriversInvariance, PresenceSafe, PTL DEF DriversInv

\* An approved driver's live paper is the one that was reviewed, whatever
\* uploads, decisions and applications overlap (UploadDocument, ApproveDriver).
THEOREM ApprovalIsOfPapers == DriversSpec => []ApprovedOnSeenPapers
  BY DriversInvariance, PapersSafe, PTL DEF DriversInv

\* Who acts as a driver is an approved one, unless a writer set the role or the
\* status without the other.
THEOREM ActiveIsApproved == DriversSpec => []ActiveMeansApproved
  BY DriversInvariance, PapersSafe, PTL DEF DriversInv

\* The profile has the type of the one active vehicle, for any number of
\* vehicles and of switches, additions and deletions that overlap, unless two
\* requests both found no vehicle, a deletion overlapped a deletion or a switch,
\* or the switch after a deletion failed (vehicles.go).
THEOREM VehicleIsProfile == DriversSpec => []ProfileFollowsVehicle
  BY DriversInvariance, CarsSafe, PTL DEF DriversInv

=============================================================================
