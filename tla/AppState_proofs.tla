-------------------------- MODULE AppState_proofs --------------------------
(***************************************************************************)
(* Proofs about what an app has with the server (MCAppState): bookings,    *)
(* bargaining, sessions and connections, for any number of each and any    *)
(* bounds.  The four parts share no state: each is proved by itself, with  *)
(* an inductive invariant of its own, and PartsBehave joins them.          *)
(***************************************************************************)
EXTENDS MCAppState, TLAPS

-----------------------------------------------------------------------------
(* Bookings: the invariants.                                               *)

BookingSpec == BookingInit /\ [][BookingNext]_bookingVars

RequestPoints == {"idle", "lock", "guard", "insert", "point", "save", "unlock",
                  "cancel", "release"}
BookingType ==
    /\ status \in [Rides -> {None, "SEARCHING", "MATCHED", "OVER"}]
    /\ lock \in Requests \cup {None} /\ pointer \in Rides \cup {None}
    /\ request \in [Requests -> [pc : RequestPoints, key : Keys \cup {None},
                                 ride : Rides \cup {None}, dead : BOOLEAN]]
    /\ \A q \in Requests : request[q].pc \in {"point", "cancel", "release"} =>
                               request[q].ride \in Rides
    /\ search \in [Rides \X Loops -> {"none", "on", "release"}]
    /\ crashes \in Nat
    /\ recovery \in [pc : {"off", "scan", "restart"}, rides : SUBSET Rides]

\* The rides that count: under way, with nothing gone wrong with their guard.
Firm(r) == r \in Rides /\ Live(r) /\ r \notin loose
\* The request that still has the lock it took, and how far it is.
Locked(q, pcs) == q \in Requests /\ lock = q /\ request[q].pc \in pcs

\* Such a ride is named by the pointer, or is about to be by the request that
\* has the lock ...
Guarded ==
    \A r \in Rides : Firm(r) =>
        \/ pointer = r
        \/ \E q \in Requests : Locked(q, {"point"}) /\ request[q].ride = r
\* ... and whoever has the lock, past the check of the pointer, is alone.
Alone ==
    \A q \in Requests :
        /\ Locked(q, {"insert"}) => \A r \in Rides : ~Firm(r)
        /\ Locked(q, {"point"}) =>
               \A r \in Rides : Firm(r) => r = request[q].ride

-----------------------------------------------------------------------------
(* Bargaining: the invariant.                                              *)

NegotiationSpec == NegotiationInit /\ [][NegotiationNext]_negotiationVars

NegotiationType ==
    /\ agreed \in Fares \cup {None} /\ told \subseteq Fares
    /\ rounds \in Seq([number : Nat, by : Sides, fare : Fares])
    /\ offer \in [Offers -> [pc : {"idle", "count", "number", "insert", "lock",
                                   "confirm"},
                             by : Sides \cup {None}, fare : Fares \cup {None},
                             round : Nat]]
    /\ \A o \in Offers : offer[o].pc # "idle" =>
           offer[o].fare \in Fares /\ offer[o].by \in Sides

\* Who confirms has locked the fare, and everybody was told a locked fare.
LockedFareIsTold ==
    /\ \A o \in Offers : offer[o].pc = "confirm" => agreed = offer[o].fare
    /\ ToldFareIsAgreed

-----------------------------------------------------------------------------
(* Sessions: the invariant.                                                *)

SessionsSpec == SessionsInit /\ [][SessionsNext]_sessionVars

SessionsType ==
    /\ refresh \subseteq Pairs
    /\ device \in [Devices ->
           [held : Pairs \cup {None},
            pc : {"idle", "user", "lift", "revoke", "issue", "access"},
            next : Pairs \cup {None}, suspended : BOOLEAN,
            until : {"never", "ahead", "past"}]]
    /\ account \in [suspended : BOOLEAN, until : {"never", "ahead", "past"},
                    bans : Nat]
    /\ excused \in [Devices -> BOOLEAN]

\* A pair is of one device, as the one it holds or the one it is to get; a
\* device without a request has none to get; and the pair it holds, or gets,
\* can be refreshed, or the device is excused.
PairsOK ==
    \A d \in Devices :
        /\ device[d].next # None => device[d].pc = "access"
        /\ device[d].pc = "access" =>
               /\ device[d].next \in Pairs
               /\ device[d].next \in refresh \/ excused[d]
               /\ device[d].next # Held(d)
        /\ \A e \in Devices \ {d} :
              /\ Held(d) # None => Held(e) # Held(d)
              /\ device[d].next # None =>
                     device[d].next \notin {Held(e), device[e].next}
SessionsInv == SessionsType /\ PairsOK /\ StaysSignedIn

-----------------------------------------------------------------------------
(* Connections: the invariant.                                             *)

SocketsSpec == SocketsInit /\ [][SocketsNext]_socketVars

Pcs == {"new", "restore", "add", "replay", "open", "blocked", "ending",
        "clear", "remove", "gone"}
SocketsType ==
    /\ sock \in [AllSockets -> Pcs]
    /\ hub \in [Roles -> AllSockets \cup {None}]
    /\ newest \in [Roles -> AllSockets \cup {None}]
    /\ missed \in [Roles -> {"no", "full", "lost"}]
    /\ taken \in [Roles -> BOOLEAN]

\* The hub has the newest client or none; and a newest client that is still
\* connected was removed by somebody else's end.
HubOK ==
    \A x \in Roles :
        /\ newest[x] # None =>
               /\ RoleOf(newest[x]) = x
               /\ sock[newest[x]] # "new"
        /\ hub[x] \in {newest[x], None}
        /\ newest[x] # None /\ Connected(newest[x]) /\ hub[x] = None => taken[x]
SocketsInv == SocketsType /\ HubOK /\ HeardUnlessTakenOver

-----------------------------------------------------------------------------
(* Bookings: the types.                                                    *)

RequestRow == [pc : RequestPoints, key : Keys \cup {None},
               ride : Rides \cup {None}, dead : BOOLEAN]
RequestsType(requests) ==
    /\ requests \in [Requests -> RequestRow]
    /\ \A q \in Requests : requests[q].pc \in {"point", "cancel", "release"} =>
                               requests[q].ride \in Rides

\* A request that moves on, or ends.
LEMMA RequestMoves ==
    ASSUME BookingType, NEW q \in Requests,
           \/ Done(q)
           \/ \E pc \in RequestPoints :
                  /\ To(q, pc)
                  /\ pc \in {"point", "cancel", "release"} =>
                         request[q].ride \in Rides
    PROVE  RequestsType(request')
  <1>1. request \in [Requests -> RequestRow] /\ NoRequest_ \in RequestRow
    BY DEF BookingType, RequestRow, NoRequest_, RequestPoints
  <1>2. CASE Done(q)
    BY <1>1, <1>2 DEF Done, RequestsType, BookingType, NoRequest_
  <1>3. ASSUME NEW pc \in RequestPoints, To(q, pc),
               pc \in {"point", "cancel", "release"} =>
                   request[q].ride \in Rides
        PROVE  RequestsType(request')
    <2>1. [request[q] EXCEPT !.pc = pc] \in RequestRow
      BY <1>1 DEF RequestRow
    <2> QED
      BY <1>1, <1>3, <2>1 DEF To, RequestsType, BookingType, RequestRow
  <1> QED
    BY <1>2, <1>3

\* The steps of a request keep the types ...
LEMMA RequestTypes ==
    ASSUME BookingType, NEW q \in Requests, RequestStep(q)
    PROVE  BookingType'
  <1>0. /\ request[q] \in RequestRow
        /\ None \notin Rides
    BY BookingAssumption DEF BookingType, RequestRow
  <1> USE DEF BookingType
  <1>1. CASE CreateLock(q)
    <2>1. RequestsType(request')
      BY <1>1, RequestMoves DEF CreateLock, RequestPoints
    <2> QED
      BY <1>1, <2>1 DEF CreateLock, RequestsType, RequestRow
  <1>2. CASE CreateGuard(q)
    <2>1. RequestsType(request')
      BY <1>2, RequestMoves DEF CreateGuard, RequestPoints
    <2> QED
      BY <1>2, <2>1 DEF CreateGuard, RequestsType, RequestRow
  <1>3. CASE CreateInsert(q)
    <2>1. PICK r \in Rides :
              /\ status' = [status EXCEPT ![r] = "SEARCHING"]
              /\ request' = [request EXCEPT ![q].pc = "point", ![q].ride = r]
      BY <1>3 DEF CreateInsert
    <2>2. RequestsType(request')
      <3>1. [request[q] EXCEPT !.pc = "point", !.ride = r] \in RequestRow
        BY <1>0 DEF RequestRow, RequestPoints
      <3> QED
        BY <1>0, <2>1, <3>1 DEF RequestsType, RequestRow
    <2> QED
      BY <1>3, <2>1, <2>2 DEF CreateInsert, RequestsType, RequestRow
  <1>4. CASE CreatePoint(q)
    <2>1. RequestsType(request')
      BY <1>4, RequestMoves DEF CreatePoint, RequestPoints
    <2>2. request[q].ride \in Rides
      BY <1>4 DEF CreatePoint
    <2>3. search' \in [Rides \X Loops -> {"none", "on", "release"}]
      BY <1>4 DEF CreatePoint, SearchTo
    <2> QED
      BY <1>4, <2>1, <2>2, <2>3 DEF CreatePoint, RequestsType, RequestRow
  <1>5. CASE CreateSave(q)
    <2>1. RequestsType(request')
      BY <1>5, RequestMoves DEF CreateSave, RequestPoints
    <2> QED
      BY <1>5, <2>1 DEF CreateSave, RequestsType, RequestRow
  <1>6. CASE CreateUnlock(q)
    <2>1. RequestsType(request')
      BY <1>6, RequestMoves DEF CreateUnlock
    <2> QED
      BY <1>6, <2>1 DEF CreateUnlock, DropLock, RequestsType, RequestRow
  <1>7. CASE CancelWrite(q)
    <2>1. RequestsType(request')
      BY <1>7, RequestMoves DEF CancelWrite, RequestPoints
    <2> QED
      BY <1>7, <2>1 DEF CancelWrite, RequestsType, RequestRow
  <1>8. CASE CancelRelease(q)
    <2>1. RequestsType(request')
      BY <1>8, RequestMoves DEF CancelRelease
    <2> QED
      BY <1>8, <2>1 DEF CancelRelease, DropPointer, RequestsType, RequestRow
  <1> QED
    BY <1>1, <1>2, <1>3, <1>4, <1>5, <1>6, <1>7, <1>8 DEF RequestStep

\* ... and so do all the others.
LEMMA BookingTypes == BookingType /\ [BookingNext]_bookingVars => BookingType'
  <1> SUFFICES ASSUME BookingType, [BookingNext]_bookingVars
               PROVE  BookingType'
    OBVIOUS
  <1> USE DEF BookingType
  <1>0. request \in [Requests -> RequestRow]
    BY DEF RequestRow
  <1>1. ASSUME NEW q \in Requests, Abort(q) PROVE BookingType'
    <2>1. RequestsType(request')
      <3>1. CASE Done(q)
        BY <3>1, RequestMoves
      <3>2. CASE request' = [request EXCEPT ![q].dead = TRUE]
        <4>1. [request[q] EXCEPT !.dead = TRUE] \in RequestRow
          BY <1>0 DEF RequestRow
        <4> QED
          BY <1>0, <3>2, <4>1 DEF RequestsType, RequestRow
      <3> QED
        BY <1>1, <3>1, <3>2 DEF Abort
    <2> QED
      BY <1>1, <2>1 DEF Abort, RequestsType, RequestRow
  <1>2. ASSUME NEW q \in Requests, NEW k \in Keys, CreateLookUp(q, k)
        PROVE  BookingType'
    <2>1. [NoRequest_ EXCEPT !.pc = "lock", !.key = k] \in RequestRow
      BY DEF NoRequest_, RequestRow, RequestPoints
    <2> QED
      BY <1>0, <1>2, <2>1 DEF CreateLookUp, NoRequest_, RequestRow
  <1>3. ASSUME NEW q \in Requests, NEW r \in Rides, CancelRead(q, r)
        PROVE  BookingType'
    <2>1. PICK pc \in {"release", "cancel"} :
              request' = [request EXCEPT ![q] =
                              [NoRequest_ EXCEPT !.pc = pc, !.ride = r]]
      BY <1>3 DEF CancelRead
    <2>2. [NoRequest_ EXCEPT !.pc = pc, !.ride = r] \in RequestRow
      BY DEF NoRequest_, RequestRow, RequestPoints
    <2> QED
      BY <1>0, <1>3, <2>1, <2>2 DEF CancelRead, NoRequest_, RequestRow
  <1>4. CASE LockLapses \/ PollStep
    BY <1>4 DEF LockLapses, DropLock, PollStep, PollFind, PollDrop, DropPointer
  <1>5. ASSUME NEW r \in Rides, TripEnds(r) \/ EndReleases(r)
        PROVE  BookingType'
    BY <1>5 DEF TripEnds, EndReleases, DropPointer
  <1>6. ASSUME NEW r \in Rides, NEW k \in Loops, SearchStep(r, k)
        PROVE  BookingType'
    <2>1. search' \in [Rides \X Loops -> {"none", "on", "release"}]
      BY <1>6 DEF SearchStep, SearchStops, SearchMatches, SearchOutlives, GiveUpCancel,
                  GiveUpRelease, SearchTo
    <2>2. status' \in [Rides -> {None, "SEARCHING", "MATCHED", "OVER"}]
      BY <1>6 DEF SearchStep, SearchStops, SearchMatches, SearchOutlives, GiveUpCancel,
                  GiveUpRelease
    <2>3. /\ pointer' \in Rides \cup {None}
          /\ UNCHANGED <<lock, request, recovery, crashes>>
      BY <1>6 DEF SearchStep, SearchStops, SearchMatches, SearchOutlives, GiveUpCancel,
                  GiveUpRelease, DropPointer
    <2> QED
      BY <2>1, <2>2, <2>3
  <1>7. CASE Crash
    <2>1. request' \in [Requests -> RequestRow]
      BY <1>7 DEF Crash, RequestRow, RequestPoints, NoRequest_
    <2>2. \A q \in Requests : request'[q].pc = "idle"
      BY <1>7 DEF Crash, NoRequest_
    <2>3. search' \in [Rides \X Loops -> {"none", "on", "release"}]
      BY <1>7 DEF Crash
    <2> QED
      BY <1>7, <2>1, <2>2, <2>3 DEF Crash, RequestRow
  <1>8. CASE RecoveryScan
    <2>1. recovery' \in [pc : {"off", "scan", "restart"}, rides : SUBSET Rides]
      BY <1>8 DEF RecoveryScan
    <2> QED
      BY <1>8, <2>1 DEF RecoveryScan, DropPointer
  <1>9. ASSUME NEW r \in Rides, RecoveryRestarts(r) PROVE BookingType'
    <2>1. search' \in [Rides \X Loops -> {"none", "on", "release"}]
      BY <1>9 DEF RecoveryRestarts, SearchTo
    <2>2. recovery' \in [pc : {"off", "scan", "restart"}, rides : SUBSET Rides]
      BY <1>9 DEF RecoveryRestarts
    <2> QED
      BY <1>9, <2>1, <2>2 DEF RecoveryRestarts
  <1>10. CASE UNCHANGED bookingVars
    BY <1>10 DEF bookingVars
  <1> QED
    BY <1>1, <1>2, <1>3, <1>4, <1>5, <1>6, <1>7, <1>8, <1>9, <1>10,
       RequestTypes DEF BookingNext

-----------------------------------------------------------------------------
(* Bookings: two rides.                                                    *)

\* A step that makes no ride count, and takes no guard from one that still
\* counts, keeps Guarded and Alone.
LEMMA GuardsKept ==
    ASSUME Guarded, Alone,
           \A r \in Rides : Firm(r)' => Firm(r),
           \A r \in Rides : Firm(r)' /\ pointer = r => pointer' = r,
           \A q \in Requests, r \in Rides :
               Firm(r)' /\ Locked(q, {"point"}) /\ request[q].ride = r =>
                   \/ pointer' = r
                   \/ Locked(q, {"point"})' /\ request'[q].ride = r,
           \A q \in Requests : Locked(q, {"insert"})' =>
               Locked(q, {"insert"}) \/ \A r \in Rides : ~Firm(r),
           \A q \in Requests : Locked(q, {"point"})' =>
               Locked(q, {"point"}) /\ request'[q].ride = request[q].ride
    PROVE  Guarded' /\ Alone'
  <1>1. Guarded'
    <2> SUFFICES ASSUME NEW r \in Rides, Firm(r)'
                 PROVE  \/ pointer' = r
                        \/ \E q \in Requests :
                              Locked(q, {"point"})' /\ request'[q].ride = r
      BY DEF Guarded
    <2>1. CASE pointer = r
      BY <2>1
    <2>2. CASE pointer # r
      <3>1. PICK q \in Requests : Locked(q, {"point"}) /\ request[q].ride = r
        BY <2>2 DEF Guarded
      <3> QED
        BY <3>1
    <2> QED
      BY <2>1, <2>2
  <1>2. Alone'
    BY DEF Alone
  <1> QED
    BY <1>1, <1>2

\* What a request's own steps do to the two keys.
LEMMA RequestGuards ==
    ASSUME BookingType, Guarded, Alone, NEW q \in Requests, RequestStep(q)
    PROVE  Guarded' /\ Alone'
  <1>0. /\ request \in [Requests -> [pc : RequestPoints, key : Keys \cup {None},
                                     ride : Rides \cup {None}, dead : BOOLEAN]]
        /\ status \in [Rides -> {None, "SEARCHING", "MATCHED", "OVER"}]
        /\ None \notin Rides \cup Requests
        /\ None \notin {"SEARCHING", "MATCHED", "OVER"}
    BY BookingAssumption DEF BookingType
  <1>00. lock \in Requests \cup {None} /\ pointer \in Rides \cup {None}
    BY DEF BookingType
  <1>1. CASE CreateLock(q)
    <2>1. CASE lock = None
      <3>1. /\ lock' = q /\ request'[q].pc = "guard"
            /\ UNCHANGED <<status, pointer, loose>>
        BY <1>0, <1>1, <2>1 DEF CreateLock, To
      <3>2. \A r \in Rides : Firm(r)' => pointer' = r
        BY <1>0, <2>1, <3>1 DEF Guarded, Locked, Firm, Live
      <3> QED
        BY <3>1, <3>2 DEF Guarded, Alone, Locked
    <2>2. CASE Done(q) /\ UNCHANGED lock
      <3>1. /\ request[q].pc = "lock" /\ request'[q].pc = "idle"
            /\ \A p \in Requests \ {q} : request'[p] = request[p]
            /\ UNCHANGED <<status, pointer, lock, loose>>
        BY <1>0, <1>1, <2>2 DEF CreateLock, Done, NoRequest_
      <3> QED
        BY <3>1, GuardsKept DEF Locked, Firm, Live
    <2> QED
      BY <1>1, <2>1, <2>2 DEF CreateLock
  <1>2. CASE CreateGuard(q)
    <2>1. /\ request[q].pc = "guard" /\ request'[q].pc \in {"insert", "unlock"}
          /\ request'[q].pc = "insert" => pointer = None
          /\ \A p \in Requests \ {q} : request'[p] = request[p]
          /\ UNCHANGED <<status, pointer, lock, loose>>
      BY <1>0, <1>2 DEF CreateGuard, To
    <2>2. lock = q /\ pointer = None => \A r \in Rides : ~Firm(r)
      BY <1>0, <2>1 DEF Guarded, Locked
    <2> QED
      BY <2>1, <2>2, GuardsKept DEF Locked, Firm, Live
  <1>3. CASE CreateInsert(q)
    <2>1. PICK r \in Rides :
              /\ status[r] = None
              /\ status' = [status EXCEPT ![r] = "SEARCHING"]
              /\ request' = [request EXCEPT ![q].pc = "point", ![q].ride = r]
              /\ loose' = IF lock = q THEN loose ELSE loose \cup {r}
      BY <1>3 DEF CreateInsert
    <2>2. /\ request[q].pc = "insert" /\ UNCHANGED <<lock, pointer>>
          /\ request'[q].pc = "point" /\ request'[q].ride = r
          /\ \A p \in Requests \ {q} : request'[p] = request[p]
          /\ \A s \in Rides \ {r} : Firm(s)' <=> Firm(s)
      BY <1>0, <1>3, <2>1 DEF CreateInsert, Firm, Live
    <2>3. CASE lock = q
      <3>1. \A s \in Rides \ {r} : ~Firm(s)'
        BY <2>2, <2>3 DEF Alone, Locked
      <3> QED
        BY <2>2, <2>3, <3>1 DEF Guarded, Alone, Locked
    <2>4. CASE lock # q
      <3>1. ~Firm(r)'
        BY <2>1, <2>4 DEF Firm
      <3> QED
        BY <2>2, <2>4, <3>1, GuardsKept DEF Locked
    <2> QED
      BY <2>3, <2>4
  <1>4. CASE CreatePoint(q)
    <2> DEFINE r == request[q].ride
    <2>1. /\ request[q].pc = "point" /\ request'[q].pc = "save"
          /\ \A p \in Requests \ {q} : request'[p] = request[p]
          /\ UNCHANGED <<status, lock>>
      BY <1>0, <1>4 DEF CreatePoint, To
    <2>2. CASE request[q].dead
      <3>1. loose' = loose \cup {r} /\ pointer' = pointer
        BY <1>4, <2>2 DEF CreatePoint
      <3> QED
        BY <2>1, <3>1, GuardsKept DEF Locked, Firm, Live
    <2>3. CASE ~request[q].dead
      <3>1. /\ pointer' = r
            /\ loose' = loose \cup {s \in {pointer} \ {None, r} : Live(s)}
        BY <1>4, <2>3 DEF CreatePoint
      <3>2. \A s \in Rides : Firm(s)' /\ pointer = s => pointer' = s
        BY <1>0, <2>1, <3>1 DEF Firm, Live
      <3>3. \A s \in Rides : Firm(s)' => Firm(s)
        BY <2>1, <3>1 DEF Firm, Live
      <3> QED
        BY <2>1, <3>1, <3>2, <3>3, GuardsKept DEF Locked
    <2> QED
      BY <2>2, <2>3
  <1>5. CASE CreateSave(q)
    <2>1. /\ request[q].pc = "save" /\ request'[q].pc = "unlock"
          /\ \A p \in Requests \ {q} : request'[p] = request[p]
          /\ UNCHANGED <<status, pointer, lock, loose>>
      BY <1>0, <1>5 DEF CreateSave, To
    <2> QED
      BY <2>1, GuardsKept DEF Locked, Firm, Live
  <1>6. CASE CreateUnlock(q)
    <2>1. /\ request[q].pc = "unlock" /\ request'[q].pc = "idle"
          /\ \A p \in Requests \ {q} : request'[p] = request[p]
          /\ UNCHANGED <<status, pointer>>
      BY <1>0, <1>6 DEF CreateUnlock, Done, NoRequest_
    <2>2. CASE UNCHANGED <<lock, loose>>
      BY <2>1, <2>2, GuardsKept DEF Locked, Firm, Live
    <2>3. CASE DropLock
      <3>1. /\ \A r \in Rides : Firm(r)' => Firm(r)
            /\ \A p \in Requests, r \in Rides :
                   Firm(r)' => ~(Locked(p, {"point"}) /\ request[p].ride = r)
            /\ \A p \in Requests : ~Locked(p, {"insert", "point"})'
        BY <1>0, <2>1, <2>3 DEF DropLock, Exposed, Locked, Firm, Live
      <3> QED
        BY <2>1, <3>1, GuardsKept DEF Locked
    <2> QED
      BY <1>6, <2>2, <2>3 DEF CreateUnlock
  <1>7. CASE CancelWrite(q)
    <2>1. /\ request[q].pc = "cancel" /\ request'[q].pc \in {"idle", "release"}
          /\ \A p \in Requests \ {q} : request'[p] = request[p]
          /\ UNCHANGED <<pointer, lock, loose>>
          /\ \A r \in Rides : Live(r)' => Live(r)
      BY <1>0, <1>7 DEF CancelWrite, Done, To, NoRequest_, Live
    <2> QED
      BY <2>1, GuardsKept DEF Locked, Firm
  <1>8. CASE CancelRelease(q)
    <2>1. /\ request[q].pc = "release" /\ request'[q].pc = "idle"
          /\ \A p \in Requests \ {q} : request'[p] = request[p]
          /\ UNCHANGED <<status, lock>>
      BY <1>0, <1>8 DEF CancelRelease, Done, NoRequest_
    <2>2. \A r \in Rides : Firm(r)' => Firm(r) /\ pointer # r
      BY <1>0, <1>8, <2>1 DEF CancelRelease, DropPointer, Firm, Live
    <2> QED
      BY <2>1, <2>2, GuardsKept DEF Locked
  <1> QED
    BY <1>1, <1>2, <1>3, <1>4, <1>5, <1>6, <1>7, <1>8 DEF RequestStep

\* Whatever deletes the pointer, or the lock, unguards the ride it finds there.
LEMMA BookingGuards ==
    BookingType /\ Guarded /\ Alone /\ [BookingNext]_bookingVars
        => Guarded' /\ Alone'
  <1> SUFFICES ASSUME BookingType, Guarded, Alone, [BookingNext]_bookingVars
               PROVE  Guarded' /\ Alone'
    OBVIOUS
  <1>0. /\ request \in [Requests -> [pc : RequestPoints, key : Keys \cup {None},
                                     ride : Rides \cup {None}, dead : BOOLEAN]]
        /\ status \in [Rides -> {None, "SEARCHING", "MATCHED", "OVER"}]
        /\ None \notin Rides \cup Requests
        /\ None \notin {"SEARCHING", "MATCHED", "OVER"}
    BY BookingAssumption DEF BookingType
  <1> DEFINE Quiet == /\ \A r \in Rides : Live(r)' => Live(r)
                      /\ UNCHANGED <<lock, request>>
                      /\ \/ UNCHANGED <<pointer, loose>>
                         \/ DropPointer
  <1>1. CASE Quiet
    <2>1. \A r \in Rides : Firm(r)' => Firm(r)
      BY <1>1 DEF Firm, DropPointer
    <2>2. \A r \in Rides : Firm(r)' /\ pointer = r => pointer' = r
      BY <1>0, <1>1, <2>1 DEF Firm, DropPointer
    <2> HIDE DEF Quiet
    <2>3. UNCHANGED <<lock, request>>
      BY <1>1 DEF Quiet
    <2> QED
      BY <2>1, <2>2, <2>3, GuardsKept DEF Locked
  <1>2. ASSUME NEW q \in Requests, Abort(q) PROVE Guarded' /\ Alone'
    <2>1. /\ \/ request'[q].pc = "idle" /\ request[q].pc # "point"
             \/ /\ request'[q].pc = request[q].pc
                /\ request'[q].ride = request[q].ride
                /\ request[q].pc # "insert"
          /\ \A p \in Requests \ {q} : request'[p] = request[p]
          /\ UNCHANGED <<status, pointer, lock, loose>>
      BY <1>0, <1>2 DEF Abort, Done, NoRequest_
    <2> QED
      BY <2>1, GuardsKept DEF Locked, Firm, Live
  <1>3. ASSUME NEW q \in Requests,
               \/ \E k \in Keys : CreateLookUp(q, k)
               \/ \E r \in Rides : CancelRead(q, r)
        PROVE  Guarded' /\ Alone'
    <2>1. PICK pc \in {"lock", "release", "cancel"} :
              \/ \E k \in Keys : request' = [request EXCEPT ![q] =
                     [NoRequest_ EXCEPT !.pc = pc, !.key = k]]
              \/ \E r \in Rides : request' = [request EXCEPT ![q] =
                     [NoRequest_ EXCEPT !.pc = pc, !.ride = r]]
      BY <1>3 DEF CreateLookUp, CancelRead
    <2>2. /\ request'[q].pc = pc
          /\ \A p \in Requests \ {q} : request'[p] = request[p]
      BY <1>0, <2>1 DEF NoRequest_
    <2>3. request[q].pc = "idle" /\ UNCHANGED <<status, pointer, lock, loose>>
      BY <1>3 DEF CreateLookUp, CancelRead
    <2> QED
      BY <2>1, <2>2, <2>3, GuardsKept DEF Locked, Firm, Live
  <1>4. CASE LockLapses
    <2>1. /\ \A r \in Rides : Firm(r)' => Firm(r)
          /\ \A p \in Requests, r \in Rides :
                 Firm(r)' => ~(Locked(p, {"point"}) /\ request[p].ride = r)
          /\ \A p \in Requests : ~Locked(p, {"insert", "point"})'
      BY <1>0, <1>4 DEF LockLapses, DropLock, Exposed, Locked, Firm, Live
    <2>2. pointer' = pointer
      BY <1>4 DEF LockLapses
    <2> QED
      BY <2>1, <2>2, GuardsKept DEF Locked
  <1>5. CASE Crash
    <2>1. \A q \in Requests : request'[q].pc = "idle"
      BY <1>5 DEF Crash, NoRequest_
    <2>2. /\ UNCHANGED <<status, lock, pointer>>
          /\ loose' = loose \cup {request[q].ride : q \in {p \in Requests :
                                        request[p].pc = "point"}}
      BY <1>5 DEF Crash
    <2>3. \A p \in Requests, r \in Rides :
              Firm(r)' => ~(Locked(p, {"point"}) /\ request[p].ride = r)
      BY <2>2 DEF Locked, Firm
    <2>4. \A r \in Rides : Firm(r)' => Firm(r)
      BY <2>2 DEF Firm, Live
    <2> QED
      BY <2>1, <2>2, <2>3, <2>4, GuardsKept DEF Locked
  <1>6. ASSUME NEW r \in Rides, NEW k \in Loops, SearchStep(r, k) PROVE Quiet
    BY <1>0, <1>6 DEF SearchStep, SearchStops, SearchMatches, SearchOutlives, GiveUpCancel,
                      GiveUpRelease, Live
  <1>7. ASSUME NEW r \in Rides, TripEnds(r) \/ EndReleases(r) PROVE Quiet
    BY <1>0, <1>7 DEF TripEnds, EndReleases, Live
  <1>8. CASE PollStep \/ RecoveryScan \/ \E r \in Rides : RecoveryRestarts(r)
    <2>1. Quiet
      BY <1>8 DEF PollStep, PollFind, PollDrop, RecoveryScan, RecoveryRestarts,
                  Live
    <2> QED
      BY <1>1, <2>1
  <1>9. CASE UNCHANGED bookingVars
    <2>1. Quiet
      BY <1>9 DEF bookingVars, Live
    <2> QED
      BY <1>1, <2>1
  <1> HIDE DEF Quiet
  <1> QED
    BY <1>1, <1>2, <1>3, <1>4, <1>5, <1>6, <1>7, <1>8, <1>9, RequestGuards
       DEF BookingNext

\* The parts of the state a booking begins with.
LEMMA BookingBegins ==
    BookingInit => BookingType /\ Guarded /\ Alone /\ NoRideIsOrphaned
  <1> SUFFICES ASSUME BookingInit
               PROVE  BookingType /\ Guarded /\ Alone /\ NoRideIsOrphaned
    OBVIOUS
  <1>0. None \notin {"SEARCHING", "MATCHED", "OVER"} /\ None \notin Requests
    BY BookingAssumption
  <1>1. BookingType
    BY DEF BookingInit, BookingType, NoRequest_, RequestPoints
  <1>2. /\ \A r \in Rides : status[r] = None
        /\ \A q \in Requests : request[q].pc = "idle"
        /\ \A r \in Rides, k \in Loops : search[<<r, k>>] = "none"
    BY DEF BookingInit, NoRequest_, Loops
  <1>3. Guarded /\ Alone
    BY <1>0, <1>2 DEF Guarded, Alone, Firm, Live, Locked
  <1>4. NoRideIsOrphaned
    BY <1>0, <1>2 DEF NoRideIsOrphaned
  <1> QED
    BY <1>1, <1>3, <1>4

-----------------------------------------------------------------------------
(* Bookings: who is at a searching ride.                                   *)

\* A request between its insert and its search.
Request(q, r) == request[q].pc = "point" /\ request[q].ride = r
\* A step that takes nobody away, and inserts nothing.
LEMMA AttendedStays ==
    ASSUME NoRideIsOrphaned, UNCHANGED <<search, recovery, abandoned>>,
           \A r \in Rides : status'[r] = "SEARCHING" => status[r] = "SEARCHING",
           \A q \in Requests, r \in Rides : Request(q, r) => Request(q, r)'
    PROVE  NoRideIsOrphaned'
  BY DEF NoRideIsOrphaned, Request

\* A request is at the ride it has inserted, until it has started its search.
LEMMA RequestAttends ==
    ASSUME BookingType, NoRideIsOrphaned, NEW q \in Requests, RequestStep(q)
    PROVE  NoRideIsOrphaned'
  <1>0. /\ request \in [Requests -> [pc : RequestPoints, key : Keys \cup {None},
                                     ride : Rides \cup {None}, dead : BOOLEAN]]
        /\ status \in [Rides -> {None, "SEARCHING", "MATCHED", "OVER"}]
        /\ search \in [Rides \X Loops -> {"none", "on", "release"}]
    BY DEF BookingType
  <1>1. CASE /\ \/ CreateLock(q) \/ CreateGuard(q) \/ CreateSave(q)
                \/ CreateUnlock(q) \/ CancelWrite(q) \/ CancelRelease(q)
    <2>1. /\ UNCHANGED <<search, recovery, abandoned>>
          /\ request[q].pc # "point"
          /\ \A p \in Requests \ {q} : request'[p] = request[p]
          /\ \A r \in Rides : status'[r] \in {status[r], "OVER"}
      BY <1>0, <1>1 DEF CreateLock, CreateGuard, CreateSave, CreateUnlock,
             CancelWrite, CancelRelease, To, Done, DropLock, DropPointer
    <2>2. \A p \in Requests, r \in Rides : Request(p, r) => Request(p, r)'
      BY <2>1 DEF Request
    <2> QED
      BY <2>1, <2>2, AttendedStays
  <1>2. CASE CreateInsert(q)
    <2>1. PICK r \in Rides :
              /\ status' = [status EXCEPT ![r] = "SEARCHING"]
              /\ request' = [request EXCEPT ![q].pc = "point", ![q].ride = r]
      BY <1>2 DEF CreateInsert
    <2>2. /\ request'[q].pc = "point" /\ request'[q].ride = r
          /\ \A p \in Requests \ {q} : request'[p] = request[p]
      BY <1>0, <2>1
    <2>3. UNCHANGED <<search, recovery, abandoned>> /\ request[q].pc # "point"
      BY <1>2 DEF CreateInsert
    <2>4. \A s \in Rides \ {r} : status'[s] = status[s]
      BY <1>0, <2>1
    <2> QED
      BY <2>2, <2>3, <2>4 DEF NoRideIsOrphaned
  <1>3. CASE CreatePoint(q)
    <2> DEFINE r == request[q].ride
    <2>1. r \in Rides
      BY <1>3 DEF CreatePoint, BookingType
    <2>2. /\ search' = [search EXCEPT ![<<r, "first">>] = "on"]
          /\ UNCHANGED <<status, recovery, abandoned>>
          /\ \A p \in Requests \ {q} : request'[p] = request[p]
      BY <1>0, <1>3 DEF CreatePoint, SearchTo, To
    <2>3. search'[<<r, "first">>] = "on"
      BY <1>0, <2>1, <2>2 DEF Loops
    <2>4. \A s \in Rides \ {r}, k \in Loops :
              search'[<<s, k>>] = search[<<s, k>>]
      BY <1>0, <2>1, <2>2
    <2> QED
      BY <2>1, <2>2, <2>3, <2>4 DEF NoRideIsOrphaned, Loops
  <1> QED
    BY <1>1, <1>2, <1>3 DEF RequestStep

\* A search that ends leaves no ride searching, but one it abandons.
LEMMA SearchAttends ==
    ASSUME BookingType, NoRideIsOrphaned, NEW r \in Rides, NEW k \in Loops,
           SearchStep(r, k)
    PROVE  NoRideIsOrphaned'
  <1>0. /\ status \in [Rides -> {None, "SEARCHING", "MATCHED", "OVER"}]
        /\ search \in [Rides \X Loops -> {"none", "on", "release"}]
    BY DEF BookingType
  <1>1. /\ UNCHANGED <<request, recovery>>
        /\ \A s \in Rides \ {r} : status'[s] = status[s]
        /\ abandoned \subseteq abandoned'
        /\ \A s \in Rides \ {r}, l \in Loops :
               search'[<<s, l>>] = search[<<s, l>>]
        /\ \A l \in Loops \ {k} : search'[<<r, l>>] = search[<<r, l>>]
    BY <1>0 DEF SearchStep, SearchStops, SearchMatches, SearchOutlives,
                GiveUpCancel, GiveUpRelease, SearchTo
  <1>2. CASE status'[r] = "SEARCHING" /\ r \notin abandoned'
    <2>1. status[r] = "SEARCHING" /\ search[<<r, k>>] = "release"
      BY <1>0, <1>2 DEF SearchStep, SearchStops, SearchMatches, SearchOutlives,
                        GiveUpCancel, GiveUpRelease
    <2> QED
      BY <1>1, <2>1 DEF NoRideIsOrphaned
  <1>3. CASE ~(status'[r] = "SEARCHING" /\ r \notin abandoned')
    BY <1>1, <1>3 DEF NoRideIsOrphaned
  <1> QED
    BY <1>2, <1>3

\* A crash takes all searches and requests away, and recovery begins.
LEMMA BookingAttends ==
    BookingType /\ NoRideIsOrphaned /\ [BookingNext]_bookingVars
        => NoRideIsOrphaned'
  <1> SUFFICES ASSUME BookingType, NoRideIsOrphaned, [BookingNext]_bookingVars
               PROVE  NoRideIsOrphaned'
    OBVIOUS
  <1>0. request \in [Requests -> [pc : RequestPoints, key : Keys \cup {None},
                                  ride : Rides \cup {None}, dead : BOOLEAN]]
    BY DEF BookingType
  <1>1. ASSUME NEW q \in Requests, Abort(q) PROVE NoRideIsOrphaned'
    <2>1. /\ UNCHANGED <<status, search, recovery, abandoned>>
          /\ \A p \in Requests \ {q} : request'[p] = request[p]
          /\ request[q].pc = "point" =>
                 request'[q].pc = "point" /\ request'[q].ride = request[q].ride
      BY <1>0, <1>1 DEF Abort, Done
    <2>2. \A p \in Requests, r \in Rides : Request(p, r) => Request(p, r)'
      BY <2>1 DEF Request
    <2> QED
      BY <2>1, <2>2, AttendedStays
  <1>2. ASSUME NEW q \in Requests,
               \/ \E k \in Keys : CreateLookUp(q, k)
               \/ \E r \in Rides : CancelRead(q, r)
        PROVE  NoRideIsOrphaned'
    <2>1. /\ UNCHANGED <<status, search, recovery, abandoned>>
          /\ \A p \in Requests \ {q} : request'[p] = request[p]
          /\ request[q].pc # "point"
      BY <1>0, <1>2 DEF CreateLookUp, CancelRead
    <2>2. \A p \in Requests, r \in Rides : Request(p, r) => Request(p, r)'
      BY <2>1 DEF Request
    <2> QED
      BY <2>1, <2>2, AttendedStays
  <1>3. CASE \/ LockLapses \/ PollStep \/ UNCHANGED bookingVars
             \/ \E r \in Rides : TripEnds(r) \/ EndReleases(r)
    <2>1. /\ UNCHANGED <<request, search, recovery, abandoned>>
          /\ \A s \in Rides : status'[s] \in {status[s], "OVER"}
      BY <1>3 DEF LockLapses, PollStep, PollFind, PollDrop, bookingVars,
                  TripEnds, EndReleases, BookingType
    <2>2. \A p \in Requests, r \in Rides : Request(p, r) => Request(p, r)'
      BY <2>1 DEF Request
    <2> QED
      BY <2>1, <2>2, AttendedStays
  <1>4. CASE Crash
    BY <1>4 DEF Crash, NoRideIsOrphaned
  <1>5. CASE RecoveryScan
    <2>1. PICK unread \in SUBSET {r \in Rides : status[r] = "SEARCHING"} :
              /\ recovery' = [pc |-> "restart",
                              rides |-> {r \in Rides : status[r] = "SEARCHING"}
                                            \ unread]
              /\ abandoned' = abandoned \cup unread
      BY <1>5 DEF RecoveryScan
    <2>2. UNCHANGED status
      BY <1>5 DEF RecoveryScan
    <2> QED
      BY <2>1, <2>2 DEF NoRideIsOrphaned
  <1>6. ASSUME NEW r \in Rides, RecoveryRestarts(r) PROVE NoRideIsOrphaned'
    <2>1. /\ search' = [search EXCEPT ![<<r, "again">>] = "on"]
          /\ UNCHANGED <<status, request, abandoned>>
          /\ recovery' = [recovery EXCEPT !.rides = @ \ {r}]
          /\ recovery.pc = "restart"
      BY <1>6 DEF RecoveryRestarts, SearchTo
    <2>2. /\ search'[<<r, "again">>] = "on"
          /\ \A s \in Rides \ {r}, k \in Loops :
                 search'[<<s, k>>] = search[<<s, k>>]
      BY <2>1 DEF BookingType, Loops
    <2>3. recovery'.rides = recovery.rides \ {r}
      BY <2>1 DEF BookingType
    <2> QED
      BY <2>1, <2>2, <2>3 DEF NoRideIsOrphaned, Loops
  <1> QED
    BY <1>1, <1>2, <1>3, <1>4, <1>5, <1>6, RequestAttends, SearchAttends
       DEF BookingNext

\* Bookings, joined.
BookingInv == BookingType /\ Guarded /\ Alone /\ NoRideIsOrphaned
LEMMA BookingInvariant == BookingSpec => []BookingInv
  <1>1. BookingInit => BookingInv
    BY BookingBegins DEF BookingInv
  <1>2. BookingInv /\ [BookingNext]_bookingVars => BookingInv'
    BY BookingTypes, BookingGuards, BookingAttends DEF BookingInv
  <1> QED
    BY <1>1, <1>2, PTL DEF BookingSpec

\* Of two live rides one lost its guard: both named by the pointer, or by the
\* request that has the lock, they would be the same.
LEMMA TwoRidesMeet == BookingInv => TwoRidesOnlyIfLoose
  <1> SUFFICES ASSUME BookingInv, NEW r \in Rides, NEW s \in Rides,
                      Firm(r), Firm(s), r # s
               PROVE  FALSE
    BY DEF TwoRidesOnlyIfLoose, Firm
  <1>1. PICK x \in {r, s} : pointer # x
    OBVIOUS
  <1>2. PICK q \in Requests : Locked(q, {"point"}) /\ request[q].ride = x
    BY <1>1 DEF BookingInv, Guarded
  <1> QED
    BY <1>2 DEF BookingInv, Alone

-----------------------------------------------------------------------------
(* Bargaining.                                                             *)

OfferRow == [pc : {"idle", "count", "number", "insert", "lock", "confirm"},
             by : Sides \cup {None}, fare : Fares \cup {None}, round : Nat]
Offering(o) == offer[o].fare \in Fares /\ offer[o].by \in Sides

\* Requests keep the shape of what they carry.
LEMMA NegotiationTypes ==
    NegotiationType /\ [NegotiationNext]_negotiationVars => NegotiationType'
  <1> SUFFICES ASSUME NegotiationType, [NegotiationNext]_negotiationVars
               PROVE  NegotiationType'
    OBVIOUS
  <1>0. /\ offer \in [Offers -> OfferRow]
        /\ rounds \in Seq([number : Nat, by : Sides, fare : Fares])
        /\ \A o \in Offers : offer[o].pc # "idle" => Offering(o)
        /\ NoOffer \in OfferRow
    BY DEF NegotiationType, OfferRow, NoOffer, Offering
  <1> DEFINE OffersOK == /\ offer' \in [Offers -> OfferRow]
                         /\ \A o \in Offers : offer'[o].pc # "idle" => Offering(o)'
  <1>1. ASSUME NEW o \in Offers, OfferDone(o) PROVE OffersOK
    BY <1>0, <1>1 DEF OfferDone, NoOffer, Offering
  <1>2. ASSUME NEW o \in Offers, offer[o].pc # "idle",
               NEW pc \in {"number", "insert", "lock", "confirm"},
               NEW round \in Nat,
               offer' = [offer EXCEPT ![o].pc = pc, ![o].round = round]
        PROVE  OffersOK
    <2>1. [offer[o] EXCEPT !.pc = pc, !.round = round] \in OfferRow
      BY <1>0 DEF OfferRow
    <2> QED
      BY <1>0, <1>2, <2>1 DEF OfferRow, Offering
  <1>3. ASSUME NEW o \in Offers, offer[o].pc # "idle",
               NEW pc \in {"number", "insert", "lock", "confirm"}, OfferTo(o, pc)
        PROVE  OffersOK
    <2>1. [offer[o] EXCEPT !.pc = pc] \in OfferRow
      BY <1>0 DEF OfferRow
    <2> QED
      BY <1>0, <1>3, <2>1 DEF OfferTo, OfferRow, Offering
  <1>4. ASSUME NEW o \in Offers, NEW pc \in {"count", "lock"}, NEW side \in Sides,
               NEW fare \in Fares, Begin_(o, pc, side, fare, 0)
        PROVE  OffersOK
    <2>1. [pc |-> pc, by |-> side, fare |-> fare, round |-> 0] \in OfferRow
      BY DEF OfferRow
    <2> QED
      BY <1>0, <1>4, <2>1 DEF Begin_, Offering
  <1> HIDE DEF OffersOK
  <1>5. ASSUME OffersOK, UNCHANGED <<agreed, rounds, told>> PROVE NegotiationType'
    BY <1>5 DEF OffersOK, NegotiationType, OfferRow, Offering
  <1>6. ASSUME NEW o \in Offers, NEW side \in Sides,
               Accept(o, side) \/ \E fare \in Fares : Propose(o, side, fare)
        PROVE  NegotiationType'
    <2>1. ASSUME Accept(o, side) PROVE OffersOK
      <3>1. PICK i \in GetLatestRound : Begin_(o, "lock", side, rounds[i].fare, 0)
        BY <2>1 DEF Accept
      <3>2. i \in DOMAIN rounds
        BY <3>1 DEF GetLatestRound
      <3> DEFINE Row == [number : Nat, by : Sides, fare : Fares]
      <3>3. rounds[i] \in Row
        <4>1. rounds \in Seq(Row)
          BY <1>0
        <4> HIDE DEF Row
        <4> QED
          BY <3>2, <4>1
      <3> QED
        BY <1>4, <3>1, <3>3
    <2>2. ASSUME NEW fare \in Fares, Propose(o, side, fare) PROVE OffersOK
      BY <1>4, <2>2 DEF Propose
    <2>3. UNCHANGED <<agreed, rounds, told>>
      BY <1>6 DEF Accept, Propose
    <2> QED
      BY <1>5, <1>6, <2>1, <2>2, <2>3
  <1>7. ASSUME NEW o \in Offers, NEW fare \in Fares, LockManualFare(o, fare)
        PROVE  NegotiationType'
    BY <1>4, <1>5, <1>7 DEF LockManualFare, Sides
  <1>8. ASSUME NEW o \in Offers, ProposeCount(o) \/ OfferAborts(o)
        PROVE  NegotiationType'
    BY <1>1, <1>3, <1>5, <1>8 DEF ProposeCount, OfferAborts
  <1>9. ASSUME NEW o \in Offers, CountRounds(o) PROVE NegotiationType'
    <2>1. Len(rounds) + 1 \in Nat
      BY <1>0
    <2> QED
      BY <1>2, <1>5, <1>9, <2>1 DEF CountRounds
  <1>10. ASSUME NEW o \in Offers, CreateRound(o) PROVE NegotiationType'
    <2>1. [number |-> offer[o].round, by |-> offer[o].by, fare |-> offer[o].fare]
              \in [number : Nat, by : Sides, fare : Fares]
      BY <1>0, <1>10 DEF CreateRound, OfferRow, Offering
    <2>2. rounds' \in Seq([number : Nat, by : Sides, fare : Fares])
      BY <1>0, <1>10, <2>1 DEF CreateRound
    <2>3. OffersOK
      BY <1>1, <1>10 DEF CreateRound
    <2> QED
      BY <1>10, <2>2, <2>3 DEF CreateRound, OffersOK, NegotiationType, OfferRow,
                               Offering
  <1>11. ASSUME NEW o \in Offers, LockFare(o) PROVE NegotiationType'
    <2>1. OffersOK
      BY <1>1, <1>3, <1>11 DEF LockFare
    <2>2. agreed' \in Fares \cup {None} /\ UNCHANGED <<rounds, told>>
      BY <1>0, <1>11 DEF LockFare, NegotiationType, Offering
    <2> QED
      BY <2>1, <2>2 DEF OffersOK, NegotiationType, OfferRow, Offering
  <1>12. ASSUME NEW o \in Offers, Confirm(o) PROVE NegotiationType'
    <2>1. OffersOK /\ UNCHANGED <<agreed, rounds>>
      BY <1>1, <1>12 DEF Confirm
    <2>2. told' \subseteq Fares
      BY <1>0, <1>12 DEF Confirm, NegotiationType, Offering
    <2> QED
      BY <2>1, <2>2 DEF OffersOK, NegotiationType, OfferRow, Offering
  <1>13. CASE \/ SendTextMessage \/ Silence \/ TimeoutFires \/ TimeoutCancels
              \/ CustomerCancels \/ UNCHANGED negotiationVars
    BY <1>13 DEF SendTextMessage, Silence, TimeoutFires, TimeoutCancels,
                 CustomerCancels, negotiationVars, NegotiationType
  <1> QED
    BY <1>6, <1>7, <1>8, <1>9, <1>10, <1>11, <1>12, <1>13 DEF NegotiationNext

\* The fare is locked once, and only who locked it confirms it.
LEMMA FareLockedOnce ==
    NegotiationType /\ LockedFareIsTold /\ [NegotiationNext]_negotiationVars
        => LockedFareIsTold'
  <1> SUFFICES ASSUME NegotiationType, LockedFareIsTold,
                      [NegotiationNext]_negotiationVars
               PROVE  LockedFareIsTold'
    OBVIOUS
  <1>0. /\ offer \in [Offers -> OfferRow] /\ None \notin Fares
        /\ \A o \in Offers : offer[o].pc # "idle" => offer[o].fare \in Fares
        /\ \A o \in Offers : offer[o].pc = "confirm" => agreed = offer[o].fare
        /\ ToldFareIsAgreed
    BY NegotiationAssumption DEF NegotiationType, OfferRow, LockedFareIsTold
  <1>1. ASSUME NEW o \in Offers, LockFare(o) PROVE LockedFareIsTold'
    <2>1. CASE agreed = None
      <3>1. told = {} /\ told' = told /\ agreed' = offer[o].fare
        BY <1>0, <1>1, <2>1 DEF ToldFareIsAgreed, LockFare, NegotiationType
      <3>2. \A p \in Offers : offer[p].pc # "confirm"
        BY <1>0, <2>1
      <3>3. /\ offer'[o].fare = offer[o].fare
            /\ \A p \in Offers \ {o} : offer'[p] = offer[p]
        BY <1>0, <1>1, <2>1 DEF LockFare, OfferTo, OfferRow
      <3> QED
        BY <3>1, <3>2, <3>3 DEF LockedFareIsTold, ToldFareIsAgreed
    <2>2. CASE agreed # None
      <3>1. /\ UNCHANGED <<agreed, told>> /\ offer'[o].pc = "idle"
            /\ \A p \in Offers \ {o} : offer'[p] = offer[p]
        BY <1>0, <1>1, <2>2 DEF LockFare, OfferDone, NoOffer
      <3> QED
        BY <1>0, <3>1 DEF LockedFareIsTold, ToldFareIsAgreed
    <2> QED
      BY <2>1, <2>2
  <1>2. ASSUME NEW o \in Offers, Confirm(o) PROVE LockedFareIsTold'
    <2>1. /\ agreed' = agreed /\ told' \subseteq told \cup {agreed}
          /\ \A p \in Offers : offer'[p].pc = "confirm" => offer'[p] = offer[p]
      BY <1>0, <1>2 DEF Confirm, OfferDone, NoOffer
    <2> QED
      BY <1>0, <2>1 DEF LockedFareIsTold, ToldFareIsAgreed
  <1>3. ASSUME UNCHANGED <<agreed, told>>,
               \A p \in Offers : offer'[p].pc = "confirm" => offer'[p] = offer[p]
        PROVE  LockedFareIsTold'
    BY <1>0, <1>3 DEF LockedFareIsTold, ToldFareIsAgreed
  <1>4. ASSUME NEW o \in Offers,
               \/ \E side \in Sides : \/ \E fare \in Fares : Propose(o, side, fare)
                                      \/ Accept(o, side)
               \/ \E fare \in Fares : LockManualFare(o, fare)
        PROVE  LockedFareIsTold'
    <2>1. /\ UNCHANGED <<agreed, told>>
          /\ \E pc \in {"count", "lock"} : \E side, fare : Begin_(o, pc, side, fare, 0)
      BY <1>4 DEF Propose, Accept, LockManualFare
    <2>2. \A p \in Offers : offer'[p].pc = "confirm" => offer'[p] = offer[p]
      BY <1>0, <2>1 DEF Begin_
    <2> QED
      BY <1>3, <2>1, <2>2
  <1>5. ASSUME NEW o \in Offers,
               \/ ProposeCount(o) \/ CountRounds(o) \/ CreateRound(o)
               \/ OfferAborts(o)
        PROVE  LockedFareIsTold'
    <2>1. /\ UNCHANGED <<agreed, told>> /\ offer'[o].pc # "confirm"
          /\ \A p \in Offers \ {o} : offer'[p] = offer[p]
      BY <1>0, <1>5 DEF ProposeCount, CountRounds, CreateRound, OfferAborts,
                        OfferTo, OfferDone, NoOffer, OfferRow
    <2> QED
      BY <1>3, <2>1
  <1>6. CASE \/ SendTextMessage \/ Silence \/ TimeoutFires \/ TimeoutCancels
             \/ CustomerCancels \/ UNCHANGED negotiationVars
    BY <1>3, <1>6 DEF SendTextMessage, Silence, TimeoutFires, TimeoutCancels,
                      CustomerCancels, negotiationVars
  <1> QED
    BY <1>1, <1>2, <1>4, <1>5, <1>6 DEF NegotiationNext

LEMMA NegotiationInvariant ==
    NegotiationSpec => [](NegotiationType /\ LockedFareIsTold)
  <1>1. NegotiationInit => NegotiationType /\ LockedFareIsTold
    BY DEF NegotiationInit, NegotiationType, LockedFareIsTold, ToldFareIsAgreed,
           NoOffer
  <1> QED
    BY <1>1, NegotiationTypes, FareLockedOnce, PTL DEF NegotiationSpec

-----------------------------------------------------------------------------
(* Sessions.                                                               *)

DeviceRow == [held : Pairs \cup {None},
              pc : {"idle", "user", "lift", "revoke", "issue", "access"},
              next : Pairs \cup {None}, suspended : BOOLEAN,
              until : {"never", "ahead", "past"}]

Account ==
    [suspended : BOOLEAN, until : {"never", "ahead", "past"}, bans : Nat]

\* What a device's own step may do: its row is replaced, by one that holds the
\* pair it held, the one it is given or none; and no other pair is lost.
LEMMA DeviceMoves ==
    ASSUME SessionsInv, NEW d \in Devices, NEW row \in DeviceRow,
           device' = [device EXCEPT ![d] = row],
           refresh' \subseteq Pairs, refresh \ {Held(d)} \subseteq refresh',
           excused' \in [Devices -> BOOLEAN],
           \A e \in Devices \ {d} : excused'[e] = excused[e],
           \/ row.held \in {None, Held(d)}
           \/ row.held = device[d].next /\ row.next = None,
           row.next # None => row.pc = "access",
           row.pc = "access" =>
               /\ row.next \in Pairs /\ row.next # row.held
               /\ row.next \in refresh' \/ excused'[d]
               /\ \A e \in Devices \ {d} : row.next \notin {Held(e), device[e].next},
           row.pc = "idle" /\ row.held # None =>
               row.held \in refresh' \/ excused'[d],
           account' \in Account
    PROVE  SessionsInv'
  <1>0. device \in [Devices -> DeviceRow]
    BY DEF SessionsInv, SessionsType, DeviceRow, Account
  <1>1. /\ device'[d] = row
        /\ \A e \in Devices \ {d} : device'[e] = device[e]
    BY <1>0
  <1>2. SessionsType'
    BY <1>0 DEF SessionsType, DeviceRow, Account
  <1>3. StaysSignedIn'
    <2> SUFFICES ASSUME NEW e \in Devices, device'[e].pc = "idle",
                        device'[e].held # None
                 PROVE  device'[e].held \in refresh' \/ excused'[e]
      BY DEF StaysSignedIn, Held
    <2>1. CASE e = d
      BY <1>1, <2>1
    <2>2. CASE e # d
      BY <1>1, <2>2 DEF SessionsInv, StaysSignedIn, PairsOK, Held
    <2> QED
      BY <2>1, <2>2
  <1>4. PairsOK'
    <2>1. ASSUME NEW e \in Devices
          PROVE  /\ device'[e].next # None => device'[e].pc = "access"
                 /\ device'[e].pc = "access" =>
                       /\ device'[e].next \in Pairs
                       /\ device'[e].next \in refresh' \/ excused'[e]
                       /\ device'[e].next # device'[e].held
      <3>1. CASE e = d
        BY <1>1, <3>1
      <3>2. CASE e # d
        <4>1. /\ device[e].next # None => device[e].pc = "access"
              /\ device[e].pc = "access" =>
                    /\ device[e].next \in Pairs
                    /\ device[e].next \in refresh \/ excused[e]
                    /\ device[e].next # device[e].held
              /\ device[e].next # None => device[e].next # Held(d)
          BY <3>2 DEF SessionsInv, PairsOK, Held
        <4>2. None \notin Pairs
          BY SessionsAssumption
        <4> QED
          BY <1>1, <3>2, <4>1, <4>2
      <3> QED
        BY <3>1, <3>2
    <2>2. ASSUME NEW e \in Devices, NEW f \in Devices \ {e}
          PROVE  /\ device'[e].held # None => device'[f].held # device'[e].held
                 /\ device'[e].next # None =>
                       device'[e].next \notin {device'[f].held, device'[f].next}
      <3>1. /\ Held(e) # None => Held(f) # Held(e)
            /\ Held(f) # None => Held(e) # Held(f)
            /\ device[e].next # None =>
                   device[e].next \notin {Held(f), device[f].next}
            /\ device[f].next # None =>
                   device[f].next \notin {Held(e), device[e].next}
        BY DEF SessionsInv, PairsOK
      <3>2. CASE e = d
        BY <1>1, <3>1, <3>2 DEF Held
      <3>3. CASE f = d
        BY <1>1, <3>1, <3>3 DEF Held
      <3>4. CASE e # d /\ f # d
        BY <1>1, <3>1, <3>4 DEF Held
      <3> QED
        BY <3>2, <3>3, <3>4
    <2> QED
      BY <2>1, <2>2 DEF PairsOK, Held
  <1> QED
    BY <1>2, <1>3, <1>4 DEF SessionsInv

\* What any other step may do: who loses a pair is excused.
LEMMA DevicesStay ==
    ASSUME SessionsInv, UNCHANGED device, refresh' \subseteq Pairs,
           excused' \in [Devices -> BOOLEAN],
           \A d \in Devices : excused[d] => excused'[d],
           \A d \in Devices : \A p \in refresh \cap {Held(d), device[d].next} :
               p \in refresh' \/ excused'[d],
           account' \in Account
    PROVE  SessionsInv'
  <1>1. SessionsType'
    BY DEF SessionsInv, SessionsType, Account
  <1>2. StaysSignedIn'
    BY DEF SessionsInv, StaysSignedIn, Held
  <1>3. PairsOK'
    BY DEF SessionsInv, PairsOK, Held
  <1> QED
    BY <1>1, <1>2, <1>3 DEF SessionsInv

\* The steps of a device ...
LEMMA DeviceKeeps ==
    ASSUME SessionsInv, NEW d \in Devices,
           SignIn(d) \/ RefreshKey(d) \/ DeviceStep(d) \/ Logout(d)
    PROVE  SessionsInv'
  <1>0. /\ device \in [Devices -> DeviceRow] /\ device[d] \in DeviceRow
        /\ refresh \subseteq Pairs /\ excused \in [Devices -> BOOLEAN]
        /\ account \in Account
        /\ None \notin Pairs
    BY SessionsAssumption DEF SessionsInv, SessionsType, DeviceRow, Account
  <1>00. /\ device[d].next # None => device[d].pc = "access"
         /\ device[d].pc = "access" =>
               /\ device[d].next \in Pairs
               /\ device[d].next \in refresh \/ excused[d]
               /\ device[d].next # Held(d)
         /\ device[d].pc = "idle" /\ Held(d) # None =>
                Held(d) \in refresh \/ excused[d]
         /\ Held(d) \in Pairs \cup {None}
    BY <1>0 DEF SessionsInv, PairsOK, StaysSignedIn, Held, DeviceRow
  \* A row without a next pair.
  <1>1. ASSUME NEW row \in DeviceRow, device' = [device EXCEPT ![d] = row],
               row.held \in {None, Held(d), device[d].next}, row.next = None,
               row.pc # "access",
               row.pc = "idle" /\ row.held # None =>
                   row.held \in refresh' \/ excused'[d],
               refresh' \subseteq Pairs, refresh \ {Held(d)} \subseteq refresh',
               excused' \in [Devices -> BOOLEAN],
               \A e \in Devices \ {d} : excused'[e] = excused[e],
               account' \in Account
        PROVE  SessionsInv'
    BY <1>1, DeviceMoves
  <1>10. ASSUME NEW pair \in {None, Held(d), device[d].next}, Answer(d, pair),
                pair # None => pair \in refresh' \/ excused'[d],
                refresh' \subseteq Pairs, refresh \ {Held(d)} \subseteq refresh',
                excused' \in [Devices -> BOOLEAN],
                \A e \in Devices \ {d} : excused'[e] = excused[e],
                account' \in Account
         PROVE  SessionsInv'
    <2> DEFINE row == [NoRequest EXCEPT !.held = pair]
    <2>1. row \in DeviceRow /\ row.pc = "idle" /\ row.held = pair /\ row.next = None
      BY <1>0, <1>00 DEF NoRequest, DeviceRow
    <2>2. device' = [device EXCEPT ![d] = row]
      BY <1>10 DEF Answer
    <2> HIDE DEF row
    <2> QED
      BY <1>1, <1>10, <2>1, <2>2
  <1>11. ASSUME NEW pc \in {"user", "revoke", "issue"}, Goto(d, pc),
                refresh' \subseteq Pairs, refresh \ {Held(d)} \subseteq refresh',
                UNCHANGED excused, account' \in Account
         PROVE  SessionsInv'
    <2> DEFINE row == [NoRequest EXCEPT !.pc = pc, !.held = Held(d)]
    <2>1. row \in DeviceRow /\ row.pc = pc /\ row.held = Held(d) /\ row.next = None
      BY <1>0, <1>00 DEF NoRequest, DeviceRow
    <2>2. device' = [device EXCEPT ![d] = row]
      BY <1>11 DEF Goto
    <2> HIDE DEF row
    <2> QED
      BY <1>0, <1>1, <1>11, <2>1, <2>2
  \* A row that remembers what it read of the account.
  <1>2. ASSUME device[d].pc \in {"idle", "user"}, ReadAccount(d, "lift"),
               UNCHANGED <<account, refresh, excused>>
        PROVE  SessionsInv'
    <2> DEFINE row == [device[d] EXCEPT !.pc = "lift",
                                        !.suspended = account.suspended,
                                        !.until = account.until]
    <2>1. device' = [device EXCEPT ![d] = row]
      BY <1>2 DEF ReadAccount
    <2>2. /\ row \in DeviceRow
          /\ row.pc = "lift" /\ row.held = Held(d) /\ row.next = None
      BY <1>0, <1>00, <1>2 DEF DeviceRow, Held, Account
    <2> HIDE DEF row
    <2> QED
      BY <1>0, <1>2, <2>1, <2>2, DeviceMoves
  <1>3. CASE SignIn(d) \/ RefreshUser(d)
    BY <1>2, <1>3 DEF SignIn, RefreshUser
  <1>4. CASE RefreshKey(d)
    BY <1>0, <1>4, <1>10, <1>11 DEF RefreshKey
  <1>5. CASE Lift(d)
    <2>1. account' \in Account
      BY <1>0, <1>5 DEF Lift, Account
    <2>2. CASE refresh' = refresh \ {Held(d)} /\ Answer(d, None)
      BY <1>0, <1>5, <1>10, <2>1, <2>2 DEF Lift
    <2>3. CASE Goto(d, IF Held(d) = None THEN "issue" ELSE "revoke")
               /\ UNCHANGED refresh
      BY <1>0, <1>5, <1>11, <2>1, <2>3 DEF Lift
    <2> QED
      BY <1>5, <2>2, <2>3 DEF Lift
  <1>6. CASE RefreshRevoke(d)
    BY <1>0, <1>6, <1>11 DEF RefreshRevoke
  <1>7. CASE IssueRefresh(d)
    <2>1. PICK p \in Fresh :
              /\ refresh' = refresh \cup {p}
              /\ device' = [device EXCEPT ![d].pc = "access", ![d].next = p]
      BY <1>7 DEF IssueRefresh
    <2>2. /\ p \in Pairs /\ p # Held(d)
          /\ \A e \in Devices : p \notin {Held(e), device[e].next}
      BY <2>1 DEF Fresh, Held
    <2> DEFINE row == [device[d] EXCEPT !.pc = "access", !.next = p]
    <2>3. /\ row \in DeviceRow
          /\ row.pc = "access" /\ row.held = Held(d) /\ row.next = p
      BY <1>0, <2>2 DEF DeviceRow, Held
    <2>4. device' = [device EXCEPT ![d] = row]
      BY <2>1
    <2>5. /\ excused' \in [Devices -> BOOLEAN] /\ UNCHANGED account
          /\ \A e \in Devices \ {d} : excused'[e] = excused[e]
          /\ refresh' \subseteq Pairs /\ refresh \subseteq refresh'
      BY <1>0, <1>7, <2>1, <2>2 DEF IssueRefresh
    <2> HIDE DEF row
    <2> QED
      BY <1>0, <2>1, <2>2, <2>3, <2>4, <2>5, DeviceMoves
  <1>8. CASE IssueAccess(d)
    <2>1. UNCHANGED <<account, refresh>> /\ device[d].pc = "access"
      BY <1>8 DEF IssueAccess
    <2>2. CASE Answer(d, device[d].next) /\ UNCHANGED excused
      BY <1>0, <1>00, <1>10, <2>1, <2>2
    <2>3. CASE Answer(d, Held(d)) /\ excused' = [excused EXCEPT ![d] = TRUE]
      BY <1>0, <1>00, <1>10, <2>1, <2>3
    <2> QED
      BY <1>8, <2>2, <2>3 DEF IssueAccess
  <1>9. CASE Logout(d)
    BY <1>0, <1>9, <1>10 DEF Logout
  <1> QED
    BY <1>3, <1>4, <1>5, <1>6, <1>7, <1>8, <1>9 DEF DeviceStep

\* ... and everything else.
LEMMA SessionsKept ==
    SessionsInv /\ [SessionsNext]_sessionVars => SessionsInv'
  <1> SUFFICES ASSUME SessionsInv, [SessionsNext]_sessionVars
               PROVE  SessionsInv'
    OBVIOUS
  <1>0. /\ refresh \subseteq Pairs /\ excused \in [Devices -> BOOLEAN]
        /\ account \in Account
    BY DEF SessionsInv, SessionsType, Account
  <1>1. ASSUME UNCHANGED <<device, refresh, excused>>,
               account' \in Account
        PROVE  SessionsInv'
    BY <1>0, <1>1, DevicesStay
  <1>2. ASSUME NEW j \in Jobs,
               \/ Count(j) \/ SuspendUser(j) \/ SwitchMode(j)
               \/ IncrementUserBanCount(j) \/ Sentence(j) \/ ScanKeys(j)
        PROVE  SessionsInv'
    <2>1. UNCHANGED <<device, refresh, excused>>
      BY <1>2 DEF Count, SuspendUser, SwitchMode, IncrementUserBanCount,
                  Sentence, ScanKeys
    <2>2. account' \in Account
      <3>1. CASE IncrementUserBanCount(j)
        BY <1>0, <3>1 DEF IncrementUserBanCount, Account
      <3>2. CASE Sentence(j)
        <4>1. PICK until \in {"never", "ahead"} :
                  account' = [account EXCEPT !.suspended = TRUE, !.until = until]
          BY <3>2 DEF Sentence
        <4> QED
          BY <1>0, <4>1 DEF Account
      <3>3. CASE Count(j) \/ SuspendUser(j) \/ SwitchMode(j) \/ ScanKeys(j)
        BY <1>0, <3>3 DEF Count, SuspendUser, SwitchMode, ScanKeys, Account
      <3> QED
        BY <1>2, <3>1, <3>2, <3>3
    <2> QED
      BY <1>1, <2>1, <2>2
  <1>3. ASSUME NEW j \in Jobs, DropKeys(j) PROVE SessionsInv'
    BY <1>0, <1>3, DevicesStay DEF DropKeys
  <1>4. CASE \/ BanCustomer \/ ReinstateUser \/ SuspensionEnds \/ DayEnds
             \/ UNCHANGED sessionVars
    <2>1. UNCHANGED <<device, refresh, excused>>
      BY <1>4 DEF BanCustomer, ReinstateUser, SuspensionEnds, DayEnds, sessionVars
    <2>2. account' \in Account
      BY <1>0, <1>4 DEF BanCustomer, ReinstateUser, SuspensionEnds, DayEnds,
                        sessionVars, Account
    <2> QED
      BY <1>1, <2>1, <2>2
  <1>5. ASSUME NEW p \in Pairs, AccessExpires(p) \/ RefreshExpires(p)
        PROVE  SessionsInv'
    BY <1>0, <1>5, DevicesStay DEF AccessExpires, RefreshExpires
  <1> QED
    BY <1>2, <1>3, <1>4, <1>5, DeviceKeeps DEF SessionsNext, JobStep

LEMMA SessionsInvariant == SessionsSpec => []SessionsInv
  <1>1. SessionsInit => SessionsInv
    BY SessionsAssumption
       DEF SessionsInit, SessionsInv, SessionsType, PairsOK, StaysSignedIn, Held,
           NoRequest
  <1> QED
    BY <1>1, SessionsKept, PTL DEF SessionsSpec

-----------------------------------------------------------------------------
(* Connections.                                                            *)

\* A step that leaves the hub as it is, and connects nobody.
LEMMA SocketGoesOn ==
    ASSUME SocketsInv, sock' \in [AllSockets -> Pcs],
           UNCHANGED <<hub, newest, missed, taken>>,
           \A t \in AllSockets :
               /\ Connected(t)' => Connected(t)
               /\ sock'[t] = "new" => sock[t] = "new"
    PROVE  SocketsInv'
  <1>1. newest \in [Roles -> AllSockets \cup {None}]
    BY DEF SocketsInv, SocketsType
  <1>2. SocketsType'
    BY DEF SocketsInv, SocketsType
  <1>3. HubOK'
    <2> SUFFICES ASSUME NEW x \in Roles
                 PROVE  /\ newest[x] # None =>
                               /\ RoleOf(newest[x]) = x
                               /\ sock'[newest[x]] # "new"
                        /\ hub[x] \in {newest[x], None}
                        /\ newest[x] # None /\ Connected(newest[x])' /\ hub[x] = None
                               => taken[x]
      BY DEF HubOK
    <2>1. newest[x] \in AllSockets \cup {None}
      BY <1>1
    <2> QED
      BY <2>1 DEF SocketsInv, HubOK
  <1> QED
    BY <1>2, <1>3 DEF SocketsInv, HeardUnlessTakenOver

\* The newest client takes the place of the one before.
LEMMA SocketRegisters ==
    ASSUME SocketsInv, NEW s \in AllSockets, NEW pc \in {"restore", "replay"},
           Register(s), GoesOn(s, pc), UNCHANGED taken
    PROVE  SocketsInv'
  <1> DEFINE x == RoleOf(s)
  <1>1. /\ sock \in [AllSockets -> Pcs] /\ None \notin AllSockets
        /\ newest \in [Roles -> AllSockets \cup {None}]
        /\ hub \in [Roles -> AllSockets \cup {None}]
        /\ missed \in [Roles -> {"no", "full", "lost"}] /\ x \in Roles
    BY SocketsAssumption DEF SocketsInv, SocketsType, AllSockets, RoleOf, Roles
  <1>2. /\ sock' = [sock EXCEPT ![s] = pc]
        /\ done' = done \cup ({hub[x]} \ {None})
        /\ hub' = [hub EXCEPT ![x] = s] /\ newest' = [newest EXCEPT ![x] = s]
        /\ missed' = [missed EXCEPT ![x] = "no"]
    BY DEF Register, GoesOn
  <1>3. SocketsType'
    BY <1>1, <1>2 DEF SocketsInv, SocketsType, Pcs
  <1>4. ASSUME NEW y \in Roles \ {x}
        PROVE  /\ hub'[y] = hub[y] /\ newest'[y] = newest[y]
               /\ missed'[y] = missed[y]
               /\ newest[y] # None => sock'[newest[y]] = sock[newest[y]]
    <2>1. newest[y] # None => RoleOf(newest[y]) = y
      BY DEF SocketsInv, HubOK
    <2>2. newest[y] # None => newest[y] \in AllSockets
      BY <1>1
    <2>3. newest[y] # None => newest[y] # s
      BY <2>1
    <2> QED
      BY <1>1, <1>2, <2>2, <2>3
  <1>5. hub'[x] = s /\ newest'[x] = s /\ sock'[s] = pc /\ missed'[x] = "no"
    BY <1>1, <1>2
  <1> HIDE DEF x
  <1>6. ASSUME NEW y \in Roles
        PROVE  /\ newest'[y] # None =>
                      /\ RoleOf(newest'[y]) = y
                      /\ sock'[newest'[y]] # "new"
               /\ hub'[y] \in {newest'[y], None}
               /\ newest'[y] # None /\ hub'[y] = None /\ Connected(newest[y])'
                      => taken'[y]
               /\ missed'[y] = "lost" => taken'[y]
    <2>1. CASE y = x
      <3>1. RoleOf(s) = x
        BY DEF x
      <3> QED
        BY <1>1, <1>5, <2>1, <3>1
    <2>2. CASE y # x
      <3>1. newest[y] # None /\ Connected(newest[y])' => Connected(newest[y])
        BY <1>2, <1>4, <2>2 DEF Connected
      <3>2. /\ newest[y] # None =>
                   RoleOf(newest[y]) = y /\ sock[newest[y]] # "new"
            /\ hub[y] \in {newest[y], None}
            /\ newest[y] # None /\ hub[y] = None /\ Connected(newest[y])
                   => taken[y]
            /\ missed[y] = "lost" => taken[y]
        BY DEF SocketsInv, HubOK, HeardUnlessTakenOver
      <3> QED
        BY <1>4, <2>2, <3>1, <3>2
    <2> QED
      BY <2>1, <2>2
  <1>7. HubOK' /\ HeardUnlessTakenOver'
    BY <1>6 DEF HubOK, HeardUnlessTakenOver
  <1> QED
    BY <1>3, <1>7 DEF SocketsInv

\* Whoever ends removes whoever is registered.
LEMMA SocketUnregisters ==
    ASSUME SocketsInv, NEW s \in AllSockets, NEW pc \in {"gone", "clear"},
           Unregister(s), GoesOn(s, pc), UNCHANGED <<newest, missed, done>>
    PROVE  SocketsInv'
  <1> DEFINE x == RoleOf(s)
  <1>1. /\ sock \in [AllSockets -> Pcs] /\ None \notin AllSockets
        /\ newest \in [Roles -> AllSockets \cup {None}]
        /\ hub \in [Roles -> AllSockets \cup {None}]
        /\ taken \in [Roles -> BOOLEAN] /\ x \in Roles
    BY SocketsAssumption DEF SocketsInv, SocketsType, AllSockets, RoleOf, Roles
  <1>2. /\ hub' = [hub EXCEPT ![x] = None] /\ sock' = [sock EXCEPT ![s] = pc]
        /\ taken' = [taken EXCEPT ![x] = taken[x] \/ (newest[x] # s
                                                       /\ hub[x] # None)]
    BY DEF Unregister, GoesOn
  <1>3. SocketsType'
    BY <1>1, <1>2 DEF SocketsInv, SocketsType, Pcs
  <1>4. ASSUME NEW y \in Roles
        PROVE  /\ newest[y] # None =>
                      /\ RoleOf(newest[y]) = y
                      /\ sock'[newest[y]] # "new"
               /\ hub'[y] \in {newest[y], None}
               /\ newest[y] # None /\ hub'[y] = None /\ Connected(newest[y])'
                      => taken'[y]
               /\ missed[y] = "lost" => taken'[y]
    <2>1. /\ newest[y] # None =>
                 /\ RoleOf(newest[y]) = y
                 /\ sock[newest[y]] # "new"
          /\ hub[y] \in {newest[y], None}
          /\ newest[y] # None /\ hub[y] = None /\ Connected(newest[y]) => taken[y]
          /\ missed[y] = "lost" => taken[y]
      BY DEF SocketsInv, HubOK, HeardUnlessTakenOver
    <2>2. newest[y] \in AllSockets \cup {None}
      BY <1>1
    <2>3. /\ newest[y] # s /\ newest[y] # None =>
                 /\ sock'[newest[y]] = sock[newest[y]]
                 /\ Connected(newest[y])' => Connected(newest[y])
          /\ sock'[s] = pc /\ ~Connected(s)'
      BY <1>1, <1>2, <2>2 DEF Connected
    <2>4. CASE y # x
      <3>1. hub'[y] = hub[y] /\ taken'[y] = taken[y]
        BY <1>1, <1>2, <2>4
      <3> QED
        BY <2>1, <2>3, <3>1, <2>4
    <2>5. CASE y = x
      <3>1. /\ hub'[y] = None
            /\ taken'[y] = (taken[y] \/ (newest[y] # s /\ hub[y] # None))
        BY <1>1, <1>2, <2>5
      <3> QED
        BY <2>1, <2>3, <3>1
    <2> QED
      BY <2>4, <2>5
  <1>5. HubOK' /\ HeardUnlessTakenOver'
    BY <1>4 DEF HubOK, HeardUnlessTakenOver
  <1> QED
    BY <1>3, <1>5 DEF SocketsInv

LEMMA SocketsKept == SocketsInv /\ [SocketsNext]_socketVars => SocketsInv'
  <1> SUFFICES ASSUME SocketsInv, [SocketsNext]_socketVars PROVE SocketsInv'
    OBVIOUS
  <1>0. sock \in [AllSockets -> Pcs]
    BY DEF SocketsInv, SocketsType
  <1>1. ASSUME NEW s \in AllSockets, DriverWS(s) \/ CustomerWS(s)
        PROVE  SocketsInv'
    BY <1>1, SocketRegisters DEF DriverWS, CustomerWS
  <1>2. ASSUME NEW s \in AllSockets, CustomerGone(s) \/ DriverGone(s)
        PROVE  SocketsInv'
    BY <1>2, SocketUnregisters DEF CustomerGone, DriverGone
  <1>3. ASSUME NEW s \in AllSockets,
               \/ RestoreRead(s) \/ RestoreAdd(s) \/ Replay(s)
               \/ ClearRead(s) \/ ClearRemove(s) \/ PumpWrites(s) \/ PumpStops(s)
               \/ ReadFails(s) \/ UpdateRefused(s) \/ ReaderResumes(s)
        PROVE  SocketsInv'
    <2>1. UNCHANGED <<hub, newest, missed, taken>>
      BY <1>3 DEF RestoreRead, RestoreAdd, Replay, ClearRead, ClearRemove,
                  PumpWrites, PumpStops, ReadFails, UpdateRefused,
                  ReaderResumes, hubVars
    <2>2. \/ UNCHANGED sock
          \/ \E pc \in Pcs \ {"new"} :
                 /\ GoesOn(s, pc)
                 /\ pc \in {"restore", "add", "replay", "open", "blocked"} =>
                        sock[s] \in {"restore", "add", "replay", "open", "blocked"}
      <3> DEFINE Up == {"restore", "add", "replay", "open", "blocked"}
      <3>1. \/ UNCHANGED sock
            \/ sock[s] \in Up /\ GoesOn(s, "add")
            \/ sock[s] \in Up /\ GoesOn(s, "replay")
            \/ sock[s] \in Up /\ GoesOn(s, "open")
            \/ sock[s] \in Up /\ GoesOn(s, "blocked")
            \/ GoesOn(s, "ending") \/ GoesOn(s, "gone") \/ GoesOn(s, "remove")
        <4>1. CASE RestoreRead(s) \/ RestoreAdd(s) \/ Replay(s) \/ PumpWrites(s)
                   \/ PumpStops(s) \/ ReadFails(s)
          BY <4>1 DEF RestoreRead, RestoreAdd, Replay, PumpWrites, PumpStops,
                      ReadFails
        <4>2. CASE ClearRead(s) \/ ClearRemove(s) \/ UpdateRefused(s)
                   \/ ReaderResumes(s)
          BY <4>2 DEF ClearRead, ClearRemove, UpdateRefused, ReaderResumes
        <4> QED
          BY <1>3, <4>1, <4>2
      <3> QED
        BY <3>1 DEF Pcs
    <2>3. done' = done \/ done' = done \cup {s}
      BY <1>3 DEF RestoreRead, RestoreAdd, Replay, ClearRead, ClearRemove,
                  PumpWrites, PumpStops, ReadFails, UpdateRefused,
                  ReaderResumes
    <2>4. /\ sock' \in [AllSockets -> Pcs]
          /\ \A t \in AllSockets :
                 /\ Connected(t)' => Connected(t)
                 /\ sock'[t] = "new" => sock[t] = "new"
      BY <1>0, <2>2, <2>3 DEF GoesOn, Connected
    <2> QED
      BY <2>1, <2>4, SocketGoesOn
  <1>4. ASSUME NEW x \in Roles, Push(x) PROVE SocketsInv'
    <2>1. /\ missed \in [Roles -> {"no", "full", "lost"}]
          /\ None \notin AllSockets
          /\ newest[x] \in AllSockets \cup {None}
      BY SocketsAssumption DEF SocketsInv, SocketsType, AllSockets
    <2>2. /\ missed' \in [Roles -> {"no", "full", "lost"}]
          /\ \A y \in Roles \ {x} : missed'[y] = missed[y]
      BY <1>4, <2>1 DEF Push
    <2>3. missed'[x] = "lost" => taken[x]
      BY <1>4, <2>1 DEF Push, SocketsInv, HubOK
    <2>4. UNCHANGED <<sock, done, hub, newest, taken>>
      BY <1>4 DEF Push
    <2> QED
      BY <2>2, <2>3, <2>4 DEF SocketsInv, SocketsType, HubOK, Connected,
                        HeardUnlessTakenOver
  <1>5. CASE PingRead \/ PingWrite \/ PingFails \/ PoolMoves
             \/ UNCHANGED socketVars
    <2>1. UNCHANGED <<sock, done, hub, newest, missed, taken>>
      BY <1>5 DEF PingRead, PingWrite, PingFails, PoolMoves, socketVars, hubVars
    <2> QED
      BY <2>1 DEF SocketsInv, SocketsType, HubOK, Connected,
                  HeardUnlessTakenOver
  <1> QED
    BY <1>1, <1>2, <1>3, <1>4, <1>5 DEF SocketsNext, SocketStep

LEMMA SocketsInvariant == SocketsSpec => []SocketsInv
  <1>1. SocketsInit => SocketsInv
    BY DEF SocketsInit, SocketsInv, SocketsType, HubOK, HeardUnlessTakenOver,
           Pcs
  <1> QED
    BY <1>1, SocketsKept, PTL DEF SocketsSpec

-----------------------------------------------------------------------------
(* The theorems.                                                           *)

\* Each part behaves by itself.
LEMMA PartsBehave ==
    AppStateSafety =>
        BookingSpec /\ NegotiationSpec /\ SessionsSpec /\ SocketsSpec
  <1>1. AppStateInit =>
            BookingInit /\ NegotiationInit /\ SessionsInit /\ SocketsInit
    BY DEF AppStateInit
  <1>2. [AppStateNext]_appStateVars =>
            /\ [BookingNext]_bookingVars /\ [NegotiationNext]_negotiationVars
            /\ [SessionsNext]_sessionVars /\ [SocketsNext]_socketVars
    BY DEF AppStateNext, appStateVars
  <1> QED
    BY <1>1, <1>2, PTL
       DEF AppStateSafety, BookingSpec, NegotiationSpec, SessionsSpec, SocketsSpec

\* However the requests of a customer, their lock and pointer, the searches,
\* crashes and recovery mix: of two live rides one lost its guard
\* (ride/service.go:101, 117).
THEOREM OneRideWhileGuarded == AppStateSafety => []TwoRidesOnlyIfLoose
  BY PartsBehave, BookingInvariant, TwoRidesMeet, PTL

\* Through crashes and restarts, dead requests and second searches: nobody is
\* left searching with no search, unless one outlived its deadline or recovery
\* did not read the row (cmd/server/main.go:1716).
THEOREM NobodyIsOrphaned == AppStateSafety => []NoRideIsOrphaned
  <1>1. BookingInv => NoRideIsOrphaned
    BY DEF BookingInv
  <1> QED
    BY <1>1, PartsBehave, BookingInvariant, PTL

\* Two accepts, a manual fare, the clock and a cancellation at once: the fare
\* both sides were told is the fare the ride has (negotiation/service.go:306).
THEOREM ToldOneFare == AppStateSafety => []ToldFareIsAgreed
  <1>1. NegotiationType /\ LockedFareIsTold => ToldFareIsAgreed
    BY DEF LockedFareIsTold
  <1> QED
    BY <1>1, PartsBehave, NegotiationInvariant, PTL

\* A device keeps a session it can refresh, whatever requests of its own, of
\* other devices, suspensions and mode switches do (auth/service.go:283).
THEOREM SessionsLast == AppStateSafety => []StaysSignedIn
  <1>1. SessionsInv => StaysSignedIn
    BY DEF SessionsInv
  <1> QED
    BY <1>1, PartsBehave, SessionsInvariant, PTL

\* A message to a connected app misses the queue of its connection only when
\* that is full, or after an older connection's end removed the newer one from
\* the hub (tracking/hub.go).
THEOREM HeardByTheNewest == AppStateSafety => []HeardUnlessTakenOver
  <1>1. SocketsInv => HeardUnlessTakenOver
    BY DEF SocketsInv
  <1> QED
    BY <1>1, PartsBehave, SocketsInvariant, PTL
=============================================================================
