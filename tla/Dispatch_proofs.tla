-------------------------- MODULE Dispatch_proofs --------------------------
(***************************************************************************)
(* Proofs about Dispatch, for any rides, customers and drivers, any reach  *)
(* of the searches and any number of rounds: the four safety properties of *)
(* the search.  Each rests on what a goroutine may count on at each point  *)
(* of its loop while the others run:                                       *)
(*   - the lock of the driver it has an open offer to is its own, or is     *)
(*     known to have been lost;                                            *)
(*   - the signals it may still receive are the drivers' own answers;      *)
(*   - while its context lasts, the status of its ride has moved no        *)
(*     further than its own statements, or to CANCELLED.                   *)
(***************************************************************************)
EXTENDS Dispatch, TLAPS

\* Between an offer's acceptance and the end of onAccepted.
Taking == {"assign", "match", "negotiate", "occupy"}
\* Where the ride can only be SEARCHING, or cancelled.
Searching == {"wait", "check", "list", "pick", "giveUp", "assign", "match"}
                 \cup Offering

\* A search whose loop goes on has a round left, and one that has offered its
\* ride has a driver.
LoopOK ==
    \A r \in Rides :
        /\ search[r].pc \in {"off", "wait", "check", "list", "pick"} \cup Offering =>
               search[r].attempt < MaxAttempts
        /\ search[r].pc \in Offering \cup Taking =>
               search[r].driver \in Drivers

\* A ride is there as long as its search has been.
Booked ==
    \A r \in Rides :
        /\ ride[r].status = None <=> search[r].pc = "off"
        /\ cancel[r].pc = "write" => ride[r].status # None

Shape == TypeOK /\ LoopOK

\* An open offer holds the lock of its driver until it loses it.
LockHeld ==
    \A r \in Rides : search[r].pc \in Offering /\ r \notin unlocked =>
                         lock[search[r].driver] = r

\* What waits in the channel of an open offer are answers, and a ride is
\* given only to a driver who said yes to it.
Heard(r) ==
    /\ search[r].pc = "open" =>
           /\ channel[r] \in SUBSET Signal
           /\ \A signal \in channel[r] :
                  signal.accepted => reply[signal.driver][r] = "accepted"
    /\ search[r].pc \in {"accepted"} \cup Taking =>
           reply[search[r].driver][r] = "accepted"
AnswersOK == \A r \in Rides : Heard(r)

\* How far a ride has come, by where its search is.
CameTo(r) ==
    /\ search[r].detached => expired[r]
    /\ search[r].pc \in Searching =>
           ride[r].status \in {"SEARCHING", "CANCELLED"}
    /\ search[r].pc = "negotiate" /\ ~expired[r] =>
           ride[r].status \in {"MATCHED", "CANCELLED"}
    /\ search[r].pc = "occupy" /\ ~expired[r] =>
           ride[r].status \in {"NEGOTIATING", "CANCELLED"}
    /\ search[r].pc = "release" /\ ~expired[r] =>
           ride[r].status = "CANCELLED"
    /\ search[r].pc = "done" /\ ~expired[r] =>
           ride[r].status \in {"NEGOTIATING", "CANCELLED"}
StatusOK == \A r \in Rides : CameTo(r)

-----------------------------------------------------------------------------
(* Types, and the rounds left.                                             *)

\* The loop's next round.
LEMMA NextAttemptShape ==
    ASSUME Shape, NEW r \in Rides, search[r].pc \in {"list", "pick"},
           NextAttempt(r), UNCHANGED <<ride, expired, channel, pending, lock,
                                       unlocked, driverRide, customerRide, reply, cancel>>
    PROVE  Shape'
  <1>1. search[r] \in Search /\ search[r].attempt < MaxAttempts
    BY DEF Shape, TypeOK, LoopOK
  <1>2. /\ search[r].attempt + 1 \in 0..MaxAttempts
        /\ MaxAttempts \in Nat
    BY <1>1, DispatchAssumption DEF Search
  <1>3. search' \in [Rides -> Search]
    BY <1>1, <1>2 DEF NextAttempt, Search, Points, Shape, TypeOK
  <1>4. TypeOK'
    BY <1>3 DEF Shape, TypeOK
  <1>5. LoopOK'
    BY <1>1, <1>2 DEF NextAttempt, Shape, TypeOK, LoopOK, Offering, Taking
  <1> QED
    BY <1>4, <1>5 DEF Shape

\* A goroutine that moves on, and changes nothing else of its own state.
LEMMA GoToShape ==
    ASSUME Shape, NEW r \in Rides, NEW pc \in Points, GoTo(r, pc),
           pc \in {"off", "wait", "check", "list", "pick"} \cup Offering =>
               search[r].attempt < MaxAttempts,
           pc \in Offering \cup Taking => search[r].driver \in Drivers
    PROVE  search' \in [Rides -> Search] /\ LoopOK'
  <1>1. search \in [Rides -> Search]
    BY DEF Shape, TypeOK
  <1>2. search' \in [Rides -> Search]
    BY <1>1 DEF GoTo, Search
  <1>3. LoopOK'
    BY <1>1 DEF GoTo, LoopOK, Shape, Search
  <1> QED
    BY <1>2, <1>3

\* ... that ends.
LEMMA DoneShape ==
    ASSUME Shape, NEW r \in Rides, search' = [search EXCEPT ![r] = Done]
    PROVE  search' \in [Rides -> Search] /\ LoopOK'
  <1>0. 0 \in 0..MaxAttempts
    BY DispatchAssumption
  <1>1. Done \in Search /\ Done.pc = "done"
    <2>1. NoSearch \in Search
      BY <1>0 DEF NoSearch, Search, Points
    <2>2. "done" \in Points
      BY DEF Points
    <2> QED
      BY <2>1, <2>2 DEF Done, Search
  <1>2. search' \in [Rides -> Search]
    BY <1>1 DEF Shape, TypeOK
  <1>3. LoopOK'
    BY <1>1 DEF LoopOK, Shape, TypeOK, Offering, Taking
  <1> QED
    BY <1>2, <1>3

\* A row whose status is written is a row.
LEMMA StatusShape ==
    ASSUME TypeOK, NEW r \in Rides, NEW to \in Status
    PROVE  [ride EXCEPT ![r].status = to] \in [Rides -> Row]
  <1>1. ride \in [Rides -> Row] /\ ride[r] \in Row
    BY DEF TypeOK
  <1>2. [ride[r] EXCEPT !.status = to] \in Row
    BY <1>1 DEF Row
  <1> QED
    BY <1>1, <1>2

\* The initial state.
LEMMA ShapeInit == Init => Shape
  <1> SUFFICES ASSUME Init PROVE Shape
    OBVIOUS
  <1>0. 0 \in 0..MaxAttempts
    BY DispatchAssumption
  <1>1. NoSearch \in Search /\ NoSearch.pc = "off"
    BY <1>0 DEF NoSearch, Search, Points
  <1>2. \A r \in Rides : search[r] = NoSearch
    BY DEF Init
  <1>3. search \in [Rides -> Search]
    BY <1>1 DEF Init
  <1>4. TypeOK
    BY <1>3 DEF Init, TypeOK, Row
  <1>5. LoopOK
    <2>1. NoSearch.attempt < MaxAttempts
      BY DispatchAssumption DEF NoSearch
    <2> QED
      BY <1>1, <1>2, <2>1 DEF LoopOK, Offering, Taking
  <1> QED
    BY <1>4, <1>5 DEF Shape

\* The loop's own statements.
LEMMA ShapeRunLoop ==
    ASSUME Shape, NEW r \in Rides, RunLoop(r)
    PROVE  Shape'
  <1> USE DEF Shape
  <1>0. /\ search \in [Rides -> Search] /\ search[r] \in Search
        /\ search[r].pc \in {"wait", "check", "list", "pick"} \cup Offering =>
               search[r].attempt < MaxAttempts
        /\ search[r].pc \in Offering \cup Taking =>
               search[r].driver \in Drivers
    BY DEF TypeOK, LoopOK
  <1> DEFINE Kept == search' \in [Rides -> Search] /\ LoopOK'
  <1>1. CASE Wait(r)
    <2>1. CASE GoTo(r, "check")
      <3>1. Kept
        BY <1>0, <1>1, <2>1, GoToShape DEF Wait, Points, Offering, Taking
      <3> QED
        BY <1>1, <3>1 DEF Wait, TypeOK
    <2>2. CASE search' = [search EXCEPT ![r].pc = "giveUp",
                                        ![r].detached = TRUE]
      <3>1. search' \in [Rides -> Search]
        BY <1>0, <2>2 DEF Search, Points
      <3>2. LoopOK'
        BY <1>0, <2>2 DEF LoopOK, Search, Offering, Taking
      <3> QED
        BY <1>1, <3>1, <3>2 DEF Wait, TypeOK
    <2> QED
      BY <1>1, <2>1, <2>2 DEF Wait
  <1>2. CASE CheckStatus(r)
    <2>1. Kept
      BY <1>0, <1>2, GoToShape, DoneShape
         DEF CheckStatus, Points, Offering, Taking
    <2> QED
      BY <1>2, <2>1 DEF CheckStatus, TypeOK
  <1>3. CASE ListCandidates(r)
    <2>1. CASE NextAttempt(r)
      BY <1>3, <2>1, NextAttemptShape DEF ListCandidates
    <2>2. CASE GoTo(r, "giveUp")
      <3>1. Kept
        BY <2>2, GoToShape DEF Points, Offering, Taking
      <3> QED
        BY <1>3, <3>1 DEF ListCandidates, TypeOK
    <2>3. ASSUME NEW ds \in SUBSET {d \in Near[r] \ search[r].tried :
                                         driverRide[d] = None},
                 search' = [search EXCEPT ![r].pc = "pick", ![r].queue = ds]
          PROVE  Shape'
      <3>1. ds \in SUBSET Drivers
        BY <2>3, DispatchAssumption
      <3>2. search' \in [Rides -> Search]
        BY <1>0, <2>3, <3>1 DEF Search, Points
      <3>3. LoopOK'
        BY <1>0, <1>3, <2>3
           DEF ListCandidates, LoopOK, Search, Offering, Taking
      <3> QED
        BY <1>3, <3>2, <3>3 DEF ListCandidates, TypeOK
    <2> QED
      BY <1>3, <2>1, <2>2, <2>3 DEF ListCandidates
  <1>4. CASE QueueDone(r)
    BY <1>4, NextAttemptShape DEF QueueDone
  <1>5. ASSUME NEW d \in Drivers, SkipOffline(r, d) PROVE Shape'
    <2>1. search' \in [Rides -> Search]
      BY <1>0, <1>5 DEF SkipOffline, Search
    <2>2. LoopOK'
      BY <1>0, <1>5 DEF SkipOffline, LoopOK, Search
    <2> QED
      BY <1>5, <2>1, <2>2 DEF SkipOffline, TypeOK
  <1>6. ASSUME NEW d \in Drivers, LockDriver(r, d) PROVE Shape'
    <2>1. search' \in [Rides -> Search]
      BY <1>0, <1>6 DEF LockDriver, Search, Points
    <2>2. LoopOK'
      BY <1>0, <1>6 DEF LockDriver, LoopOK, Search, Offering, Taking
    <2>3. lock' \in [Drivers -> Rides \cup {None}]
      <3>1. lock' = [lock EXCEPT ![d] = r] \/ UNCHANGED lock
        BY <1>6 DEF LockDriver
      <3>2. lock \in [Drivers -> Rides \cup {None}]
        BY DEF TypeOK
      <3> QED
        BY <3>1, <3>2
    <2> QED
      BY <1>6, <2>1, <2>2, <2>3 DEF LockDriver, TypeOK
  <1>7. CASE SetPending(r)
    <2>1. Kept
      BY <1>0, <1>7, GoToShape DEF SetPending, Points, Offering, Taking
    <2>2. pending' \in [Rides -> Drivers \cup {None}]
      BY <1>0, <1>7 DEF SetPending, TypeOK, Offering
    <2> QED
      BY <1>7, <2>1, <2>2 DEF SetPending, TypeOK
  <1>8. CASE Listen(r)
    <2>1. Kept
      BY <1>0, <1>8, GoToShape DEF Listen, Points, Offering, Taking
    <2> QED
      BY <1>8, <2>1 DEF Listen, TypeOK
  <1>9. CASE Receive(r)
    <2>1. Kept
      <3>1. CASE GoTo(r, "accepted") \/ GoTo(r, "declined")
        BY <1>0, <1>9, <3>1, GoToShape DEF Receive, Points, Offering, Taking
      <3>2. CASE UNCHANGED search
        BY <1>0, <3>2 DEF LoopOK
      <3> QED
        BY <1>9, <3>1, <3>2 DEF Receive
    <2> QED
      BY <1>9, <2>1 DEF Receive, TypeOK
  <1>10. CASE OfferTimeout(r)
    <2>1. Kept
      BY <1>0, <1>10, GoToShape DEF OfferTimeout, Points, Offering, Taking
    <2> QED
      BY <1>10, <2>1 DEF OfferTimeout, TypeOK
  <1>11. CASE CloseOffer(r)
    <2>1. Kept
      BY <1>0, <1>11, GoToShape DEF CloseOffer, Points, Offering, Taking
    <2> QED
      <3>1. lock' \in [Drivers -> Rides \cup {None}]
        BY <1>11 DEF CloseOffer, TypeOK
      <3>2. unlocked' \in SUBSET Rides
        BY <1>11 DEF CloseOffer, Unlocks, TypeOK
      <3> QED
        BY <1>11, <2>1, <3>1, <3>2 DEF CloseOffer, TypeOK
  <1>12. CASE Assign(r)
    <2>1. Kept
      BY <1>0, <1>12, GoToShape DEF Assign, Points, Offering, Taking
    <2>2. ride' \in [Rides -> Row]
      <3>1. ride[r] \in Row /\ search[r].driver \in Drivers
        BY <1>0, <1>12 DEF Assign, TypeOK, Taking
      <3>2. [ride[r] EXCEPT !.driver = search[r].driver] \in Row
        BY <3>1 DEF Row
      <3> QED
        BY <1>12, <3>2 DEF Assign, TypeOK
    <2> QED
      BY <1>12, <2>1, <2>2 DEF Assign, TypeOK
  <1>13. CASE Match(r)
    <2>1. Kept
      BY <1>0, <1>13, GoToShape DEF Match, Points, Offering, Taking
    <2>2. ride' \in [Rides -> Row]
      BY <1>13, StatusShape DEF Match, Advance, TypeOK, Status
    <2> QED
      BY <1>13, <2>1, <2>2 DEF Match, TypeOK
  <1>14. CASE Negotiate(r)
    <2>1. Kept
      BY <1>0, <1>14, GoToShape DEF Negotiate, Points, Offering, Taking
    <2>2. ride' \in [Rides -> Row]
      BY <1>14, StatusShape DEF Negotiate, Advance, TypeOK, Status
    <2> QED
      BY <1>14, <2>1, <2>2 DEF Negotiate, TypeOK
  <1>15. CASE Occupy(r)
    <2>1. Kept
      BY <1>15, DoneShape DEF Occupy
    <2> QED
      BY <1>15, <2>1 DEF Occupy, TypeOK
  <1>16. CASE GiveUpCancel(r)
    <2>1. Kept
      BY <1>0, <1>16, GoToShape DEF GiveUpCancel, Points, Offering, Taking
    <2>2. ride' \in [Rides -> Row]
      BY <1>16, StatusShape DEF GiveUpCancel, TypeOK, Status
    <2> QED
      BY <1>16, <2>1, <2>2 DEF GiveUpCancel, TypeOK
  <1>17. CASE GiveUpRelease(r)
    <2>1. Kept
      BY <1>17, DoneShape DEF GiveUpRelease
    <2> QED
      BY <1>17, <2>1, DispatchAssumption DEF GiveUpRelease, TypeOK
  <1> QED
    BY <1>1, <1>2, <1>3, <1>4, <1>5, <1>6, <1>7, <1>8, <1>9, <1>10, <1>11,
       <1>12, <1>13, <1>14, <1>15, <1>16, <1>17 DEF RunLoop

\* Every step keeps the types and the rounds.
LEMMA ShapeNext == Shape /\ Booked /\ [Next]_vars => Shape'
  <1> SUFFICES ASSUME Shape, Booked, [Next]_vars PROVE Shape'
    OBVIOUS
  <1> USE DEF Shape
  <1>1. ASSUME NEW r \in Rides, CreateRide(r) PROVE Shape'
    <2>1. LoopOK' /\ search' \in [Rides -> Search]
      <3>1. search[r].attempt < MaxAttempts
        BY <1>1 DEF CreateRide, Booked, LoopOK
      <3> QED
        BY <1>1, <3>1, GoToShape DEF CreateRide, Points, Offering, Taking
    <2>2. ride' \in [Rides -> Row]
      BY <1>1, StatusShape DEF CreateRide, TypeOK, Status
    <2> QED
      BY <1>1, <2>1, <2>2, DispatchAssumption DEF CreateRide, TypeOK
  <1>2. ASSUME NEW r \in Rides, DeadlinePasses(r) PROVE Shape'
    BY <1>2 DEF DeadlinePasses, TypeOK, LoopOK
  <1>3. ASSUME NEW r \in Rides, CancelRead(r) PROVE Shape'
    BY <1>3 DEF CancelRead, TypeOK, LoopOK, Row
  <1>4. ASSUME NEW r \in Rides, CancelWrite(r) PROVE Shape'
    <2>1. "CANCELLED" \in Status
      BY DEF Status
    <2>2. ride' \in [Rides -> Row]
      <3>1. \/ UNCHANGED ride
            \/ ride' = [ride EXCEPT ![r].status = "CANCELLED"]
        BY <1>4 DEF CancelWrite
      <3>2. [ride EXCEPT ![r].status = "CANCELLED"] \in [Rides -> Row]
        BY <2>1, StatusShape
      <3> QED
        BY <3>1, <3>2 DEF TypeOK
    <2>3. cancel' \in [Rides -> [pc : {"idle", "write", "release"},
                               driver : Drivers \cup {None}]]
      <3> DEFINE Req == [pc : {"idle", "write", "release"},
                         driver : Drivers \cup {None}]
      <3>1. cancel \in [Rides -> Req] /\ cancel[r] \in Req
        BY DEF TypeOK
      <3>2. /\ [cancel[r] EXCEPT !.pc = "release"] \in Req
            /\ [pc |-> "idle", driver |-> None] \in Req
        BY <3>1
      <3> QED
        BY <1>4, <3>1, <3>2 DEF CancelWrite
    <2> QED
      BY <1>4, <2>2, <2>3 DEF CancelWrite, TypeOK, LoopOK
  <1>5. ASSUME NEW r \in Rides, CancelRelease(r) PROVE Shape'
    BY <1>5, DispatchAssumption DEF CancelRelease, TypeOK, LoopOK
  <1>6. ASSUME NEW r \in Rides, PendingExpires(r) PROVE Shape'
    BY <1>6 DEF PendingExpires, TypeOK, LoopOK
  <1>7. ASSUME NEW d \in Drivers, LockExpires(d) PROVE Shape'
    <2>1. lock' \in [Drivers -> Rides \cup {None}]
      BY <1>7 DEF LockExpires, TypeOK
    <2>2. unlocked' \in SUBSET Rides
      BY <1>7 DEF LockExpires, Unlocks, TypeOK
    <2> QED
      BY <1>7, <2>1, <2>2 DEF LockExpires, TypeOK, LoopOK
  <1>8. ASSUME NEW d \in Drivers, NEW r \in Rides, AcceptRead(d, r)
        PROVE  Shape'
    BY <1>8 DEF AcceptRead, TypeOK, LoopOK
  <1>9. ASSUME NEW d \in Drivers, NEW r \in Rides,
               AcceptSignal(d, r) \/ Decline(d, r)
        PROVE  Shape'
    <2>1. ASSUME NEW yes \in BOOLEAN, Send(r, d, yes)
          PROVE  channel' \in [Rides -> (SUBSET Signal) \cup {None}]
      <3>1. {[driver |-> d, accepted |-> yes]} \in SUBSET Signal
        BY DEF Signal
      <3> QED
        BY <2>1, <3>1 DEF Send, TypeOK
    <2>2. channel' \in [Rides -> (SUBSET Signal) \cup {None}]
      BY <1>9, <2>1 DEF AcceptSignal, Decline
    <2>3. reply' \in [Drivers ->
                        [Rides -> {"none", "accepting", "accepted", "declined"}]]
      <3>1. reply[d] \in [Rides ->
                            {"none", "accepting", "accepted", "declined"}]
        BY DEF TypeOK
      <3>2. PICK to \in {"accepted", "declined"} :
                reply' = [reply EXCEPT ![d][r] = to]
        BY <1>9 DEF AcceptSignal, Decline
      <3> QED
        BY <3>1, <3>2 DEF TypeOK
    <2> QED
      BY <1>9, <2>2, <2>3 DEF AcceptSignal, Decline, TypeOK, LoopOK
  <1>10. CASE UNCHANGED vars
    BY <1>10 DEF vars, TypeOK, LoopOK
  <1> QED
    BY <1>1, <1>2, <1>3, <1>4, <1>5, <1>6, <1>7, <1>8, <1>9, <1>10,
       ShapeRunLoop DEF Next, CancelRide

\* What a statement of a search leaves alone, and where it can move it and
\* its ride.
LEMMA RunLoopFrame ==
    ASSUME Shape, NEW r \in Rides, RunLoop(r)
    PROVE  /\ UNCHANGED <<expired, reply, cancel>>
           /\ \A s \in Rides \ {r} : /\ search'[s] = search[s]
                                     /\ ride'[s] = ride[s]
                                     /\ channel'[s] = channel[s]
                                     /\ pending'[s] = pending[s]
           /\ search[r].pc # "off" /\ search'[r].pc # "off"
           /\ \/ ride'[r].status = ride[r].status
              \/ ride'[r].status \in {"MATCHED", "NEGOTIATING", "CANCELLED"}
  <1> USE DEF Shape
  <1>0. search \in [Rides -> Search] /\ ride \in [Rides -> Row]
    BY DEF TypeOK
  <1>1. CASE \/ Wait(r) \/ CheckStatus(r) \/ ListCandidates(r) \/ QueueDone(r)
             \/ \E d \in Drivers : SkipOffline(r, d) \/ LockDriver(r, d)
    <2>1. UNCHANGED <<ride, channel, pending, expired, reply, cancel>>
      BY <1>1 DEF Wait, CheckStatus, ListCandidates, SkipOffline, QueueDone,
                  LockDriver
    <2>2. search[r].pc \in {"wait", "check", "list", "pick"}
      BY <1>1 DEF Wait, CheckStatus, ListCandidates, SkipOffline, QueueDone,
                  LockDriver
    <2>3. CASE Wait(r) \/ CheckStatus(r)
      BY <1>0, <2>1, <2>2, <2>3
         DEF Wait, CheckStatus, GoTo, Done, NoSearch, Search
    <2>4. CASE NextAttempt(r)
      BY <1>0, <2>1, <2>2, <2>4 DEF NextAttempt, Search
    <2>5. CASE ListCandidates(r) \/ QueueDone(r)
      BY <1>0, <2>1, <2>2, <2>4, <2>5
         DEF ListCandidates, QueueDone, GoTo, Search
    <2>6. ASSUME NEW d \in Drivers, SkipOffline(r, d) \/ LockDriver(r, d)
          PROVE  /\ search'[r].pc # "off"
                 /\ \A s \in Rides \ {r} : search'[s] = search[s]
      BY <1>0, <2>2, <2>6 DEF SkipOffline, LockDriver, Search
    <2> QED
      BY <1>1, <2>1, <2>2, <2>3, <2>5, <2>6
  <1>2. CASE \/ SetPending(r) \/ Listen(r) \/ Receive(r) \/ OfferTimeout(r)
             \/ CloseOffer(r)
    BY <1>0, <1>2
       DEF SetPending, Listen, Receive, OfferTimeout, CloseOffer, GoTo, TypeOK,
           Search
  <1>3. CASE \/ Assign(r) \/ Match(r) \/ Negotiate(r) \/ Occupy(r)
             \/ GiveUpCancel(r) \/ GiveUpRelease(r)
    BY <1>0, <1>3
       DEF Assign, Match, Negotiate, Occupy, Advance, GiveUpCancel,
           GiveUpRelease, GoTo, Done, NoSearch, TypeOK, Search, Row
  <1> QED
    BY <1>1, <1>2, <1>3 DEF RunLoop

\* Every step keeps rides and searches together.
LEMMA BookedNext == Shape /\ Booked /\ [Next]_vars => Booked'
  <1> SUFFICES ASSUME Shape, Booked, [Next]_vars PROVE Booked'
    OBVIOUS
  <1>0. /\ search \in [Rides -> Search] /\ ride \in [Rides -> Row]
        /\ None \notin Status
    BY DispatchAssumption DEF Shape, TypeOK
  <1>00. cancel \in [Rides -> [pc : {"idle", "write", "release"},
                               driver : Drivers \cup {None}]]
    BY DEF Shape, TypeOK
  <1>1. ASSUME NEW r \in Rides, CreateRide(r) PROVE Booked'
    BY <1>0, <1>1 DEF CreateRide, GoTo, Booked, Row, Search, Status
  <1>2. ASSUME NEW r \in Rides, RunLoop(r) PROVE Booked'
    BY <1>0, <1>2, RunLoopFrame DEF Booked, Status
  <1>3. ASSUME NEW r \in Rides, DeadlinePasses(r) PROVE Booked'
    BY <1>3 DEF DeadlinePasses, Booked
  <1>4. ASSUME NEW r \in Rides, CancelRead(r) PROVE Booked'
    <2>1. ride[r].status # None
      BY <1>0, <1>4 DEF CancelRead, CustomerCancellable, Terminal, Status
    <2> QED
      BY <1>00, <1>4, <2>1 DEF CancelRead, Booked
  <1>5. ASSUME NEW r \in Rides, CancelWrite(r) PROVE Booked'
    <2>1. ride[r].status # None
      BY <1>5 DEF CancelWrite, Booked
    <2>2. \A s \in Rides : ride'[s].status = None <=> ride[s].status = None
      BY <1>0, <1>5, <2>1 DEF CancelWrite, Row, Status
    <2>3. \A s \in Rides : cancel'[s].pc = "write" => cancel[s].pc = "write"
      BY <1>00, <1>5 DEF CancelWrite
    <2> QED
      BY <1>5, <2>2, <2>3 DEF CancelWrite, Booked
  <1>6. ASSUME NEW r \in Rides, CancelRelease(r) PROVE Booked'
    BY <1>00, <1>6 DEF CancelRelease, Booked
  <1>7. CASE UNCHANGED <<ride, search, cancel>>
    BY <1>7 DEF Booked
  <1> QED
    BY <1>1, <1>2, <1>3, <1>4, <1>5, <1>6, <1>7
       DEF Next, CancelRide, vars, PendingExpires, LockExpires, AcceptRead,
           AcceptSignal, Decline

\* The two together are inductive.
LEMMA ShapeInvariant == Spec => [](Shape /\ Booked)
  <1>1. Init => Booked
    BY DEF Init, Booked, NoSearch
  <1> QED
    BY <1>1, ShapeInit, ShapeNext, BookedNext, PTL DEF Spec

\* Every reachable state is type-correct.
THEOREM TypeCorrect == Spec => []TypeOK
  <1>1. Shape => TypeOK
    BY DEF Shape
  <1> QED
    BY <1>1, ShapeInvariant, PTL

-----------------------------------------------------------------------------
(* The drivers' locks.                                                     *)

\* Only taking a lock begins an offer, only closing it gives the lock back.
LEMMA OfferFrame ==
    ASSUME Shape, NEW r \in Rides, RunLoop(r),
           \A d \in Drivers : ~LockDriver(r, d), ~CloseOffer(r)
    PROVE  /\ UNCHANGED <<lock, unlocked>>
           /\ search'[r].pc \in Offering =>
                  /\ search[r].pc \in Offering
                  /\ search'[r].driver = search[r].driver
  <1>0. search \in [Rides -> Search]
    BY DEF Shape, TypeOK
  <1>1. CASE SetPending(r) \/ Listen(r) \/ Receive(r) \/ OfferTimeout(r)
    BY <1>0, <1>1 DEF SetPending, Listen, Receive, OfferTimeout, GoTo, Search,
                      Offering
  <1>2. CASE Wait(r) \/ CheckStatus(r)
    BY <1>0, <1>2 DEF Wait, CheckStatus, GoTo, Done, NoSearch, Search, Offering
  <1>3. CASE ListCandidates(r) \/ QueueDone(r)
    <2>1. CASE NextAttempt(r)
      BY <1>0, <1>3, <2>1 DEF ListCandidates, QueueDone, NextAttempt, Search,
                              Offering
    <2> QED
      BY <1>0, <1>3, <2>1 DEF ListCandidates, QueueDone, GoTo, Search, Offering
  <1>4. CASE \E d \in Drivers : SkipOffline(r, d)
    BY <1>0, <1>4 DEF SkipOffline, Search, Offering
  <1>5. CASE \/ Assign(r) \/ Match(r) \/ Negotiate(r) \/ Occupy(r)
             \/ GiveUpCancel(r) \/ GiveUpRelease(r)
    BY <1>0, <1>5 DEF Assign, Match, Negotiate, Occupy, GiveUpCancel,
           GiveUpRelease, GoTo, Done, NoSearch, Search, Offering
  <1> QED
    BY <1>1, <1>2, <1>3, <1>4, <1>5 DEF RunLoop

\* An open offer keeps its lock, or is among those that lost theirs: others
\* find it taken, and who deletes it says whose it was.
LEMMA LockHeldNext == Shape /\ LockHeld /\ [Next]_vars => LockHeld'
  <1> SUFFICES ASSUME Shape, LockHeld, [Next]_vars PROVE LockHeld'
    OBVIOUS
  <1>0. /\ search \in [Rides -> Search]
        /\ lock \in [Drivers -> Rides \cup {None}]
        /\ \A s \in Rides : search[s].pc \in Offering =>
               search[s].driver \in Drivers
    BY DEF Shape, TypeOK, LoopOK
  <1>1. ASSUME NEW r \in Rides, RunLoop(r) PROVE LockHeld'
    <2>1. \A s \in Rides \ {r} : search'[s] = search[s]
      BY <1>1, RunLoopFrame
    <2>2. ASSUME NEW d \in Drivers, LockDriver(r, d) PROVE LockHeld'
      <3>1. CASE /\ lock[d] = None /\ lock' = [lock EXCEPT ![d] = r]
                 /\ search'[r].driver = d
        <4>1. lock'[d] = r
          BY <1>0, <3>1
        <4>2. ASSUME NEW s \in Rides \ {r}, search[s].pc \in Offering,
                     s \notin unlocked
              PROVE  lock'[search[s].driver] = s
          <5>1. lock[search[s].driver] = s /\ s # None
            BY <4>2, DispatchAssumption DEF LockHeld
          <5> QED
            BY <1>0, <3>1, <4>2, <5>1
        <4> QED
          BY <2>1, <2>2, <3>1, <4>1, <4>2 DEF LockHeld, LockDriver
      <3>2. CASE UNCHANGED lock /\ search'[r].pc = search[r].pc
                 /\ search[r].pc = "pick"
        BY <2>1, <2>2, <3>2 DEF LockHeld, Offering, LockDriver
      <3> QED
        BY <1>0, <2>2, <3>1, <3>2 DEF LockDriver, Search
    <2>3. CASE CloseOffer(r)
      <3>1. search[r].pc \in Offering /\ search'[r].pc \notin Offering
        BY <1>0, <2>3 DEF CloseOffer, GoTo, Offering, Search
      <3>2. ASSUME NEW s \in Rides \ {r}, search[s].pc \in Offering,
                   s \notin unlocked'
            PROVE  lock'[search[s].driver] = s
        <4>1. \/ s \notin unlocked /\ s \notin Unlocks(search[r].driver)
              \/ UNCHANGED lock /\ s \notin unlocked
          BY <2>3, <3>2 DEF CloseOffer
        <4>2. lock[search[s].driver] = s
          BY <3>2, <4>1 DEF LockHeld
        <4>3. CASE UNCHANGED lock
          BY <4>2, <4>3
        <4>4. CASE s \notin Unlocks(search[r].driver)
          <5>1. search[s].driver # search[r].driver
            BY <3>2, <4>2, <4>4 DEF Unlocks
          <5> QED
            BY <1>0, <2>3, <3>2, <4>2, <5>1 DEF CloseOffer
        <4> QED
          BY <4>1, <4>3, <4>4
      <3> QED
        BY <2>1, <3>1, <3>2 DEF LockHeld
    <2>4. CASE (\A d \in Drivers : ~LockDriver(r, d)) /\ ~CloseOffer(r)
      BY <1>1, <2>1, <2>4, OfferFrame DEF LockHeld
    <2> QED
      BY <2>2, <2>3, <2>4
  <1>2. ASSUME NEW d \in Drivers, LockExpires(d) PROVE LockHeld'
    <2>1. ASSUME NEW s \in Rides, search[s].pc \in Offering, s \notin unlocked'
          PROVE  lock'[search[s].driver] = s
      <3>1. s \notin unlocked /\ s \notin Unlocks(d)
        BY <1>2, <2>1 DEF LockExpires
      <3>2. lock[search[s].driver] = s
        BY <2>1, <3>1 DEF LockHeld
      <3>3. search[s].driver # d
        BY <2>1, <3>1, <3>2 DEF Unlocks
      <3> QED
        BY <1>0, <1>2, <2>1, <3>2, <3>3 DEF LockExpires
    <2> QED
      BY <1>2, <2>1 DEF LockExpires, LockHeld
  <1>3. ASSUME NEW r \in Rides, CreateRide(r) PROVE LockHeld'
    BY <1>0, <1>3 DEF CreateRide, GoTo, Search, Offering, LockHeld
  <1>4. CASE UNCHANGED <<search, lock, unlocked>>
    BY <1>4 DEF LockHeld
  <1> QED
    BY <1>1, <1>2, <1>3, <1>4
       DEF Next, CancelRide, vars, DeadlinePasses, PendingExpires, AcceptRead,
           AcceptSignal, Decline, CancelRead, CancelWrite, CancelRelease

\* However many searches, and wherever their deadlines leave them, a driver is
\* looking at two open offers only when one of them has lost its lock.
THEOREM OneOfferEach == Spec => []OneOfferPerDriver
  <1>1. Init => LockHeld
    BY DEF Init, LockHeld, NoSearch, Offering
  <1>2. Spec => [](Shape /\ Booked)
    BY ShapeInvariant
  <1>3. Shape /\ LockHeld => OneOfferPerDriver
    BY DEF LockHeld, OneOfferPerDriver
  <1> QED
    BY <1>1, <1>2, <1>3, LockHeldNext, PTL DEF Spec

-----------------------------------------------------------------------------
(* How far a ride has come.                                                *)

\* The search moves its ride on from where its own last statement left it.
LEMMA CameToRunLoop ==
    ASSUME Shape, NEW r \in Rides, CameTo(r), RunLoop(r)
    PROVE  CameTo(r)'
  <1>0. /\ search \in [Rides -> Search] /\ ride \in [Rides -> Row]
        /\ expired' = expired
        /\ ~expired[r] => ContextOk(r)
    BY RunLoopFrame DEF Shape, TypeOK, ContextOk
  <1>1. CASE Wait(r)
    BY <1>0, <1>1 DEF Wait, GoTo, CameTo, Search, Searching, Offering
  <1>2. CASE CheckStatus(r)
    BY <1>0, <1>2 DEF CheckStatus, GoTo, Done, NoSearch, CameTo, Search,
                      Searching, Offering
  <1>3. CASE ListCandidates(r) \/ QueueDone(r)
    <2>1. CASE NextAttempt(r)
      BY <1>0, <1>3, <2>1 DEF ListCandidates, QueueDone, NextAttempt, CameTo,
                              Search, Searching, Offering
    <2> QED
      BY <1>0, <1>3, <2>1 DEF ListCandidates, QueueDone, GoTo, CameTo, Search,
                              Searching, Offering
  <1>4. CASE \E d \in Drivers : SkipOffline(r, d) \/ LockDriver(r, d)
    BY <1>0, <1>4 DEF SkipOffline, LockDriver, CameTo, Search, Searching,
                      Offering
  <1>5. CASE \/ SetPending(r) \/ Listen(r) \/ Receive(r) \/ OfferTimeout(r)
             \/ CloseOffer(r)
    BY <1>0, <1>5 DEF SetPending, Listen, Receive, OfferTimeout, CloseOffer,
           GoTo, CameTo, Search, Searching, Offering
  <1>6. CASE Assign(r)
    BY <1>0, <1>6 DEF Assign, GoTo, CameTo, Search, Row, Searching, Offering
  <1>7. CASE Match(r) \/ Negotiate(r)
    BY <1>0, <1>7 DEF Match, Negotiate, Advance, GoTo, CameTo, Search, Row,
                      Searching, Offering
  <1>8. CASE Occupy(r)
    BY <1>0, <1>8 DEF Occupy, Done, NoSearch, CameTo, Search, Searching,
                      Offering
  <1>9. CASE GiveUpCancel(r)
    BY <1>0, <1>9 DEF GiveUpCancel, NotOver, Terminal, GoTo, CameTo, Search,
                      Row, Searching, Offering
  <1>10. CASE GiveUpRelease(r)
    BY <1>0, <1>10 DEF GiveUpRelease, Done, NoSearch, CameTo, Search,
                       Searching, Offering
  <1> QED
    BY <1>1, <1>2, <1>3, <1>4, <1>5, <1>6, <1>7, <1>8, <1>9, <1>10 DEF RunLoop

\* ... and nobody else moves it anywhere but to CANCELLED.
LEMMA StatusNext == Shape /\ Booked /\ StatusOK /\ [Next]_vars => StatusOK'
  <1> SUFFICES ASSUME Shape, Booked, StatusOK, [Next]_vars PROVE StatusOK'
    OBVIOUS
  <1>0. search \in [Rides -> Search] /\ ride \in [Rides -> Row]
        /\ expired \in [Rides -> BOOLEAN]
    BY DEF Shape, TypeOK
  <1>1. ASSUME NEW r \in Rides, RunLoop(r) PROVE StatusOK'
    <2>1. CameTo(r)'
      BY <1>1, CameToRunLoop DEF StatusOK
    <2>2. ASSUME NEW s \in Rides \ {r} PROVE CameTo(s)'
      BY <1>1, RunLoopFrame DEF StatusOK, CameTo
    <2> QED
      BY <2>1, <2>2 DEF StatusOK
  <1>2. ASSUME NEW r \in Rides, CreateRide(r) PROVE StatusOK'
    BY <1>0, <1>2 DEF CreateRide, GoTo, StatusOK, CameTo, Search, Row,
                      Searching, Offering
  <1>3. ASSUME NEW r \in Rides, DeadlinePasses(r) PROVE StatusOK'
    BY <1>0, <1>3 DEF DeadlinePasses, StatusOK, CameTo
  <1>4. ASSUME NEW r \in Rides, CancelWrite(r) PROVE StatusOK'
    BY <1>0, <1>4 DEF CancelWrite, StatusOK, CameTo, Row
  <1>5. CASE UNCHANGED <<ride, search, expired>>
    BY <1>5 DEF StatusOK, CameTo
  <1> QED
    BY <1>1, <1>2, <1>3, <1>4, <1>5
       DEF Next, CancelRide, vars, LockExpires, PendingExpires, AcceptRead,
           AcceptSignal, Decline, CancelRead, CancelRelease

\* A search that ends before its deadline leaves the ride with a driver to
\* negotiate with, or over, whoever cancelled in between.
THEOREM SettledBeforeDeadline == Spec => []SettledInTime
  <1>1. Init => StatusOK
    BY DEF Init, StatusOK, CameTo, NoSearch, Searching, Offering
  <1>2. StatusOK => SettledInTime
    BY DEF StatusOK, CameTo, SettledInTime
  <1> QED
    BY <1>1, <1>2, ShapeInvariant, StatusNext, PTL DEF Spec

-----------------------------------------------------------------------------
(* Answers.                                                                *)

\* A yes is never taken back.
LEMMA YesStands ==
    ASSUME Shape, [Next]_vars, NEW d \in Drivers, NEW r \in Rides,
           reply[d][r] = "accepted"
    PROVE  reply'[d][r] = "accepted"
  <1>0. reply \in [Drivers ->
                    [Rides -> {"none", "accepting", "accepted", "declined"}]]
    BY DEF Shape, TypeOK
  <1>1. ASSUME NEW e \in Drivers, NEW s \in Rides,
               AcceptRead(e, s) \/ AcceptSignal(e, s) \/ Decline(e, s)
        PROVE  reply'[d][r] = "accepted"
    <2>1. PICK to \in {"accepting", "accepted", "declined"} :
              /\ reply' = [reply EXCEPT ![e][s] = to]
              /\ reply[e][s] \in {"none", "accepting"}
      BY <1>1 DEF AcceptRead, AcceptSignal, Decline
    <2>2. reply' = [reply EXCEPT ![e] = [reply[e] EXCEPT ![s] = to]]
      BY <2>1
    <2>3. CASE e = d /\ s # r
      BY <1>0, <2>2, <2>3
    <2>4. CASE e # d
      BY <1>0, <2>2, <2>4
    <2> QED
      BY <2>1, <2>3, <2>4
  <1>2. CASE UNCHANGED reply
    BY <1>2
  <1> QED
    BY <1>1, <1>2, RunLoopFrame
       DEF Next, CancelRide, vars, CreateRide, DeadlinePasses, LockExpires,
           PendingExpires, CancelRead, CancelWrite, CancelRelease

\* What the search itself does with what it heard.
LEMMA HeardRunLoop ==
    ASSUME Shape, NEW r \in Rides, Heard(r), RunLoop(r)
    PROVE  Heard(r)'
  <1>0. /\ search \in [Rides -> Search] /\ reply' = reply
        /\ channel \in [Rides -> (SUBSET Signal) \cup {None}]
    BY RunLoopFrame DEF Shape, TypeOK
  <1>1. CASE Wait(r) \/ CheckStatus(r)
    BY <1>0, <1>1 DEF Wait, CheckStatus, GoTo, Done, NoSearch, Heard, Search,
                      Taking
  <1>2. CASE ListCandidates(r) \/ QueueDone(r)
    <2>1. CASE NextAttempt(r)
      BY <1>0, <1>2, <2>1 DEF ListCandidates, QueueDone, NextAttempt, Heard,
                              Search, Taking
    <2> QED
      BY <1>0, <1>2, <2>1 DEF ListCandidates, QueueDone, GoTo, Heard, Search,
                              Taking
  <1>3. CASE \E d \in Drivers : SkipOffline(r, d) \/ LockDriver(r, d)
    BY <1>0, <1>3 DEF SkipOffline, LockDriver, Heard, Search, Taking
  <1>4. CASE SetPending(r) \/ OfferTimeout(r)
    BY <1>0, <1>4 DEF SetPending, OfferTimeout, GoTo, Heard, Search, Taking
  <1>5. CASE Listen(r)
    BY <1>0, <1>5 DEF Listen, GoTo, Heard, Search, Taking
  <1>6. CASE Receive(r)
    <2>1. PICK signal \in channel[r] :
              IF signal.driver = search[r].driver
              THEN GoTo(r, IF signal.accepted THEN "accepted" ELSE "declined")
              ELSE UNCHANGED search
      BY <1>6 DEF Receive
    <2>2. signal.accepted => reply[signal.driver][r] = "accepted"
      BY <1>6, <2>1 DEF Receive, Heard
    <2>3. channel'[r] = {}
      BY <1>0, <1>6 DEF Receive
    <2> QED
      BY <1>0, <1>6, <2>1, <2>2, <2>3 DEF Receive, GoTo, Heard, Search, Taking
  <1>7. CASE CloseOffer(r)
    BY <1>0, <1>7 DEF CloseOffer, GoTo, Heard, Search, Taking
  <1>8. CASE Assign(r) \/ Match(r) \/ Negotiate(r)
    BY <1>0, <1>8 DEF Assign, Match, Negotiate, GoTo, Heard, Search, Taking
  <1>9. CASE Occupy(r) \/ GiveUpCancel(r) \/ GiveUpRelease(r)
    BY <1>0, <1>9 DEF Occupy, GiveUpCancel, GiveUpRelease, GoTo, Done,
                      NoSearch, Heard, Search, Taking
  <1> QED
    BY <1>1, <1>2, <1>3, <1>4, <1>5, <1>6, <1>7, <1>8, <1>9 DEF RunLoop

\* A signal sent is the sender's own answer.
LEMMA AnswersNext == Shape /\ AnswersOK /\ [Next]_vars => AnswersOK'
  <1> SUFFICES ASSUME Shape, AnswersOK, [Next]_vars PROVE AnswersOK'
    OBVIOUS
  <1>0. /\ search \in [Rides -> Search]
        /\ channel \in [Rides -> (SUBSET Signal) \cup {None}]
        /\ \A r \in Rides : search[r].pc \in Offering \cup Taking =>
               search[r].driver \in Drivers
    BY DEF Shape, TypeOK, LoopOK
  <1>1. ASSUME NEW s \in Rides, search'[s] = search[s],
               channel'[s] = channel[s]
        PROVE  Heard(s)'
    <2>1. ASSUME NEW d \in Drivers, reply[d][s] = "accepted"
          PROVE  reply'[d][s] = "accepted"
      BY <2>1, YesStands
    <2>2. ASSUME NEW signal \in Signal PROVE signal.driver \in Drivers
      BY DEF Signal
    <2> QED
      BY <1>0, <1>1, <2>1, <2>2 DEF AnswersOK, Heard, Offering
  <1>2. ASSUME NEW r \in Rides, RunLoop(r) PROVE AnswersOK'
    <2>1. Heard(r)'
      BY <1>2, HeardRunLoop DEF AnswersOK
    <2>2. ASSUME NEW s \in Rides \ {r} PROVE Heard(s)'
      BY <1>1, <1>2, RunLoopFrame
    <2> QED
      BY <2>1, <2>2 DEF AnswersOK
  <1>3. ASSUME NEW r \in Rides, CreateRide(r) PROVE AnswersOK'
    <2>1. Heard(r)'
      BY <1>0, <1>3 DEF CreateRide, GoTo, Search, Heard, Taking
    <2>2. ASSUME NEW s \in Rides \ {r} PROVE Heard(s)'
      BY <1>0, <1>1, <1>3 DEF CreateRide, GoTo
    <2> QED
      BY <2>1, <2>2 DEF AnswersOK
  <1>4. ASSUME NEW d \in Drivers, NEW r \in Rides, NEW yes \in BOOLEAN,
               Send(r, d, yes), search' = search,
               yes => reply'[d][r] = "accepted"
        PROVE  AnswersOK'
    <2> DEFINE signal == [driver |-> d, accepted |-> yes]
    <2>1. signal \in Signal /\ signal.driver = d /\ signal.accepted = yes
      BY DEF Signal
    <2>2. ASSUME NEW s \in Rides, s # r \/ channel[s] # {} PROVE Heard(s)'
      BY <1>0, <1>1, <1>4, <2>2 DEF Send
    <2>3. CASE channel[r] = {}
      <3>1. channel'[r] = {signal}
        BY <1>0, <1>4, <2>3 DEF Send
      <3>2. search[r].pc \in {"accepted"} \cup Taking =>
                reply'[search[r].driver][r] = "accepted"
        <4>1. ASSUME search[r].pc \in {"accepted"} \cup Taking
              PROVE  reply'[search[r].driver][r] = "accepted"
          <5>1. reply[search[r].driver][r] = "accepted"
            BY <4>1 DEF AnswersOK, Heard
          <5> QED
            BY <1>0, <4>1, <5>1, YesStands DEF Offering
        <4> QED
          BY <4>1
      <3> HIDE DEF signal
      <3>3. Heard(r)'
        BY <1>4, <2>1, <3>1, <3>2 DEF Heard
      <3> QED
        BY <2>2, <3>3 DEF AnswersOK
    <2> QED
      BY <2>2, <2>3 DEF AnswersOK
  <1>5. ASSUME NEW d \in Drivers, NEW r \in Rides,
               AcceptSignal(d, r) \/ Decline(d, r)
        PROVE  AnswersOK'
    <2>1. CASE AcceptSignal(d, r)
      <3>1. reply'[d][r] = "accepted"
        BY <2>1 DEF AcceptSignal, Shape, TypeOK
      <3> QED
        BY <1>4, <2>1, <3>1 DEF AcceptSignal
    <2>2. CASE Decline(d, r)
      BY <1>4, <2>2 DEF Decline
    <2> QED
      BY <1>5, <2>1, <2>2
  <1>6. CASE UNCHANGED <<search, channel>>
    BY <1>1, <1>6 DEF AnswersOK
  <1> QED
    BY <1>2, <1>3, <1>5, <1>6
       DEF Next, CancelRide, vars, DeadlinePasses, LockExpires, PendingExpires,
           AcceptRead, CancelRead, CancelWrite, CancelRelease

\* The one statement that writes the driver of a ride.
LEMMA DriverFrame ==
    ASSUME Shape, [Next]_vars, NEW r \in Rides
    PROVE  \/ ride'[r].driver = ride[r].driver
           \/ search[r].pc = "assign" /\ ride'[r].driver = search[r].driver
  <1>0. ride \in [Rides -> Row]
    BY DEF Shape, TypeOK
  <1>1. ASSUME NEW s \in Rides, RunLoop(s), r # s
        PROVE  ride'[r].driver = ride[r].driver
    BY <1>1, RunLoopFrame
  <1>2. CASE RunLoop(r)
    <2>1. CASE Assign(r)
      BY <1>0, <2>1 DEF Assign, Row
    <2>2. CASE Match(r) \/ Negotiate(r) \/ GiveUpCancel(r)
      BY <1>0, <2>2 DEF Match, Negotiate, Advance, GiveUpCancel, Row
    <2>3. CASE UNCHANGED ride
      BY <2>3
    <2> QED
      BY <1>2, <2>1, <2>2, <2>3
         DEF RunLoop, Wait, CheckStatus, ListCandidates, SkipOffline,
             QueueDone, LockDriver, SetPending, Listen, Receive, OfferTimeout,
             CloseOffer, Occupy, GiveUpRelease
  <1>3. ASSUME NEW s \in Rides, CreateRide(s) \/ CancelWrite(s)
        PROVE  ride'[r].driver = ride[r].driver
    BY <1>0, <1>3 DEF CreateRide, CancelWrite, Row
  <1>4. CASE UNCHANGED ride
    BY <1>4
  <1> QED
    BY <1>1, <1>2, <1>3, <1>4
       DEF Next, CancelRide, vars, DeadlinePasses, LockExpires, PendingExpires,
           AcceptRead, AcceptSignal, Decline, CancelRead, CancelRelease

\* Late answers, answers twice over and answers to an offer that has moved on:
\* whoever is assigned a ride has accepted that ride.
THEOREM AssignedAccepted == Spec => []AssignedDriverAccepted
  <1>1. Init => AnswersOK /\ AssignedDriverAccepted
    BY DEF Init, AnswersOK, Heard, AssignedDriverAccepted, NoSearch, Taking
  <1>2. Shape /\ AnswersOK /\ AssignedDriverAccepted /\ [Next]_vars
            => AssignedDriverAccepted'
    <2> SUFFICES ASSUME Shape, AnswersOK, AssignedDriverAccepted, [Next]_vars,
                        NEW r \in Rides, ride'[r].driver # None
                 PROVE  reply'[ride'[r].driver][r] = "accepted"
      BY DEF AssignedDriverAccepted
    <2>1. CASE ride'[r].driver = ride[r].driver
      <3>1. ride[r].driver \in Drivers
        BY <2>1 DEF Shape, TypeOK, Row
      <3> QED
        BY <2>1, <3>1, YesStands DEF AssignedDriverAccepted
    <2>2. CASE search[r].pc = "assign" /\ ride'[r].driver = search[r].driver
      <3>1. /\ search[r].driver \in Drivers
            /\ reply[search[r].driver][r] = "accepted"
        BY <2>2 DEF Shape, LoopOK, AnswersOK, Heard, Taking
      <3> QED
        BY <2>2, <3>1, YesStands
    <2> QED
      BY <2>1, <2>2, DriverFrame
  <1> QED
    BY <1>1, <1>2, ShapeInvariant, AnswersNext, PTL DEF Spec

-----------------------------------------------------------------------------
(* The customer's pointer.                                                 *)

\* Whoever cancels a ride has its pointer still to delete.
LEMMA FreesNext ==
    Shape /\ Booked /\ CancelledRideFreesCustomer /\ [Next]_vars
        => CancelledRideFreesCustomer'
  <1> SUFFICES ASSUME Shape, Booked, CancelledRideFreesCustomer, [Next]_vars
               PROVE  CancelledRideFreesCustomer'
    OBVIOUS
  <1> USE DEF CancelledRideFreesCustomer
  <1>0. /\ search \in [Rides -> Search] /\ ride \in [Rides -> Row]
        /\ expired \in [Rides -> BOOLEAN]
        /\ customerRide \in [Customers -> Rides \cup {None}]
        /\ cancel \in [Rides -> [pc : {"idle", "write", "release"},
                                 driver : Drivers \cup {None}]]
        /\ CustomerOf \in [Rides -> Customers] /\ None \notin Rides
    BY DispatchAssumption DEF Shape, TypeOK
  <1>1. ASSUME NEW r \in Rides, RunLoop(r)
        PROVE  CancelledRideFreesCustomer'
    <2>1. /\ UNCHANGED <<expired, cancel>>
          /\ \A s \in Rides \ {r} : /\ search'[s] = search[s]
                                    /\ ride'[s] = ride[s]
      BY <1>1, RunLoopFrame
    <2>2. CASE GiveUpCancel(r)
      BY <1>0, <2>1, <2>2 DEF GiveUpCancel, GoTo, Search
    <2>3. CASE GiveUpRelease(r)
      <3>1. ~expired[r] =>
                customerRide' = [customerRide EXCEPT ![CustomerOf[r]] = None]
        BY <2>3 DEF GiveUpRelease, ContextOk
      <3>2. /\ ride' = ride
            /\ \A c \in Customers : customerRide'[c] \in {customerRide[c], None}
        BY <1>0, <2>3 DEF GiveUpRelease
      <3> QED
        BY <1>0, <2>1, <3>1, <3>2
    <2>4. CASE /\ UNCHANGED customerRide
               /\ search[r].pc # "release"
               /\ ride'[r].status # ride[r].status => ride'[r].status # "CANCELLED"
      BY <1>0, <2>1, <2>4
    <2>5. \/ GiveUpCancel(r) \/ GiveUpRelease(r)
          \/ /\ UNCHANGED customerRide
             /\ search[r].pc # "release"
             /\ ride'[r].status # ride[r].status =>
                    ride'[r].status # "CANCELLED"
      <3>1. CASE Assign(r) \/ Match(r) \/ Negotiate(r)
        BY <1>0, <3>1 DEF Assign, Match, Negotiate, Advance, Row
      <3> QED
        BY <1>1, <3>1
           DEF RunLoop, Wait, CheckStatus, ListCandidates, SkipOffline,
               QueueDone, LockDriver, SetPending, Listen, Receive,
               OfferTimeout, CloseOffer, Occupy
    <2> QED
      BY <2>2, <2>3, <2>4, <2>5
  <1>2. ASSUME NEW r \in Rides, CreateRide(r)
        PROVE  CancelledRideFreesCustomer'
    <2>1. ride'[r].status = "SEARCHING" /\ search[r].pc = "off"
      BY <1>0, <1>2 DEF CreateRide, Row, Booked
    <2> QED
      BY <1>0, <1>2, <2>1 DEF CreateRide, GoTo
  <1>3. ASSUME NEW r \in Rides, DeadlinePasses(r)
        PROVE  CancelledRideFreesCustomer'
    BY <1>0, <1>3 DEF DeadlinePasses
  <1>4. ASSUME NEW r \in Rides, CancelRead(r) PROVE CancelledRideFreesCustomer'
    <2>1. cancel[r].pc = "idle" /\ \A s \in Rides \ {r} : cancel'[s] = cancel[s]
      BY <1>0, <1>4 DEF CancelRead
    <2> QED
      BY <1>4, <2>1 DEF CancelRead
  <1>5. ASSUME NEW r \in Rides, CancelWrite(r)
        PROVE  CancelledRideFreesCustomer'
    <2>1. /\ cancel[r].pc = "write"
          /\ \A s \in Rides \ {r} : cancel'[s] = cancel[s] /\ ride'[s] = ride[s]
          /\ cancel'[r].pc = "release" \/ UNCHANGED ride
      BY <1>0, <1>5 DEF CancelWrite
    <2> QED
      BY <1>5, <2>1 DEF CancelWrite
  <1>6. ASSUME NEW r \in Rides, CancelRelease(r)
        PROVE  CancelledRideFreesCustomer'
    <2>1. /\ \A s \in Rides \ {r} : cancel'[s] = cancel[s]
          /\ customerRide'[CustomerOf[r]] = None
          /\ \A c \in Customers : customerRide'[c] \in {customerRide[c], None}
      BY <1>0, <1>6 DEF CancelRelease
    <2> QED
      BY <1>0, <1>6, <2>1 DEF CancelRelease
  <1>7. CASE UNCHANGED <<ride, search, expired, customerRide, cancel>>
    BY <1>7
  <1> QED
    BY <1>1, <1>2, <1>3, <1>4, <1>5, <1>6, <1>7
       DEF Next, CancelRide, vars, LockExpires, PendingExpires, AcceptRead,
           AcceptSignal, Decline

\* A ride cancelled by its search, in time, or by its customer does not keep
\* the customer from booking again.
THEOREM CancelledFreesCustomer == Spec => []CancelledRideFreesCustomer
  <1>1. Init => CancelledRideFreesCustomer
    BY DispatchAssumption DEF Init, CancelledRideFreesCustomer, Status
  <1> QED
    BY <1>1, ShapeInvariant, FreesNext, PTL DEF Spec

=============================================================================
