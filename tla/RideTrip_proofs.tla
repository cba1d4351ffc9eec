--------------------------- MODULE RideTrip_proofs ---------------------------
(***************************************************************************)
(* Proofs about RideTrip, for any rides, parties, requests, fares and any  *)
(* number of faults.  One inductive invariant (IInv: the types, what each  *)
(* row satisfies, what each request in flight may rely on) gives most of   *)
(* them; each step also shows that every row only advances (Kept).  What   *)
(* is done once has an invariant of its own (OnceInv), at the end.         *)
(***************************************************************************)
EXTENDS RideTrip, FiniteSetTheorems, TLAPS

\* What a row and its charge satisfy between any two statements.
RowOK(r) ==
    /\ ride[r].status \notin {"SEARCHING", "MATCHED"}
    /\ ride[r].status \in Agreed => ride[r].fare # None
    /\ charge[r].refunded =>
           /\ ride[r].status = "CANCELLED"
           /\ ride[r].by \in {"CUSTOMER", "NO_SHOW"}
    /\ charge[r].deducted =>
           ride[r].fare # None /\ ride[r].status \notin {None, "NEGOTIATING"}
    /\ ride[r].final # None =>
           ride[r].status = "COMPLETED" /\ ride[r].final >= ride[r].fare
    /\ finalizer[r] = "settle" => ride[r].status = "COMPLETED"

\* What a request may rely on at the statement it has reached.
CallOK(p) ==
    LET c == call[p]
        row == ride[call[p].ride] IN
    /\ c.op = "agree" => c.arg \in Fares
    /\ c.op = "complete" => c.arg \in Nat
    /\ c.op = "agree" /\ c.pc \in {"write", "guard", "deduct"} =>
           row.fare # None
    /\ c.op = "agree" /\ c.pc \in {"guard", "deduct"} =>
           row.status \notin {None, "NEGOTIATING"}
    /\ c.op = "complete" /\ c.pc = "settle" => row.status = "COMPLETED"
    /\ c.pc = "refund" =>
           row.status = "CANCELLED" /\ row.by \in {"CUSTOMER", "NO_SHOW"}

IInv ==
    /\ TypeOK
    /\ \A r \in Rides : RowOK(r)
    /\ \A p \in Requests : CallOK(p)

\* What no step does to a row.
RowAdvances(r) ==
    /\ ride[r].fare # None => ride'[r].fare = ride[r].fare
    /\ \/ ride'[r].status = ride[r].status
       \/ Rank(ride'[r].status) > Rank(ride[r].status)
    /\ ride[r].status = "CANCELLED" => ride'[r].by = ride[r].by

-----------------------------------------------------------------------------
(* Facts used by several actions.                                          *)

\* The constants' assumptions, as the provers need them.
LEMMA NoneFacts ==
    /\ None \notin Status /\ None \notin Nat /\ None \notin Rides
    /\ Fares \subseteq Nat
  BY RidesAssumption

\* A row that advances keeps what requests rely on.
LEMMA AdvanceKeeps ==
    ASSUME TypeOK, TypeOK', NEW r \in Rides, RowAdvances(r),
           ride[r].status \notin {"SEARCHING", "MATCHED"}
    PROVE  /\ ride[r].fare # None => ride'[r].fare # None
           /\ ride[r].status \in Terminal =>
                  ride'[r].status = ride[r].status
           /\ ride[r].status \notin {None, "NEGOTIATING"} =>
                  ride'[r].status \notin {None, "NEGOTIATING"}
  <1>1. /\ ride[r].status \in Status \cup {None}
        /\ ride'[r].status \in Status \cup {None}
    BY DEF TypeOK, Row
  <1>2. ASSUME NEW s \in Status \cup {None}
        PROVE  /\ Rank(s) \in 0..6
               /\ s \in Terminal => Rank(s) = 6
               /\ s \notin {None, "NEGOTIATING"} => Rank(s) > 1
               /\ s \in {None, "NEGOTIATING"} => Rank(s) <= 1
    BY NoneFacts DEF Rank, Status, Terminal
  <1> QED
    BY <1>1, <1>2 DEF RowAdvances, Terminal

\* A request that is not the one acting still relies on what it did.
LEMMA FrameCall ==
    ASSUME IInv, TypeOK', NEW q \in Requests,
           \A r \in Rides : RowAdvances(r), call'[q] = call[q]
    PROVE  CallOK(q)'
  <1>1. CASE call[q] = Idle
    BY <1>1 DEF CallOK, Idle
  <1>2. CASE call[q] # Idle
    <2>1. call[q].ride \in Rides
      BY <1>2 DEF IInv, TypeOK, Busy
    <2>2. CallOK(q) /\ RowAdvances(call[q].ride) /\ RowOK(call[q].ride)
      BY <2>1 DEF IInv
    <2> QED
      BY <2>1, <2>2, AdvanceKeeps DEF IInv, RowOK, CallOK, RowAdvances, Terminal
  <1> QED
    BY <1>1, <1>2

\* A request moves to its next statement ...
LEMMA Goes ==
    ASSUME TypeOK, NEW p \in Requests, call[p] # Idle,
           NEW pc \in Points, GoTo(p, pc)
    PROVE  /\ call' \in [Requests -> Busy \cup {Idle}]
           /\ call[p] \in Busy /\ call'[p] \in Busy
           /\ call'[p].op = call[p].op /\ call'[p].pc = pc
           /\ call'[p].ride = call[p].ride /\ call'[p].arg = call[p].arg
           /\ \A q \in Requests \ {p} : call'[q] = call[q]
  <1>1. call[p] \in Busy
    BY DEF TypeOK
  <1>2. call' = [call EXCEPT ![p] = [call[p] EXCEPT !.pc = pc]]
    BY DEF GoTo
  <1>3. [call[p] EXCEPT !.pc = pc] \in Busy
    BY <1>1 DEF Busy
  <1> QED
    BY <1>1, <1>2, <1>3 DEF TypeOK, Busy

\* ... or is over.
LEMMA Returns ==
    ASSUME TypeOK, NEW p \in Requests, Return(p)
    PROVE  /\ call' \in [Requests -> Busy \cup {Idle}]
           /\ call'[p] = Idle /\ CallOK(p)'
           /\ \A q \in Requests \ {p} : call'[q] = call[q]
  BY DEF TypeOK, Return, CallOK, Idle

\* One row's status changes ...
LEMMA StatusSet ==
    ASSUME TypeOK, NEW r \in Rides, NEW to \in Status,
           ride' = [ride EXCEPT ![r].status = to]
    PROVE  /\ ride' \in [Rides -> Row]
           /\ ride'[r].status = to
           /\ ride'[r].fare = ride[r].fare /\ ride'[r].by = ride[r].by
           /\ ride'[r].final = ride[r].final
           /\ \A s \in Rides \ {r} : ride'[s] = ride[s]
  <1>1. ride[r] \in Row /\ ride' = [ride EXCEPT ![r] =
                                       [ride[r] EXCEPT !.status = to]]
    BY DEF TypeOK
  <1>2. [ride[r] EXCEPT !.status = to] \in Row
    BY <1>1 DEF Row
  <1> QED
    BY <1>1, <1>2 DEF TypeOK, Row

\* ... or it is cancelled by somebody.
LEMMA CancelSet ==
    ASSUME TypeOK, NEW r \in Rides, NEW by \in CancelledBy,
           NEW fee \in BOOLEAN, MarkCancelled(r, by, fee)
    PROVE  /\ ride' \in [Rides -> Row]
           /\ ride'[r].status = "CANCELLED" /\ ride'[r].by = by
           /\ ride'[r].fare = ride[r].fare /\ ride'[r].final = ride[r].final
           /\ \A s \in Rides \ {r} : ride'[s] = ride[s]
  <1> DEFINE row == [ride[r] EXCEPT !.status = "CANCELLED", !.by = by,
                                    !.fee = fee]
  <1>1. ride[r] \in Row
    BY DEF TypeOK
  <1>2. ride' = [ride EXCEPT ![r] = row]
    BY <1>1 DEF MarkCancelled, TypeOK, Row
  <1>3. /\ row \in Row /\ row.status = "CANCELLED" /\ row.by = by
        /\ row.fare = ride[r].fare /\ row.final = ride[r].final
    BY <1>1 DEF Row, Status
  <1> HIDE DEF row
  <1> QED
    BY <1>2, <1>3 DEF TypeOK

\* IInv survives a step that touches one row, which stays sound, and moves
\* requests to statements they may be at.
LEMMA Combine ==
    ASSUME IInv, TypeOK', NEW r \in Rides,
           \A s \in Rides \ {r} : /\ ride'[s] = ride[s]
                                  /\ charge'[s] = charge[s]
                                  /\ finalizer'[s] = finalizer[s],
           RowAdvances(r), RowOK(r)',
           \A q \in Requests : call'[q] = call[q] \/ CallOK(q)'
    PROVE  IInv' /\ \A s \in Rides : RowAdvances(s)
  <1>1. \A s \in Rides : RowAdvances(s)
    BY DEF RowAdvances
  <1>2. \A s \in Rides : RowOK(s)'
    BY DEF IInv, RowOK
  <1>3. \A q \in Requests : CallOK(q)'
    BY <1>1, FrameCall
  <1> QED
    BY <1>1, <1>2, <1>3 DEF IInv

\* IInv survives a step that touches neither a row nor a charge, and starts no
\* settlement.
LEMMA QuietStep ==
    ASSUME IInv, TypeOK', UNCHANGED <<ride, charge>>,
           \A r \in Rides : finalizer'[r] = "settle" =>
                                finalizer[r] = "settle",
           \A q \in Requests : call'[q] = call[q] \/ CallOK(q)'
    PROVE  IInv' /\ \A s \in Rides : RowAdvances(s)
  <1>1. \A s \in Rides : RowAdvances(s)
    BY DEF RowAdvances
  <1>2. \A s \in Rides : RowOK(s)'
    BY DEF IInv, RowOK
  <1>3. \A q \in Requests : CallOK(q)'
    BY <1>1, FrameCall
  <1> QED
    BY <1>1, <1>2, <1>3 DEF IInv

-----------------------------------------------------------------------------
(* The handlers.                                                           *)

Kept == IInv' /\ \A s \in Rides : RowAdvances(s)

\* Every handler starts by reading the row.
LEMMA ArrivalKeeps ==
    ASSUME IInv, NEW p \in Requests, NEW r \in Rides, Arrival(p, r)
    PROVE  Kept
  <1> USE DEF At, Idling
  <1>1. ASSUME NEW op \in Ops,
               NEW pc \in {"lock", "write", "clear", "advance"},
               NEW arg \in Nat \cup {None},
               op = "agree" => arg \in Fares /\ pc = "lock",
               op = "complete" => arg \in Nat /\ pc = "write",
               ride[r].status \in Status,
               Admit(p, op, pc, r, arg),
               UNCHANGED <<ride, cache, money, tally, timers, faults>>
        PROVE  Kept
    <2> DEFINE c == [op |-> op, pc |-> pc, ride |-> r,
                     snap |-> ride[r].status, arg |-> arg]
    <2>1. call' = [call EXCEPT ![p] = c]
      BY <1>1 DEF Admit
    <2>2. c \in Busy
      BY <1>1 DEF Busy, Points
    <2>3. /\ c.op = op /\ c.pc = pc /\ c.arg = arg
      OBVIOUS
    <2> HIDE DEF c
    <2>4. TypeOK'
      BY <1>1, <2>1, <2>2 DEF IInv, TypeOK, cache, money, tally, timers, faults
    <2>5. call'[p] = c /\ \A q \in Requests \ {p} : call'[q] = call[q]
      BY <2>1 DEF IInv, TypeOK
    <2>6. CallOK(p)'
      BY <1>1, <2>3, <2>5 DEF CallOK
    <2> QED
      BY <1>1, <2>4, <2>5, <2>6, QuietStep DEF Kept, money, timers
  <1>2. None \notin Status /\ Fares \subseteq Nat /\ Waits \subseteq Nat
    BY RidesAssumption
  <1>3. \A s : \/ CanTransition(ride[r].status, s)
               \/ ride[r].status \in DriverCancellable \cup CustomerCancellable
               \/ ride[r].status \in Terminal
               => ride[r].status \in Status
    BY DEF CanTransition, AllowedTransitions, Status, DriverCancellable,
           CustomerCancellable, Terminal
  <1>4. ASSUME NEW f \in Fares, AgreeRead(p, r, f) PROVE Kept
    <2>1. /\ "agree" \in Ops /\ "agree" # "complete"
          /\ f \in Nat \cup {None} /\ ride[r].status \in Status
      BY <1>2, <1>4 DEF AgreeRead, Ops, Status
    <2> QED
      BY <1>1, <1>4, <2>1 DEF AgreeRead
  <1>5. CASE CancelRead(p, r)
    <2>1. "cancel" \in Ops /\ "cancel" # "complete" /\ "cancel" # "agree"
      BY DEF Ops
    <2>2. ride[r].status \in Status
      BY <1>3, <1>5 DEF CancelRead
    <2> QED
      BY <1>1, <1>5, <2>1, <2>2 DEF CancelRead
  <1>6. CASE DriverCancelRead(p, r)
    <2>1. /\ "driverCancel" \in Ops /\ "driverCancel" # "complete"
          /\ "driverCancel" # "agree"
      BY DEF Ops
    <2>2. ride[r].status \in Status
      BY <1>3, <1>6 DEF DriverCancelRead
    <2> QED
      BY <1>1, <1>6, <2>1, <2>2 DEF DriverCancelRead
  <1>7. ASSUME NEW verified \in BOOLEAN, NoShowRead(p, r, verified) PROVE Kept
    <2>1. /\ "noShow" \in Ops /\ "noShow" # "complete" /\ "noShow" # "agree"
          /\ (IF verified THEN 1 ELSE 0) \in Nat \cup {None}
          /\ ride[r].status \in Status
      BY <1>7 DEF Ops, NoShowRead, Status
    <2> QED
      BY <1>1, <1>7, <2>1 DEF NoShowRead
  <1>8. CASE EnRouteRead(p, r)
    <2>1. "enRoute" \in Ops /\ "enRoute" # "complete" /\ "enRoute" # "agree"
      BY DEF Ops
    <2>2. ride[r].status \in Status
      BY <1>3, <1>8 DEF EnRouteRead
    <2> QED
      BY <1>1, <1>8, <2>1, <2>2 DEF EnRouteRead
  <1>9. CASE ArriveRead(p, r)
    <2>1. /\ "arrive" \in Ops /\ "arrive" # "complete" /\ "arrive" # "agree"
          /\ ride[r].status \in Status
          /\ (IF ride[r].status = "CONFIRMED" THEN "advance" ELSE "write")
                 \in {"lock", "write", "clear", "advance"}
      BY <1>9 DEF Ops, ArriveRead, Status
    <2> QED
      BY <1>1, <1>9, <2>1 DEF ArriveRead
  <1>10. CASE StartRead(p, r)
    <2>1. "start" \in Ops /\ "start" # "complete" /\ "start" # "agree"
      BY DEF Ops
    <2>2. ride[r].status \in Status
      BY <1>3, <1>10 DEF StartRead
    <2> QED
      BY <1>1, <1>10, <2>1, <2>2 DEF StartRead
  <1>11. ASSUME NEW wait \in Waits, CompleteRead(p, r, wait) PROVE Kept
    <2>1. /\ "complete" \in Ops /\ "complete" # "agree"
          /\ wait \in Nat /\ wait \in Nat \cup {None}
      BY <1>2 DEF Ops
    <2>2. ride[r].status \in Status
      BY <1>3, <1>11 DEF CompleteRead
    <2> QED
      BY <1>1, <1>11, <2>1, <2>2 DEF CompleteRead
  <1> QED
    BY <1>4, <1>5, <1>6, <1>7, <1>8, <1>9, <1>10, <1>11 DEF Arrival

\* A lost race: nothing but the request changes.
LEMMA GiveUpKeeps ==
    ASSUME IInv, NEW p \in Requests, Return(p),
           UNCHANGED <<ride, cache, money, tally, timers, faults>>
    PROVE  Kept
  <1>1. TypeOK'
    BY Returns DEF IInv, TypeOK, cache, money, tally, timers, faults
  <1> QED
    BY <1>1, Returns, QuietStep DEF Kept, IInv, money, timers

\* A transition made by a handler, from one status to the next.
LEMMA TransitionKeeps ==
    ASSUME IInv, NEW p \in Requests, call[p] # Idle,
           NEW from \in Status, NEW to \in Status, NEW pc \in Points,
           Transition(call[p].ride, from, to), GoTo(p, pc),
           UNCHANGED <<cache, money, tally, timers, faults>>,
           Rank(to) > Rank(from), from \notin Terminal,
           to \notin {"SEARCHING", "MATCHED", "NEGOTIATING"},
           to \in Agreed => from \in Agreed \/ ride[call[p].ride].fare # None,
           pc \notin {"refund", "write", "deduct"},
           pc = "guard" => ride[call[p].ride].fare # None,
           pc = "settle" => to = "COMPLETED"
    PROVE  Kept
  <1>0. PICK r \in Rides : r = call[p].ride
    BY Goes DEF IInv, Busy
  <1>1. TypeOK /\ RowOK(r) /\ CallOK(p) /\ None \notin Status
    BY RidesAssumption DEF IInv
  <1>2. ride[r].status = from /\ ride' = [ride EXCEPT ![r].status = to]
    BY <1>0 DEF Transition
  <1>3. /\ ride' \in [Rides -> Row] /\ ride'[r].status = to
        /\ ride'[r].fare = ride[r].fare /\ ride'[r].by = ride[r].by
        /\ ride'[r].final = ride[r].final
        /\ \A s \in Rides \ {r} : ride'[s] = ride[s]
    BY <1>1, <1>2, StatusSet
  <1>4. TypeOK'
    BY <1>1, <1>3, Goes DEF TypeOK, cache, money, tally, timers, faults
  <1>5. RowAdvances(r)
    BY <1>2, <1>3 DEF RowAdvances, Terminal
  <1>6. charge' = charge /\ finalizer' = finalizer
    BY DEF money, timers
  <1>7. RowOK(r)'
    <2>1. to \in Agreed => ride[r].fare # None
      BY <1>0, <1>1, <1>2 DEF RowOK
    <2>2. ~charge[r].refunded /\ ride[r].final = None /\ finalizer[r] # "settle"
      BY <1>1, <1>2 DEF RowOK, Terminal
    <2>3. charge[r].deducted => ride[r].fare # None
      BY <1>1 DEF RowOK
    <2>4. to \notin {"SEARCHING", "MATCHED", "NEGOTIATING", None}
      BY <1>1
    <2> QED
      BY <1>3, <1>6, <2>1, <2>2, <2>3, <2>4 DEF RowOK
  <1>8. CallOK(p)'
    <2>1. /\ call'[p].op = call[p].op /\ call'[p].pc = pc
          /\ call'[p].ride = r /\ call'[p].arg = call[p].arg
      BY <1>0, <1>1, Goes
    <2> QED
      BY <1>0, <1>1, <1>3, <2>1 DEF CallOK
  <1>9. \A q \in Requests : call'[q] = call[q] \/ CallOK(q)'
    BY <1>1, <1>8, Goes
  <1>10. \A s \in Rides \ {r} : /\ ride'[s] = ride[s]
                                 /\ charge'[s] = charge[s]
                                 /\ finalizer'[s] = finalizer[s]
    BY <1>3, <1>6
  <1> QED
    BY <1>1, <1>4, <1>5, <1>7, <1>9, <1>10, Combine DEF Kept

\* What an acting request is.
LEMMA Acting ==
    ASSUME IInv, NEW p \in Requests, call[p].op # "idle"
    PROVE  /\ call[p] # Idle /\ call[p] \in Busy /\ call[p].ride \in Rides
           /\ TypeOK /\ CallOK(p) /\ RowOK(call[p].ride)
  BY DEF IInv, TypeOK, Busy, Idle

\* The transitions of the handlers.
LEMMA TransitionsKeep ==
    ASSUME IInv, NEW p \in Requests,
           \/ AgreeConfirm(p) \/ EnRouteWrite(p) \/ ArriveAdvance(p)
           \/ ArriveWrite(p) \/ StartWrite(p) \/ CompleteWrite(p)
    PROVE  Kept
  <1> USE DEF At, TransitionOrReturn
  <1>0. /\ {"NEGOTIATING", "CONFIRMED", "DRIVER_EN_ROUTE", "DRIVER_ARRIVED",
            "IN_PROGRESS", "COMPLETED"} \subseteq Status
        /\ {"guard", "key", "advanceKey", "stamp", "settle"} \subseteq Points
        /\ call[p] # Idle /\ CallOK(p)
    BY Acting DEF Status, Points, AgreeConfirm, EnRouteWrite, ArriveAdvance,
                  ArriveWrite, StartWrite, CompleteWrite
  <1>1. /\ Rank("NEGOTIATING") = 1 /\ Rank("CONFIRMED") = 2
        /\ Rank("DRIVER_EN_ROUTE") = 3 /\ Rank("DRIVER_ARRIVED") = 4
        /\ Rank("IN_PROGRESS") = 5 /\ Rank("COMPLETED") = 6
    BY RidesAssumption DEF Rank, Status
  <1>2. CASE AgreeConfirm(p)
    <2>1. CASE Return(p) /\ UNCHANGED ride
      BY <1>2, <2>1, GiveUpKeeps DEF AgreeConfirm
    <2>2. CASE /\ Transition(call[p].ride, "NEGOTIATING", "CONFIRMED")
               /\ GoTo(p, "guard")
      <3>1. ride[call[p].ride].fare # None
        BY <1>0, <1>2 DEF AgreeConfirm, CallOK
      <3> QED
        BY <1>0, <1>1, <1>2, <2>2, <3>1, TransitionKeeps
           DEF AgreeConfirm, Terminal
    <2> QED
      BY <1>2, <2>1, <2>2 DEF AgreeConfirm
  <1>3. CASE EnRouteWrite(p)
    <2>1. CASE Return(p) /\ UNCHANGED ride
      BY <1>3, <2>1, GiveUpKeeps DEF EnRouteWrite
    <2>2. CASE /\ Transition(call[p].ride, "CONFIRMED", "DRIVER_EN_ROUTE")
               /\ GoTo(p, "key")
      BY <1>0, <1>1, <1>3, <2>2, TransitionKeeps
         DEF EnRouteWrite, Terminal, Agreed
    <2> QED
      BY <1>3, <2>1, <2>2 DEF EnRouteWrite
  <1>4. CASE ArriveAdvance(p)
    <2>1. CASE Return(p) /\ UNCHANGED ride
      BY <1>4, <2>1, GiveUpKeeps DEF ArriveAdvance
    <2>2. CASE /\ Transition(call[p].ride, "CONFIRMED", "DRIVER_EN_ROUTE")
               /\ GoTo(p, "advanceKey")
      BY <1>0, <1>1, <1>4, <2>2, TransitionKeeps
         DEF ArriveAdvance, Terminal, Agreed
    <2> QED
      BY <1>4, <2>1, <2>2 DEF ArriveAdvance
  <1>5. CASE ArriveWrite(p)
    <2>1. CASE Return(p) /\ UNCHANGED ride
      BY <1>5, <2>1, GiveUpKeeps DEF ArriveWrite
    <2>2. CASE /\ Transition(call[p].ride, "DRIVER_EN_ROUTE", "DRIVER_ARRIVED")
               /\ GoTo(p, "stamp")
      BY <1>0, <1>1, <1>5, <2>2, TransitionKeeps
         DEF ArriveWrite, Terminal, Agreed
    <2> QED
      BY <1>5, <2>1, <2>2 DEF ArriveWrite
  <1>6. CASE StartWrite(p)
    <2>1. CASE Return(p) /\ UNCHANGED ride
      BY <1>6, <2>1, GiveUpKeeps DEF StartWrite
    <2>2. CASE /\ Transition(call[p].ride, "DRIVER_ARRIVED", "IN_PROGRESS")
               /\ GoTo(p, "stamp")
      BY <1>0, <1>1, <1>6, <2>2, TransitionKeeps
         DEF StartWrite, Terminal, Agreed
    <2> QED
      BY <1>6, <2>1, <2>2 DEF StartWrite
  <1>7. CASE CompleteWrite(p)
    <2>1. CASE Return(p) /\ UNCHANGED ride
      BY <1>7, <2>1, GiveUpKeeps DEF CompleteWrite
    <2>2. CASE /\ Transition(call[p].ride, "IN_PROGRESS", "COMPLETED")
               /\ GoTo(p, "settle")
      BY <1>0, <1>1, <1>7, <2>2, TransitionKeeps
         DEF CompleteWrite, Terminal, Agreed
    <2> QED
      BY <1>7, <2>1, <2>2 DEF CompleteWrite
  <1> QED
    BY <1>2, <1>3, <1>4, <1>5, <1>6, <1>7

\* A request goes on to a statement that relies on nothing.
LEMMA GoesOn ==
    ASSUME IInv, NEW p \in Requests, call[p].op # "idle",
           NEW pc \in Points \ {"guard", "deduct", "settle", "refund"},
           pc = "write" => call[p].op # "agree", GoTo(p, pc)
    PROVE  /\ call' \in [Requests -> Busy \cup {Idle}] /\ CallOK(p)'
           /\ \A q \in Requests \ {p} : call'[q] = call[q]
  <1>1. call[p] # Idle /\ CallOK(p) /\ TypeOK
    BY Acting
  <1> QED
    BY <1>1, Goes DEF CallOK

\* The keys of a ride's parties are deleted.
LEMMA Releases ==
    ASSUME TypeOK, NEW r \in Rides, Release(r)
    PROVE  /\ rideKey' \in [Rides -> Status \cup {None}]
           /\ customerRide' \in [Customers -> Rides \cup {None}]
           /\ driverRide' \in [Drivers -> Rides \cup {None}]
  BY DEF TypeOK, Release

\* The statements of a request that write neither the row nor the charge.
LEMMA QuietHandlersKeep ==
    ASSUME IInv, NEW p \in Requests,
           \/ AgreeDisarm(p) \/ CancelRelease(p) \/ CancelPenalty(p)
           \/ ArriveArm(p) \/ WriteKey(p) \/ CompleteCount(p)
           \/ CompleteFree(p)
    PROVE  Kept
  <1>1. /\ {"release", "penalty", "arm", "write", "free"}
               \subseteq Points \ {"guard", "deduct", "settle", "refund"}
        /\ {"DRIVER_EN_ROUTE", "DRIVER_ARRIVED", "IN_PROGRESS", "COMPLETED"}
               \subseteq Status
    BY DEF Points, Status
  <1>2. call[p].op # "idle" /\ TypeOK /\ UNCHANGED <<ride, charge, finalizer>>
    <2>1. call[p] = Idle => call[p].op = "idle" /\ call[p].pc = "idle"
      BY DEF Idle
    <2>2. call[p] # Idle => call[p].op \in Ops
      BY DEF IInv, TypeOK, Busy
    <2> QED
      BY <2>1, <2>2 DEF IInv, At, Ops, AgreeDisarm, CancelRelease,
         CancelPenalty, ArriveArm, WriteKey, CompleteCount, CompleteFree,
         money, timers
  <1>3. PICK r \in Rides : r = call[p].ride
    BY <1>2, Acting
  <1>4. CustomerOf[r] \in Customers /\ DriverOf[r] \in Drivers
    BY RidesAssumption
  <1>5. ASSUME TypeOK', \/ Return(p)
                        \/ \E pc \in {"release", "penalty", "arm", "write",
                                      "free"} :
                               /\ pc = "write" => call[p].op # "agree"
                               /\ GoTo(p, pc)
        PROVE  Kept
    <2>1. \A q \in Requests : call'[q] = call[q] \/ CallOK(q)'
      BY <1>1, <1>2, <1>5, GoesOn, Returns
    <2> QED
      BY <1>2, <1>5, <2>1, QuietStep DEF Kept
  <1>6. ASSUME \/ Return(p)
               \/ \E pc \in {"release", "penalty", "arm", "write", "free"} :
                      /\ pc = "write" => call[p].op # "agree"
                      /\ GoTo(p, pc)
        PROVE  call' \in [Requests -> Busy \cup {Idle}]
    BY <1>1, <1>2, <1>6, GoesOn, Returns
  <1>7. CASE AgreeDisarm(p)
    <2>1. negTimer' \in [Rides -> {"off", "armed", "firing", "releasing"}]
      BY <1>2, <1>3, <1>7 DEF AgreeDisarm, TypeOK
    <2> QED
      BY <1>2, <1>5, <1>6, <1>7, <2>1
         DEF AgreeDisarm, TypeOK, cache, money, tally, faults
  <1>8. CASE CancelRelease(p)
    BY <1>2, <1>3, <1>5, <1>6, <1>8, Releases
       DEF CancelRelease, TypeOK, money, tally, timers, faults
  <1>9. CASE CancelPenalty(p)
    <2>1. penalties' \in [Customers \cup Drivers -> Nat]
      BY <1>2, <1>3, <1>4, <1>9 DEF CancelPenalty, Penalise, TypeOK
    <2> QED
      BY <1>2, <1>5, <1>6, <1>9, <2>1
         DEF CancelPenalty, TypeOK, cache, money, timers, faults
  <1>10. CASE ArriveArm(p)
    <2>1. pickupTimer' \in [Rides -> {"off", "armed", "firing"}]
      BY <1>2, <1>3, <1>10 DEF ArriveArm, TypeOK
    <2> QED
      BY <1>2, <1>5, <1>6, <1>10, <2>1
         DEF ArriveArm, TypeOK, cache, money, tally, faults
  <1>11. CASE WriteKey(p)
    <2>1. rideKey' \in [Rides -> Status \cup {None}]
      BY <1>1, <1>2, <1>3, <1>11 DEF WriteKey, TypeOK
    <2>2. \/ Return(p)
          \/ \E pc \in {"release", "penalty", "arm", "write", "free"} :
                 (pc = "write" => call[p].op # "agree") /\ GoTo(p, pc)
      BY <1>11 DEF WriteKey, At
    <2> QED
      BY <1>2, <1>5, <1>6, <1>11, <2>1, <2>2
         DEF WriteKey, TypeOK, money, tally, timers, faults
  <1>12. CASE CompleteCount(p)
    <2>1. totalRides' \in [Drivers -> Nat]
      BY <1>2, <1>3, <1>4, <1>12 DEF CompleteCount, TypeOK
    <2> QED
      BY <1>2, <1>5, <1>6, <1>12, <2>1
         DEF CompleteCount, TypeOK, cache, money, timers, faults
  <1>13. CASE CompleteFree(p)
    <2>1. /\ rideKey' \in [Rides -> Status \cup {None}]
          /\ customerRide' \in [Customers -> Rides \cup {None}]
          /\ driverRide' \in [Drivers -> Rides \cup {None}]
      BY <1>1, <1>2, <1>3, <1>13 DEF CompleteFree, TypeOK
    <2> QED
      BY <1>2, <1>5, <1>6, <1>13, <2>1
         DEF CompleteFree, TypeOK, money, tally, timers, faults
  <1> QED
    BY <1>7, <1>8, <1>9, <1>10, <1>11, <1>12, <1>13

\* A step of request p that touches one row, or that row's charge.
LEMMA RequestStep ==
    ASSUME IInv, TypeOK', NEW p \in Requests, NEW r \in Rides,
           \A s \in Rides \ {r} : /\ ride'[s] = ride[s]
                                  /\ charge'[s] = charge[s],
           finalizer' = finalizer, RowAdvances(r), RowOK(r)', CallOK(p)',
           \A q \in Requests \ {p} : call'[q] = call[q]
    PROVE  Kept
  <1>1. \A q \in Requests : call'[q] = call[q] \/ CallOK(q)'
    OBVIOUS
  <1>2. \A s \in Rides \ {r} : /\ ride'[s] = ride[s]
                               /\ charge'[s] = charge[s]
                               /\ finalizer'[s] = finalizer[s]
    OBVIOUS
  <1> QED
    BY <1>1, <1>2, Combine DEF Kept

\* The fare is locked once; the loser of that race gives up.
LEMMA AgreeLockKeeps ==
    ASSUME IInv, NEW p \in Requests, AgreeLock(p)
    PROVE  Kept
  <1>0. call[p].op = "agree" /\ call[p] # Idle /\ CallOK(p) /\ TypeOK
    BY Acting DEF AgreeLock, At
  <1>1. PICK r \in Rides : r = call[p].ride
    BY <1>0, Acting
  <1>2. CASE ride[r].fare # None
    BY <1>1, <1>2, GiveUpKeeps DEF AgreeLock
  <1>3. CASE ride[r].fare = None
    <2> DEFINE row == [ride[r] EXCEPT !.fare = call[p].arg]
    <2>1. /\ ride' = [ride EXCEPT ![r].fare = call[p].arg]
          /\ GoTo(p, "write") /\ UNCHANGED <<cache, money, tally, timers, faults>>
      BY <1>1, <1>3 DEF AgreeLock
    <2>2. call[p].arg \in Fares /\ call[p].arg # None
      BY <1>0, NoneFacts DEF CallOK
    <2>3. ride[r] \in Row /\ RowOK(r)
      BY DEF IInv, TypeOK
    <2>4. ride' = [ride EXCEPT ![r] = row]
      BY <1>0, <2>1, <2>3 DEF TypeOK
    <2>5. /\ row \in Row /\ row.fare = call[p].arg
          /\ row.status = ride[r].status /\ row.by = ride[r].by
          /\ row.final = ride[r].final
      BY <2>2, <2>3 DEF Row
    <2> HIDE DEF row
    <2>6. /\ ride' \in [Rides -> Row] /\ ride'[r] = row
          /\ \A s \in Rides \ {r} : ride'[s] = ride[s]
      BY <1>0, <2>4, <2>5 DEF TypeOK
    <2>7. charge' = charge /\ finalizer' = finalizer
      BY <2>1 DEF money, timers
    <2>8. RowOK(r)'
      BY <1>3, <2>2, <2>3, <2>5, <2>6, <2>7 DEF RowOK, Agreed
    <2>9. RowAdvances(r)
      BY <1>3, <2>5, <2>6 DEF RowAdvances
    <2>10. "write" \in Points
      BY DEF Points
    <2>11. TypeOK'
      BY <1>0, <2>1, <2>6, <2>10, Goes DEF TypeOK, cache, money, tally, timers, faults
    <2>12. CallOK(p)'
      <3>1. /\ call'[p].op = call[p].op /\ call'[p].pc = "write"
            /\ call'[p].ride = r /\ call'[p].arg = call[p].arg
        BY <1>0, <1>1, <2>1, <2>10, Goes
      <3> QED
        BY <1>0, <2>2, <2>5, <2>6, <3>1 DEF CallOK
    <2> QED
      BY <1>0, <2>1, <2>6, <2>7, <2>8, <2>9, <2>10, <2>11, <2>12, Goes,
         RequestStep
  <1> QED
    BY <1>2, <1>3

\* The guard of the charge, the charge and the refund.
LEMMA ChargesKeep ==
    ASSUME IInv, NEW p \in Requests,
           ChargeGuard(p) \/ ChargeDeduct(p) \/ CancelRefund(p)
    PROVE  Kept
  <1>0. call[p].op # "idle" /\ call[p] # Idle /\ CallOK(p) /\ TypeOK
    BY Acting DEF ChargeGuard, ChargeDeduct, CancelRefund, At
  <1>1. PICK r \in Rides : r = call[p].ride
    BY <1>0, Acting
  <1>2. /\ {"disarm", "deduct", "release"} \subseteq Points
        /\ {"disarm", "release"}
               \subseteq Points \ {"guard", "deduct", "settle", "refund"}
        /\ DriverOf[r] \in Drivers /\ RowOK(r) /\ charge[r].guard \in BOOLEAN
    BY RidesAssumption DEF IInv, TypeOK, Points
  <1>3. ride' = ride /\ finalizer' = finalizer
    BY DEF ChargeGuard, ChargeDeduct, CancelRefund, timers
  <1>4. RowAdvances(r)
    BY <1>3 DEF RowAdvances
  <1>5. CASE ChargeGuard(p)
    <2>1. /\ charge' \in [Rides -> [guard : BOOLEAN, deducted : BOOLEAN,
                                    refunded : BOOLEAN]]
          /\ charge'[r].deducted = charge[r].deducted
          /\ charge'[r].refunded = charge[r].refunded
          /\ \A s \in Rides \ {r} : charge'[s] = charge[s]
      BY <1>0, <1>1, <1>5 DEF ChargeGuard, TypeOK
    <2>2. PICK pc \in {"disarm", "deduct"} : GoTo(p, pc)
      BY <1>5 DEF ChargeGuard
    <2>3. TypeOK'
      BY <1>0, <1>2, <1>5, <2>1, <2>2, Goes
         DEF ChargeGuard, TypeOK, cache, tally, timers, faults
    <2>4. RowOK(r)'
      BY <1>2, <1>3, <2>1 DEF RowOK
    <2>5. CallOK(p)'
      <3>1. /\ call'[p].op = call[p].op /\ call'[p].pc = pc
            /\ call'[p].ride = r /\ call'[p].arg = call[p].arg
        BY <1>0, <1>1, <1>2, <2>2, Goes
      <3> QED
        BY <1>0, <1>1, <1>3, <1>5, <2>2, <3>1 DEF CallOK, ChargeGuard, At
    <2> QED
      BY <1>0, <1>2, <1>3, <1>4, <2>1, <2>2, <2>3, <2>4, <2>5, Goes,
         RequestStep
  <1>6. CASE ChargeDeduct(p)
    <2>1. /\ charge' \in [Rides -> [guard : BOOLEAN, deducted : BOOLEAN,
                                    refunded : BOOLEAN]]
          /\ charge'[r].refunded = charge[r].refunded
          /\ \A s \in Rides \ {r} : charge'[s] = charge[s]
      <3>1. CASE UNCHANGED money
        BY <1>0, <3>1 DEF TypeOK, money
      <3>2. CASE charge' = [charge EXCEPT ![r].deducted = TRUE]
        BY <1>0, <3>2 DEF TypeOK
      <3> QED
        BY <1>1, <1>6, <3>1, <3>2 DEF ChargeDeduct
    <2>2. credits' \in [Drivers -> Nat]
      BY <1>0, <1>1, <1>2, <1>6 DEF ChargeDeduct, TypeOK, money
    <2>3. GoTo(p, "disarm")
      BY <1>6 DEF ChargeDeduct
    <2>4. TypeOK'
      BY <1>0, <1>2, <1>6, <2>1, <2>2, <2>3, GoesOn
         DEF ChargeDeduct, TypeOK, cache, tally, timers, faults
    <2>5. ride[r].fare # None /\ ride[r].status \notin {None, "NEGOTIATING"}
      BY <1>0, <1>1, <1>6 DEF CallOK, ChargeDeduct, At
    <2>6. RowOK(r)'
      BY <1>2, <1>3, <2>1, <2>5 DEF RowOK
    <2> QED
      BY <1>0, <1>2, <1>3, <1>4, <2>1, <2>3, <2>4, <2>6, GoesOn, RequestStep
  <1>7. CASE CancelRefund(p)
    <2>1. /\ charge' \in [Rides -> [guard : BOOLEAN, deducted : BOOLEAN,
                                    refunded : BOOLEAN]]
          /\ charge'[r].deducted = charge[r].deducted
          /\ \A s \in Rides \ {r} : charge'[s] = charge[s]
      BY <1>0, <1>1, <1>7 DEF CancelRefund, Refund, TypeOK
    <2>2. credits' \in [Drivers -> Nat]
      BY <1>0, <1>1, <1>2, <1>7 DEF CancelRefund, Refund, TypeOK
    <2>3. GoTo(p, "release")
      BY <1>7 DEF CancelRefund
    <2>4. TypeOK'
      BY <1>0, <1>2, <1>7, <2>1, <2>2, <2>3, GoesOn
         DEF CancelRefund, TypeOK, cache, tally, timers, faults
    <2>5. /\ ride[r].status = "CANCELLED"
          /\ ride[r].by \in {"CUSTOMER", "NO_SHOW"}
      BY <1>0, <1>1, <1>7 DEF CallOK, CancelRefund
    <2>6. RowOK(r)'
      BY <1>2, <1>3, <2>1, <2>5 DEF RowOK
    <2> QED
      BY <1>0, <1>2, <1>3, <1>4, <2>1, <2>3, <2>4, <2>6, GoesOn, RequestStep
  <1> QED
    BY <1>5, <1>6, <1>7

\* The UPDATE of a cancellation, if it finds the ride still live.
LEMMA CancelWriteKeeps ==
    ASSUME IInv, NEW p \in Requests, CancelWrite(p)
    PROVE  Kept
  <1> DEFINE by == Canceller(call[p])
             pc == AfterCancel(call[p])
             fee == call[p].op = "cancel" /\ call[p].snap = "DRIVER_ARRIVED"
  <1>0. /\ call[p].op \in {"cancel", "driverCancel", "noShow"}
        /\ call[p] # Idle /\ CallOK(p) /\ TypeOK
    BY Acting DEF CancelWrite
  <1>1. PICK r \in Rides : r = call[p].ride
    BY <1>0, Acting
  <1>2. CASE ~Live(r)
    BY <1>1, <1>2, GiveUpKeeps DEF CancelWrite
  <1>3. CASE Live(r)
    <2>1. /\ MarkCancelled(r, by, fee) /\ GoTo(p, pc)
          /\ UNCHANGED <<cache, money, tally, timers, faults>>
      BY <1>1, <1>3 DEF CancelWrite
    <2>2. /\ by \in CancelledBy /\ pc \in {"refund", "release", "penalty"}
          /\ pc = "refund" => by \in {"CUSTOMER", "NO_SHOW"}
          /\ fee \in BOOLEAN
      <3>1. CASE call[p].op = "cancel"
        BY <3>1 DEF Canceller, AfterCancel, CancelledBy
      <3>2. CASE call[p].op = "driverCancel"
        BY <3>2 DEF Canceller, AfterCancel, CancelledBy
      <3>3. CASE call[p].op = "noShow"
        BY <3>3 DEF Canceller, AfterCancel, CancelledBy
      <3> QED
        BY <1>0, <3>1, <3>2, <3>3
    <2>3. PICK who \in CancelledBy, next \in {"refund", "release", "penalty"},
               paid \in BOOLEAN :
               /\ MarkCancelled(r, who, paid) /\ GoTo(p, next)
               /\ next = "refund" => who \in {"CUSTOMER", "NO_SHOW"}
      BY <2>1, <2>2
    <2>4. next \in Points
      BY DEF Points
    <2>5. /\ ride' \in [Rides -> Row]
          /\ ride'[r].status = "CANCELLED" /\ ride'[r].by = who
          /\ ride'[r].fare = ride[r].fare /\ ride'[r].final = ride[r].final
          /\ \A s \in Rides \ {r} : ride'[s] = ride[s]
      BY <1>0, <2>3, CancelSet
    <2>6. charge' = charge /\ finalizer' = finalizer
      BY <2>1 DEF money, timers
    <2>7. TypeOK'
      BY <1>0, <2>1, <2>3, <2>4, <2>5, Goes
         DEF TypeOK, cache, money, tally, timers, faults
    <2>8. RowOK(r) /\ ride[r].status \notin {"CANCELLED", "COMPLETED", None}
      BY <1>3 DEF IInv, Live, Terminal
    <2>9. RowOK(r)'
      BY <2>5, <2>6, <2>8, NoneFacts DEF RowOK, Agreed, Status
    <2>10. RowAdvances(r)
      <3>1. ride[r].status \in Status
        BY <1>0, <2>8 DEF TypeOK, Row
      <3>2. Rank("CANCELLED") > Rank(ride[r].status)
        BY <2>8, <3>1, NoneFacts DEF Rank, Status, RowOK
      <3> QED
        BY <2>5, <2>8, <3>2 DEF RowAdvances
    <2>11. CallOK(p)'
      <3>1. /\ call'[p].op = call[p].op /\ call'[p].pc = next
            /\ call'[p].ride = r /\ call'[p].arg = call[p].arg
        BY <1>0, <1>1, <2>3, <2>4, Goes
      <3> QED
        BY <1>0, <2>3, <2>5, <3>1 DEF CallOK
    <2> QED
      BY <1>0, <2>3, <2>4, <2>5, <2>6, <2>7, <2>9, <2>10, <2>11, Goes,
         RequestStep
  <1> QED
    BY <1>2, <1>3

\* The timestamps of the arrival and of the start.
LEMMA StampsKeep ==
    ASSUME IInv, NEW p \in Requests, ArriveStamp(p) \/ StartStamp(p)
    PROVE  Kept
  <1>0. /\ call[p].op # "idle" /\ call[p] # Idle /\ CallOK(p) /\ TypeOK
    BY Acting DEF ArriveStamp, StartStamp, At
  <1>1. PICK r \in Rides : r = call[p].ride
    BY <1>0, Acting
  <1>2. ride[r] \in Row /\ RowOK(r)
    BY DEF IInv, TypeOK
  <1>3. PICK row \in {[ride[r] EXCEPT !.arrived = TRUE],
                      [ride[r] EXCEPT !.started = TRUE]} :
            ride' = [ride EXCEPT ![r] = row]
    <2>1. CASE ArriveStamp(p)
      <3>1. ride' = [ride EXCEPT ![r] = [ride[r] EXCEPT !.arrived = TRUE]]
        BY <1>0, <1>1, <1>2, <2>1 DEF ArriveStamp, TypeOK
      <3> QED
        BY <3>1
    <2>2. CASE StartStamp(p)
      <3>1. ride' = [ride EXCEPT ![r] = [ride[r] EXCEPT !.started = TRUE]]
        BY <1>0, <1>1, <1>2, <2>2 DEF StartStamp, TypeOK
      <3> QED
        BY <3>1
    <2> QED
      BY <2>1, <2>2
  <1>4. /\ row \in Row /\ row.status = ride[r].status
        /\ row.fare = ride[r].fare /\ row.by = ride[r].by
        /\ row.final = ride[r].final
    BY <1>2, <1>3 DEF Row
  <1>5. /\ ride' \in [Rides -> Row] /\ ride'[r] = row
        /\ \A s \in Rides \ {r} : ride'[s] = ride[s]
    BY <1>0, <1>3, <1>4 DEF TypeOK
  <1>6. /\ UNCHANGED <<cache, money, tally, timers, faults>>
        /\ charge' = charge /\ finalizer' = finalizer /\ GoTo(p, "key")
    BY DEF ArriveStamp, StartStamp, money, timers
  <1>7. "key" \in Points \ {"guard", "deduct", "settle", "refund"}
    BY DEF Points
  <1>8. TypeOK'
    BY <1>0, <1>5, <1>6, <1>7, GoesOn DEF TypeOK, cache, money, tally, timers, faults
  <1>9. RowOK(r)' /\ RowAdvances(r)
    BY <1>2, <1>4, <1>5, <1>6 DEF RowOK, RowAdvances
  <1> QED
    BY <1>0, <1>5, <1>6, <1>7, <1>8, <1>9, GoesOn, RequestStep

\* A final fare is written.
LEMMA FinalSet ==
    ASSUME IInv, NEW r \in Rides, NEW fare \in Nat,
           ride[r].status = "COMPLETED", fare >= ride[r].fare,
           ride' = [ride EXCEPT ![r].final = fare], charge' = charge
    PROVE  /\ ride' \in [Rides -> Row] /\ RowAdvances(r) /\ RowOK(r)'
           /\ \A s \in Rides \ {r} : /\ ride'[s] = ride[s]
                                     /\ charge'[s] = charge[s]
  <1> DEFINE row == [ride[r] EXCEPT !.final = fare]
  <1>1. ride[r] \in Row /\ RowOK(r) /\ ride \in [Rides -> Row]
    BY DEF IInv, TypeOK
  <1>2. ride' = [ride EXCEPT ![r] = row]
    BY <1>1
  <1>3. /\ row \in Row /\ row.status = ride[r].status
        /\ row.fare = ride[r].fare /\ row.by = ride[r].by
        /\ row.final = fare
    BY <1>1 DEF Row
  <1> HIDE DEF row
  <1>4. /\ ride' \in [Rides -> Row] /\ ride'[r] = row
        /\ \A s \in Rides \ {r} : ride'[s] = ride[s]
    BY <1>1, <1>2, <1>3
  <1>5. RowAdvances(r)
    BY <1>3, <1>4 DEF RowAdvances
  <1>6. RowOK(r)'
    BY <1>1, <1>3, <1>4 DEF RowOK
  <1> QED
    BY <1>4, <1>5, <1>6

\* CompleteRide's final fare.
LEMMA CompleteSettleKeeps ==
    ASSUME IInv, NEW p \in Requests, CompleteSettle(p)
    PROVE  Kept
  <1>0. /\ call[p].op = "complete" /\ call[p].pc = "settle"
        /\ call[p] # Idle /\ CallOK(p) /\ TypeOK
    BY Acting DEF CompleteSettle, At
  <1>1. PICK r \in Rides : r = call[p].ride
    BY <1>0, Acting
  <1>2. /\ ride[r].status = "COMPLETED" /\ call[p].arg \in Nat
        /\ ride[r].fare \in Nat
    <2>1. ride[r].status = "COMPLETED" /\ call[p].arg \in Nat
      BY <1>0, <1>1 DEF CallOK
    <2>2. ride[r].fare # None /\ ride[r] \in Row
      BY <2>1 DEF IInv, RowOK, Agreed, TypeOK
    <2> QED
      BY <2>1, <2>2, NoneFacts DEF Row
  <1>3. PICK fare \in Nat :
            /\ fare >= ride[r].fare
            /\ ride' = [ride EXCEPT ![r].final = fare]
    <2>1. /\ ride[r].fare + call[p].arg \in Nat
          /\ ride[r].fare + call[p].arg >= ride[r].fare
      BY <1>2
    <2> QED
      BY <1>1, <2>1 DEF CompleteSettle
  <1>4. /\ UNCHANGED <<cache, money, tally, timers, faults>>
        /\ charge' = charge /\ finalizer' = finalizer /\ GoTo(p, "count")
    BY DEF CompleteSettle, money, timers
  <1>5. "count" \in Points \ {"guard", "deduct", "settle", "refund"}
    BY DEF Points
  <1>6. /\ ride' \in [Rides -> Row] /\ RowAdvances(r) /\ RowOK(r)'
        /\ \A s \in Rides \ {r} : /\ ride'[s] = ride[s]
                                  /\ charge'[s] = charge[s]
    BY <1>2, <1>3, <1>4, FinalSet
  <1>7. TypeOK'
    BY <1>0, <1>4, <1>5, <1>6, GoesOn DEF TypeOK, cache, money, tally, timers, faults
  <1> QED
    BY <1>0, <1>4, <1>5, <1>6, <1>7, GoesOn, RequestStep

\* Every statement of every handler.
LEMMA ProgressKeeps ==
    ASSUME IInv, NEW p \in Requests, Progress(p)
    PROVE  Kept
  BY AgreeLockKeeps, TransitionsKeep, ChargesKeep, QuietHandlersKeep,
     CancelWriteKeeps, StampsKeep, CompleteSettleKeeps DEF Progress

\* A request whose context dies.
LEMMA AbortKeeps ==
    ASSUME IInv, NEW p \in Requests, Abort(p)
    PROVE  Kept
  <1>1. call[p].op # "idle" /\ TypeOK
    BY DEF Abort, Idling, Idle, IInv, TypeOK, Busy, Ops
  <1>2. /\ {"disarm", "arm"} \subseteq Points \ {"guard", "deduct", "settle",
                                                "refund"}
        /\ aborts' \in Nat
    BY <1>1 DEF Points, Abort, TypeOK
  <1>3. Return(p) \/ \E pc \in {"disarm", "arm"} : GoTo(p, pc)
    BY DEF Abort
  <1>4. /\ call' \in [Requests -> Busy \cup {Idle}] /\ CallOK(p)'
        /\ \A q \in Requests \ {p} : call'[q] = call[q]
    BY <1>1, <1>2, <1>3, GoesOn, Returns
  <1>5. /\ UNCHANGED <<ride, cache, money, tally, timers>>
        /\ UNCHANGED <<crashes, interventions, booting, orphans>>
    BY DEF Abort
  <1>6. TypeOK'
    BY <1>1, <1>2, <1>4, <1>5 DEF TypeOK, cache, money, tally, timers
  <1>7. \A q \in Requests : call'[q] = call[q] \/ CallOK(q)'
    BY <1>4
  <1> QED
    BY <1>5, <1>6, <1>7, QuietStep DEF Kept, money, timers

-----------------------------------------------------------------------------
(* Bookings, timers, the finalizer, the admin, crashes.                    *)

\* A step of no request that touches one row.
LEMMA OwnStep ==
    ASSUME IInv, TypeOK', NEW r \in Rides,
           \A s \in Rides \ {r} : /\ ride'[s] = ride[s]
                                  /\ finalizer'[s] = finalizer[s],
           charge' = charge, call' = call, RowAdvances(r), RowOK(r)'
    PROVE  Kept
  <1>1. \A q \in Requests : call'[q] = call[q] \/ CallOK(q)'
    OBVIOUS
  <1>2. \A s \in Rides \ {r} : /\ ride'[s] = ride[s]
                               /\ charge'[s] = charge[s]
                               /\ finalizer'[s] = finalizer[s]
    OBVIOUS
  <1> QED
    BY <1>1, <1>2, Combine DEF Kept

\* A booking finds its driver.
LEMMA EngageKeeps ==
    ASSUME IInv, NEW r \in Rides, Engage(r)
    PROVE  Kept
  <1>1. /\ TypeOK /\ RowOK(r) /\ "NEGOTIATING" \in Status
        /\ CustomerOf[r] \in Customers /\ DriverOf[r] \in Drivers
    BY RidesAssumption DEF IInv, Status
  <1>2. /\ ride[r].status = None /\ ride[r].fare = None
        /\ ride[r].final = None
    BY DEF Engage, NoRow
  <1>3. ride' = [ride EXCEPT ![r].status = "NEGOTIATING"]
    BY DEF Engage
  <1>4. /\ ride' \in [Rides -> Row] /\ ride'[r].status = "NEGOTIATING"
        /\ ride'[r].fare = ride[r].fare /\ ride'[r].by = ride[r].by
        /\ ride'[r].final = ride[r].final
        /\ \A s \in Rides \ {r} : ride'[s] = ride[s]
    BY <1>1, <1>3, StatusSet
  <1>5. charge' = charge /\ finalizer' = finalizer /\ call' = call
    BY DEF Engage, money
  <1>6. /\ customerRide' \in [Customers -> Rides \cup {None}]
        /\ driverRide' \in [Drivers -> Rides \cup {None}]
        /\ rideKey' \in [Rides -> Status \cup {None}]
        /\ negTimer' \in [Rides -> {"off", "armed", "firing", "releasing"}]
    BY <1>1 DEF Engage, TypeOK
  <1>7. TypeOK'
    BY <1>1, <1>4, <1>5, <1>6 DEF Engage, TypeOK, money, tally, faults
  <1>8. Rank(None) = 0 /\ Rank("NEGOTIATING") = 1
    BY NoneFacts DEF Rank, Status
  <1>9. RowAdvances(r)
    BY <1>2, <1>4, <1>8, NoneFacts DEF RowAdvances, Status
  <1>10. ~charge[r].refunded /\ ~charge[r].deducted /\ finalizer[r] # "settle"
    BY <1>1, <1>2, NoneFacts DEF RowOK, Status
  <1>11. RowOK(r)'
    BY <1>2, <1>4, <1>5, <1>10 DEF RowOK, Agreed
  <1> QED
    BY <1>4, <1>5, <1>7, <1>9, <1>11, OwnStep

\* The steps outside the handlers that leave rows and charges alone.
LEMMA QuietBackgroundKeeps ==
    ASSUME IInv, NEW r \in Rides,
           \/ NegotiationFires(r) \/ NegotiationRelease(r) \/ PickupFires(r)
           \/ FinalizerSees(r) \/ FinalizerCount(r) \/ FinalizerRelease(r)
           \/ KeyExpires(r) \/ RecoverOrphan(r)
    PROVE  Kept
  <1>1. TypeOK /\ CustomerOf[r] \in Customers /\ DriverOf[r] \in Drivers
    BY RidesAssumption DEF IInv
  <1>2. /\ UNCHANGED <<ride, charge, call>>
        /\ \A s \in Rides : finalizer'[s] = "settle" => finalizer[s] = "settle"
    BY <1>1 DEF NegotiationFires, NegotiationRelease, PickupFires, TypeOK,
       FinalizerSees, FinalizerCount, FinalizerRelease, KeyExpires,
       RecoverOrphan, money, timers
  <1>3. ASSUME TypeOK' PROVE Kept
    BY <1>2, <1>3, QuietStep DEF Kept
  <1>4. CASE NegotiationFires(r)
    <2>1. negTimer' \in [Rides -> {"off", "armed", "firing", "releasing"}]
      BY <1>1, <1>4 DEF NegotiationFires, TypeOK
    <2> QED
      BY <1>1, <1>3, <1>4, <2>1
         DEF NegotiationFires, TypeOK, cache, money, tally, faults
  <1>5. CASE NegotiationRelease(r)
    <2>1. negTimer' \in [Rides -> {"off", "armed", "firing", "releasing"}]
      BY <1>1, <1>5 DEF NegotiationRelease, TypeOK
    <2> QED
      BY <1>1, <1>3, <1>5, <2>1, Releases
         DEF NegotiationRelease, TypeOK, money, tally, faults
  <1>6. CASE PickupFires(r)
    <2>1. pickupTimer' \in [Rides -> {"off", "armed", "firing"}]
      BY <1>1, <1>6 DEF PickupFires, TypeOK
    <2> QED
      BY <1>1, <1>3, <1>6, <2>1
         DEF PickupFires, TypeOK, cache, money, tally, faults
  <1>7. CASE FinalizerSees(r)
    <2>1. finalizer' \in [Rides -> {"idle", "write", "settle", "count",
                                    "release"}]
      BY <1>1, <1>7 DEF FinalizerSees, TypeOK
    <2> QED
      BY <1>1, <1>3, <1>7, <2>1
         DEF FinalizerSees, TypeOK, cache, money, tally, faults
  <1>8. CASE FinalizerCount(r)
    <2>1. /\ finalizer' \in [Rides -> {"idle", "write", "settle", "count",
                                       "release"}]
          /\ totalRides' \in [Drivers -> Nat]
      BY <1>1, <1>8 DEF FinalizerCount, TypeOK
    <2> QED
      BY <1>1, <1>3, <1>8, <2>1
         DEF FinalizerCount, TypeOK, cache, money, faults
  <1>9. CASE FinalizerRelease(r)
    <2>1. finalizer' \in [Rides -> {"idle", "write", "settle", "count",
                                    "release"}]
      BY <1>1, <1>9 DEF FinalizerRelease, TypeOK
    <2> QED
      BY <1>1, <1>3, <1>9, <2>1, Releases
         DEF FinalizerRelease, TypeOK, money, tally, faults
  <1>10. CASE KeyExpires(r)
    <2>1. rideKey' \in [Rides -> Status \cup {None}]
      BY <1>1, <1>10 DEF KeyExpires, TypeOK
    <2> QED
      BY <1>1, <1>3, <1>10, <2>1
         DEF KeyExpires, TypeOK, money, tally, timers, faults
  <1>11. CASE RecoverOrphan(r)
    <2>1. /\ rideKey' \in [Rides -> Status \cup {None}]
          /\ customerRide' \in [Customers -> Rides \cup {None}]
          /\ orphans' \subseteq Rides
      BY <1>1, <1>11 DEF RecoverOrphan, TypeOK
    <2> QED
      BY <1>1, <1>3, <1>11, <2>1
         DEF RecoverOrphan, TypeOK, money, tally, timers
  <1> QED
    BY <1>4, <1>5, <1>6, <1>7, <1>8, <1>9, <1>10, <1>11

\* The negotiation timer cancels the ride.
LEMMA NegotiationCancelKeeps ==
    ASSUME IInv, NEW r \in Rides, NegotiationCancel(r)
    PROVE  Kept
  <1>1. TypeOK /\ RowOK(r) /\ ride[r] \in Row
    BY DEF IInv, TypeOK
  <1>2. /\ negTimer' \in [Rides -> {"off", "armed", "firing", "releasing"}]
        /\ call' = call /\ charge' = charge /\ finalizer' = finalizer
    BY <1>1 DEF NegotiationCancel, TypeOK, money
  <1>3. CASE ~Live(r)
    <2>1. TypeOK' /\ ride' = ride
      BY <1>1, <1>2, <1>3 DEF NegotiationCancel, TypeOK, cache, money, tally, faults
    <2> QED
      BY <1>2, <2>1, QuietStep DEF Kept
  <1>4. CASE Live(r)
    <2>1. MarkCancelled(r, "SYSTEM", ride[r].fee)
      BY <1>4 DEF NegotiationCancel
    <2>2. "SYSTEM" \in CancelledBy /\ ride[r].fee \in BOOLEAN
      BY <1>1 DEF CancelledBy, Row
    <2>3. /\ ride' \in [Rides -> Row]
          /\ ride'[r].status = "CANCELLED"
          /\ ride'[r].fare = ride[r].fare /\ ride'[r].final = ride[r].final
          /\ \A s \in Rides \ {r} : ride'[s] = ride[s]
      BY <1>1, <2>1, <2>2, CancelSet
    <2>4. TypeOK'
      BY <1>1, <1>2, <2>3 DEF NegotiationCancel, TypeOK, cache, money, tally, faults
    <2>5. ride[r].status \in Status \ {"CANCELLED", "COMPLETED"}
      BY <1>1, <1>4 DEF Live, Terminal, Row
    <2>6. Rank("CANCELLED") > Rank(ride[r].status)
      BY <1>1, <2>5, NoneFacts DEF Rank, Status, RowOK
    <2>7. RowAdvances(r)
      BY <2>3, <2>5, <2>6 DEF RowAdvances
    <2>8. RowOK(r)'
      BY <1>1, <1>2, <2>3, <2>5, NoneFacts DEF RowOK, Agreed, Status
    <2> QED
      BY <1>2, <2>3, <2>4, <2>7, <2>8, OwnStep
  <1> QED
    BY <1>3, <1>4

\* A pickup expires.
LEMMA PickupExpireKeeps ==
    ASSUME IInv, NEW r \in Rides, PickupExpire(r)
    PROVE  Kept
  <1> DEFINE row == [ride[r] EXCEPT !.expired = TRUE]
  <1>1. TypeOK /\ RowOK(r) /\ ride[r] \in Row
    BY DEF IInv, TypeOK
  <1>2. ride' = [ride EXCEPT ![r] = row]
    BY <1>1 DEF PickupExpire, TypeOK
  <1>3. /\ row \in Row /\ row.status = ride[r].status
        /\ row.fare = ride[r].fare /\ row.by = ride[r].by
        /\ row.final = ride[r].final
    BY <1>1 DEF Row
  <1> HIDE DEF row
  <1>4. /\ ride' \in [Rides -> Row] /\ ride'[r] = row
        /\ \A s \in Rides \ {r} : ride'[s] = ride[s]
    BY <1>1, <1>2, <1>3 DEF TypeOK
  <1>5. /\ pickupTimer' \in [Rides -> {"off", "armed", "firing"}]
        /\ call' = call /\ charge' = charge /\ finalizer' = finalizer
    BY <1>1 DEF PickupExpire, TypeOK, money
  <1>6. TypeOK'
    BY <1>1, <1>4, <1>5 DEF PickupExpire, TypeOK, cache, money, tally, faults
  <1>7. RowOK(r)' /\ RowAdvances(r)
    BY <1>1, <1>3, <1>4, <1>5 DEF RowOK, RowAdvances
  <1> QED
    BY <1>4, <1>5, <1>6, <1>7, OwnStep

\* The finalizer completes a ride and writes its fare.
LEMMA FinalizerKeeps ==
    ASSUME IInv, NEW r \in Rides, FinalizerWrite(r) \/ FinalizerSettle(r)
    PROVE  Kept
  <1>1. TypeOK /\ RowOK(r) /\ ride[r] \in Row
    BY DEF IInv, TypeOK
  <1>2. /\ finalizer' \in [Rides -> {"idle", "write", "settle", "count",
                                     "release"}]
        /\ \A s \in Rides \ {r} : finalizer'[s] = finalizer[s]
        /\ call' = call /\ charge' = charge
    BY <1>1 DEF FinalizerWrite, FinalizerSettle, TypeOK, money
  <1>3. ASSUME ride' \in [Rides -> Row] PROVE TypeOK'
    BY <1>1, <1>2, <1>3 DEF FinalizerWrite, FinalizerSettle, TypeOK, cache,
       money, tally, faults
  <1>4. CASE FinalizerWrite(r) /\ ride' = ride
    <2>1. \A s \in Rides : finalizer'[s] = "settle" => finalizer[s] = "settle"
      <3>1. finalizer'[r] # "settle"
        <4>1. ~Transition(r, "IN_PROGRESS", "COMPLETED")
          BY <1>1, <1>4, StatusSet DEF Transition, Status
        <4> QED
          BY <1>1, <1>4, <4>1 DEF FinalizerWrite, TypeOK
      <3> QED
        BY <1>2, <3>1
    <2> QED
      BY <1>1, <1>2, <1>3, <1>4, <2>1, QuietStep DEF Kept, TypeOK
  <1>5. CASE FinalizerWrite(r) /\ Transition(r, "IN_PROGRESS", "COMPLETED")
    <2>1. /\ ride[r].status = "IN_PROGRESS"
          /\ ride' = [ride EXCEPT ![r].status = "COMPLETED"]
          /\ "COMPLETED" \in Status /\ "IN_PROGRESS" \in Status
      BY <1>5 DEF Transition, Status
    <2>2. /\ ride' \in [Rides -> Row] /\ ride'[r].status = "COMPLETED"
          /\ ride'[r].fare = ride[r].fare /\ ride'[r].by = ride[r].by
          /\ ride'[r].final = ride[r].final
          /\ \A s \in Rides \ {r} : ride'[s] = ride[s]
      BY <1>1, <2>1, StatusSet
    <2>3. Rank("COMPLETED") = 6 /\ Rank("IN_PROGRESS") = 5
      BY NoneFacts DEF Rank, Status
    <2>4. RowAdvances(r)
      BY <2>1, <2>2, <2>3 DEF RowAdvances
    <2>5. RowOK(r)'
      BY <1>1, <1>2, <2>1, <2>2, NoneFacts DEF RowOK, Agreed, Status
    <2> QED
      BY <1>2, <1>3, <2>2, <2>4, <2>5, OwnStep
  <1>6. CASE FinalizerSettle(r)
    <2>1. ride[r].status = "COMPLETED" /\ ride[r].fare \in Nat
      <3>1. ride[r].status = "COMPLETED"
        BY <1>1, <1>6 DEF FinalizerSettle, RowOK
      <3> QED
        BY <1>1, <3>1, NoneFacts DEF RowOK, Agreed, Row
    <2>2. PICK fare \in Nat :
              /\ fare >= ride[r].fare
              /\ ride' = [ride EXCEPT ![r].final = fare]
      <3>1. ride' = [ride EXCEPT ![r].final = ride[r].fare]
        BY <1>6 DEF FinalizerSettle
      <3>2. ride[r].fare >= ride[r].fare
        BY <2>1
      <3> QED
        BY <2>1, <3>1, <3>2
    <2>3. /\ ride' \in [Rides -> Row] /\ RowAdvances(r) /\ RowOK(r)'
          /\ \A s \in Rides \ {r} : ride'[s] = ride[s]
      BY <1>2, <2>1, <2>2, FinalSet
    <2> QED
      BY <1>2, <1>3, <2>3, OwnStep
  <1> QED
    BY <1>4, <1>5, <1>6 DEF FinalizerWrite

\* An admin writes a status.
LEMMA AdminKeeps ==
    ASSUME IInv, NEW r \in Rides, Admin(r)
    PROVE  Kept
  <1>1. TypeOK /\ RowOK(r) /\ interventions' \in Nat
    BY DEF Admin, InterveneCancel, InterveneComplete, IInv, TypeOK
  <1>2. PICK to \in {"CANCELLED", "COMPLETED"} :
            ride' = [ride EXCEPT ![r].status = to]
    BY DEF Admin, InterveneCancel, InterveneComplete
  <1>3. /\ ride[r].status \in {"NEGOTIATING", "DRIVER_EN_ROUTE",
                               "DRIVER_ARRIVED", "IN_PROGRESS"}
        /\ to = "COMPLETED" => ride[r].status # "NEGOTIATING"
    <2>1. CASE InterveneCancel(r)
      <3>1. ride' = [ride EXCEPT ![r].status = "CANCELLED"]
        BY <2>1 DEF InterveneCancel
      <3>2. ride'[r].status = "CANCELLED" /\ ride'[r].status = to
        BY <1>1, <1>2, <3>1, StatusSet DEF Status
      <3> QED
        BY <1>1, <2>1, <3>2 DEF InterveneCancel, RowOK
    <2>2. CASE InterveneComplete(r)
      BY <2>2 DEF InterveneComplete
    <2> QED
      BY <2>1, <2>2 DEF Admin
  <1>4. /\ ride' \in [Rides -> Row] /\ ride'[r].status = to
        /\ ride'[r].fare = ride[r].fare /\ ride'[r].by = ride[r].by
        /\ ride'[r].final = ride[r].final
        /\ \A s \in Rides \ {r} : ride'[s] = ride[s]
    <2>1. to \in Status
      BY DEF Status
    <2> QED
      BY <1>1, <1>2, <2>1, StatusSet
  <1>5. call' = call /\ charge' = charge /\ finalizer' = finalizer
    BY DEF Admin, InterveneCancel, InterveneComplete, money, timers
  <1>6. TypeOK'
    BY <1>1, <1>4 DEF Admin, InterveneCancel, InterveneComplete, TypeOK,
       cache, money, tally, timers
  <1>7. Rank(to) = 6 /\ Rank(ride[r].status) < 6
    BY <1>3, NoneFacts DEF Rank, Status
  <1>8. RowAdvances(r)
    BY <1>3, <1>4, <1>7 DEF RowAdvances
  <1>9. RowOK(r)'
    <2>1. to = "COMPLETED" => ride[r].fare # None
      BY <1>1, <1>3 DEF RowOK, Agreed
    <2>2. ~charge[r].refunded /\ ride[r].final = None /\ finalizer[r] # "settle"
      BY <1>1, <1>3 DEF RowOK
    <2>3. charge[r].deducted => ride[r].fare # None
      BY <1>1 DEF RowOK
    <2> QED
      BY <1>4, <1>5, <2>1, <2>2, <2>3, NoneFacts DEF RowOK, Agreed, Status
  <1> QED
    BY <1>4, <1>5, <1>6, <1>8, <1>9, OwnStep

\* The server dies, or looks at what it left behind.
LEMMA RestartKeeps ==
    ASSUME IInv, Crash \/ RecoveryScan
    PROVE  Kept
  <1>1. TypeOK /\ UNCHANGED <<ride, charge>>
    BY DEF IInv, Crash, RecoveryScan, money
  <1>2. CASE Crash
    <2>1. TypeOK'
      BY <1>1, <1>2 DEF Crash, TypeOK, cache, money, tally
    <2>2. \A q \in Requests : CallOK(q)'
      BY <1>2 DEF Crash, CallOK, Idle
    <2>3. \A r \in Rides : finalizer'[r] = "idle"
      BY <1>2 DEF Crash
    <2> QED
      BY <1>1, <2>1, <2>2, <2>3, QuietStep DEF Kept
  <1>3. CASE RecoveryScan
    <2>1. TypeOK'
      BY <1>1, <1>3 DEF RecoveryScan, TypeOK, cache, money, tally, timers
    <2> QED
      BY <1>1, <1>3, <2>1, QuietStep DEF Kept, RecoveryScan, timers
  <1> QED
    BY <1>2, <1>3

-----------------------------------------------------------------------------
(* The invariant and the theorems.                                         *)

\* The invariant holds of the initial states.
LEMMA InvInit == Init => IInv
  <1> SUFFICES ASSUME Init PROVE IInv
    OBVIOUS
  <1>1. TypeOK
    BY RidesAssumption DEF Init, TypeOK, Row, NoRow
  <1>2. \A r \in Rides : RowOK(r)
    BY NoneFacts DEF Init, RowOK, NoRow, Agreed, Status
  <1>3. \A p \in Requests : CallOK(p)
    BY DEF Init, CallOK, Idle
  <1> QED
    BY <1>1, <1>2, <1>3 DEF IInv

\* Every step keeps the invariant and advances every row.
LEMMA InvNext == IInv /\ [Next]_vars => Kept
  <1> SUFFICES ASSUME IInv, [Next]_vars PROVE Kept
    OBVIOUS
  <1>1. CASE UNCHANGED vars
    <2>1. TypeOK'
      BY <1>1 DEF vars, IInv, TypeOK
    <2> QED
      BY <1>1, <2>1, QuietStep DEF Kept, vars
  <1>2. ASSUME NEW p \in Requests, NEW r \in Rides, Arrival(p, r) PROVE Kept
    BY <1>2, ArrivalKeeps
  <1>3. ASSUME NEW p \in Requests, Progress(p) \/ Abort(p) PROVE Kept
    BY <1>3, ProgressKeeps, AbortKeeps
  <1>4. ASSUME NEW r \in Rides,
               Engage(r) \/ Background(r) \/ Admin(r) \/ RecoverOrphan(r)
        PROVE  Kept
    BY <1>4, EngageKeeps, QuietBackgroundKeeps, NegotiationCancelKeeps,
       PickupExpireKeeps, FinalizerKeeps, AdminKeeps
       DEF Background, NegotiationTimeout, PickupTimeout, Finalize
  <1>5. CASE Crash \/ RecoveryScan
    BY <1>5, RestartKeeps
  <1> QED
    BY <1>1, <1>2, <1>3, <1>4, <1>5 DEF Next

\* The invariant holds throughout.
LEMMA Invariance == Spec => []IInv
  <1>1. IInv /\ [Next]_vars => IInv'
    BY InvNext DEF Kept
  <1> QED
    BY InvInit, <1>1, PTL DEF Spec

\* Every variable always has its type: no handler, timer or fault leaves a
\* row, a counter or a pointer outside the values the code knows.
THEOREM TypeCorrect == Spec => []TypeOK
  <1>1. IInv => TypeOK
    BY DEF IInv
  <1> QED
    BY Invariance, <1>1, PTL

\* A ride past NEGOTIATING that was not cancelled has its fare locked, however
\* many requests race to agree on it (Accept, LockManualFare).
THEOREM AgreedFareLocked == Spec => []AgreedRideHasFare
  <1>1. IInv => AgreedRideHasFare
    BY DEF IInv, RowOK, AgreedRideHasFare
  <1> QED
    BY Invariance, <1>1, PTL

\* No credit is spent for a ride whose fare is not agreed
\* (ChargeForAgreedFare runs after the transition it depends on).
THEOREM ChargeAfterAgreement == Spec => []ChargeFollowsAgreement
  <1>1. IInv => ChargeFollowsAgreement
    BY DEF IInv, RowOK, ChargeFollowsAgreement
  <1> QED
    BY Invariance, <1>1, PTL

\* A refund is only ever made for a ride that its customer cancelled or did
\* not appear for (refundDriverCredit's callers).
THEOREM BlamelessRefund == Spec => []RefundOnlyBlameless
  <1>1. IInv => RefundOnlyBlameless
    BY DEF IInv, RowOK, RefundOnlyBlameless
  <1> QED
    BY Invariance, <1>1, PTL

\* A final fare belongs to a completed ride and is at least the agreed fare,
\* whether the driver or the finalizer completed it.
THEOREM FinalFareBounded == Spec => []FinalFareCoversAgreed
  <1>1. IInv => FinalFareCoversAgreed
    BY DEF IInv, RowOK, FinalFareCoversAgreed
  <1> QED
    BY Invariance, <1>1, PTL

\* A ride never moves back and never leaves COMPLETED or CANCELLED: the
\* compare-and-set of Transition and the guard of Cancel suffice, whatever
\* stale status a handler decided from.
THEOREM NeverBack == Spec => TripOnlyAdvances
  <1>1. IInv /\ [Next]_vars =>
            [NoRowMovesBack]_vars
    BY InvNext DEF Kept, RowAdvances, NoRowMovesBack
  <1> QED
    BY Invariance, <1>1, PTL DEF Spec, TripOnlyAdvances

\* A locked fare is never replaced (fare_locked_at IS NULL in LockFare).
THEOREM FareFinal == Spec => AgreedFareIsFinal
  <1>1. IInv /\ [Next]_vars =>
            [\A r \in Rides : ride[r].fare # None =>
                                  ride'[r].fare = ride[r].fare]_vars
    BY InvNext DEF Kept, RowAdvances
  <1> QED
    BY Invariance, <1>1, PTL DEF Spec, AgreedFareIsFinal

-----------------------------------------------------------------------------
(* Counted once, penalised once: the invariants.                           *)

\* Who has completed a ride and has still to count it ...
Counting(p) == call[p].op = "complete" /\ call[p].pc \in {"settle", "count"}
FinalizerCounting(r) == finalizer[r] \in {"settle", "count"}
\* ... and who has cancelled one and has still to be penalised.
Penalising(p) ==
    \/ call[p].op = "cancel" /\ call[p].pc \in {"refund", "release", "penalty"}
    \/ call[p].op = "driverCancel" /\ call[p].pc = "penalty"

\* The rides of a driver that are completed and that nobody has yet to count.
Counted(d) ==
    {r \in Rides : /\ DriverOf[r] = d /\ ride[r].status = "COMPLETED"
                   /\ ~FinalizerCounting(r)
                   /\ \A p \in Requests : Counting(p) => call[p].ride # r}
\* The rides a party has cancelled, and has no penalty to come for.
Blamed(u, r) == \/ CustomerOf[r] = u /\ ride[r].by = "CUSTOMER"
                \/ DriverOf[r] = u /\ ride[r].by = "DRIVER"
Penalised(u) ==
    {r \in Rides : /\ Blamed(u, r)
                   /\ \A p \in Requests : Penalising(p) => call[p].ride # r}
Engaged == {r \in Rides : ride[r].status # None}

\* A completed ride has one counter at most, and those without one suffice for
\* what was counted.
CountInv ==
    /\ \A r \in Rides : FinalizerCounting(r) => ride[r].status = "COMPLETED"
    /\ \A p \in Requests : Counting(p) =>
           /\ ride[call[p].ride].status = "COMPLETED"
           /\ ~FinalizerCounting(call[p].ride)
           /\ \A q \in Requests :
                 Counting(q) /\ call[q].ride = call[p].ride => q = p
    /\ \A d \in Drivers : totalRides[d] <= Cardinality(Counted(d))
\* The same of cancelled rides and penalties.
PenaltyInv ==
    /\ \A r \in Rides : ride[r].by # None => ride[r].status = "CANCELLED"
    /\ \A p \in Requests : Penalising(p) =>
           /\ ride[call[p].ride].by =
                  IF call[p].op = "cancel" THEN "CUSTOMER" ELSE "DRIVER"
           /\ \A q \in Requests :
                 Penalising(q) /\ call[q].ride = call[p].ride => q = p
    /\ \A u \in Customers \cup Drivers : penalties[u] <= Cardinality(Penalised(u))
\* No other operation has a penalty to record.
PenaltyPoints ==
    \A p \in Requests : call[p].pc = "penalty" => Penalising(p)
\* Finitely many rides so far, and the three invariants.
OnceInv ==
    IsFiniteSet(Engaged) /\ CountInv /\ PenaltyInv /\ PenaltyPoints

\* What was counted is what is there, and one more.
LEMMA StillEnough ==
    ASSUME NEW S, NEW T, IsFiniteSet(T), S \subseteq T, NEW n \in Nat,
           n <= Cardinality(S)
    PROVE  n <= Cardinality(T)
  <1>1. /\ IsFiniteSet(S) /\ Cardinality(S) <= Cardinality(T)
    BY FS_Subset
  <1>2. Cardinality(S) \in Nat /\ Cardinality(T) \in Nat
    BY <1>1, FS_CardinalityType
  <1> QED
    BY <1>1, <1>2

\* Likewise when one was counted and one more is there.
LEMMA OneMore ==
    ASSUME NEW S, NEW T, IsFiniteSet(T), S \subseteq T, NEW x \in T \ S,
           NEW n \in Nat, n <= Cardinality(S)
    PROVE  n + 1 <= Cardinality(T)
  <1>1. IsFiniteSet(S) /\ IsFiniteSet(S \cup {x})
    BY FS_Subset, FS_AddElement
  <1>2. Cardinality(S \cup {x}) = Cardinality(S) + 1
    BY <1>1, FS_AddElement
  <1>3. Cardinality(S) \in Nat
    BY <1>1, FS_CardinalityType
  <1>4. n + 1 \in Nat /\ n + 1 <= Cardinality(S \cup {x})
    BY <1>2, <1>3
  <1> QED
    BY <1>4, StillEnough

\* None is neither a party nor a status.
LEMMA NoneNotRole == None \notin {"CUSTOMER", "DRIVER", "CANCELLED"}
  BY RidesAssumption DEF CancelledBy, Status

\* Rows that are over stay as they are.
LEMMA OverStays ==
    ASSUME IInv, Kept, NEW r \in Rides, ride[r].status \in Terminal
    PROVE  ride'[r].status = ride[r].status
  BY AdvanceKeeps DEF Kept, IInv, RowOK

\* The rides there are: one more at most.
LEMMA EngagedStays ==
    ASSUME OnceInv, IInv, Kept, NEW r \in Rides,
           \A s \in Rides \ {r} : ride[s].status = None => ride'[s].status = None
    PROVE  IsFiniteSet(Engaged')
  <1>1. Engaged' \subseteq Engaged \cup {r}
    BY DEF Engaged
  <1>2. IsFiniteSet(Engaged \cup {r})
    BY FS_AddElement DEF OnceInv
  <1> QED
    BY <1>1, <1>2, FS_Subset

\* A step that completes no ride and counts none.
LEMMA CountStays ==
    ASSUME IInv, Kept, CountInv, IsFiniteSet(Engaged'), UNCHANGED totalRides,
           \A r \in Rides : FinalizerCounting(r)' => FinalizerCounting(r),
           \A p \in Requests : Counting(p)' =>
               Counting(p) /\ call'[p].ride = call[p].ride
    PROVE  CountInv'
  <1>0. /\ \A p \in Requests : Counting(p) => call[p].ride \in Rides
        /\ totalRides \in [Drivers -> Nat] /\ None \notin Status
        /\ {"COMPLETED", "CANCELLED"} \subseteq Terminal
    BY NoneFacts DEF IInv, TypeOK, Busy, Idle, Counting, Terminal
  <1>1. \A r \in Rides : ride[r].status = "COMPLETED" =>
            ride'[r].status = "COMPLETED"
    BY <1>0, OverStays
  <1>2. ASSUME NEW d \in Drivers PROVE totalRides[d] <= Cardinality(Counted(d)')
    <2>1. Counted(d) \subseteq Counted(d)'
      BY <1>1 DEF Counted
    <2>2. Counted(d)' \subseteq Engaged'
      BY <1>0 DEF Counted, Engaged, Status
    <2>3. IsFiniteSet(Counted(d)')
      BY <2>2, FS_Subset
    <2> QED
      BY <1>0, <2>1, <2>3, StillEnough DEF CountInv
  <1>3. \A r \in Rides : FinalizerCounting(r)' => ride'[r].status = "COMPLETED"
    BY <1>1 DEF CountInv
  <1>4. ASSUME NEW p \in Requests, Counting(p)'
        PROVE  /\ ride'[call'[p].ride].status = "COMPLETED"
               /\ finalizer'[call'[p].ride] \notin {"settle", "count"}
               /\ \A q \in Requests :
                     Counting(q)' /\ call'[q].ride = call'[p].ride => q = p
    <2>1. Counting(p) /\ call'[p].ride = call[p].ride
      BY <1>4
    <2>2. call[p].ride \in Rides
      BY <1>0, <2>1
    <2> QED
      <3>1. /\ ride[call[p].ride].status = "COMPLETED"
            /\ ~FinalizerCounting(call[p].ride)
            /\ \A q \in Requests :
                  Counting(q) /\ call[q].ride = call[p].ride => q = p
        BY <2>1 DEF CountInv
      <3>2. finalizer'[call[p].ride] \notin {"settle", "count"}
        BY <2>2, <3>1 DEF FinalizerCounting
      <3> QED
        BY <1>1, <2>1, <2>2, <3>1, <3>2 DEF FinalizerCounting
  <1> QED
    BY <1>2, <1>3, <1>4 DEF CountInv, FinalizerCounting

\* A step that cancels no ride for a party and penalises none.
LEMMA PenaltyStays ==
    ASSUME IInv, Kept, PenaltyInv, IsFiniteSet(Engaged'), UNCHANGED penalties,
           \A r \in Rides : \/ ride'[r].by = ride[r].by
                            \/ /\ ride[r].status # "CANCELLED"
                               /\ ride'[r].status = "CANCELLED"
                               /\ ride'[r].by \notin {"CUSTOMER", "DRIVER"},
           \A p \in Requests : Penalising(p)' =>
               /\ Penalising(p)
               /\ call'[p].ride = call[p].ride /\ call'[p].op = call[p].op
    PROVE  PenaltyInv'
  <1>0. /\ \A p \in Requests : Penalising(p) => call[p].ride \in Rides
        /\ penalties \in [Customers \cup Drivers -> Nat] /\ None \notin Status
        /\ {"COMPLETED", "CANCELLED"} \subseteq Terminal
        /\ "CANCELLED" \in Status
    BY NoneFacts DEF IInv, TypeOK, Busy, Idle, Penalising, Terminal, Status
  <1>1. \A r \in Rides : ride[r].status = "CANCELLED" =>
            ride'[r].status = "CANCELLED"
    BY <1>0, OverStays
  <1>2. \A r \in Rides : ride[r].by # None =>
            ride'[r].status = "CANCELLED" /\ ride'[r].by = ride[r].by
    BY <1>1 DEF PenaltyInv
  <1>3. \A r \in Rides : ride'[r].by # None => ride'[r].status = "CANCELLED"
    BY <1>2
  <1>4. ASSUME NEW u \in Customers \cup Drivers
        PROVE  penalties[u] <= Cardinality(Penalised(u)')
    <2>1. Penalised(u) \subseteq Penalised(u)'
      <3> SUFFICES ASSUME NEW r \in Penalised(u) PROVE r \in Penalised(u)'
        OBVIOUS
      <3>1. r \in Rides /\ ride[r].by \in {"CUSTOMER", "DRIVER"} /\ Blamed(u, r)
        BY DEF Penalised, Blamed
      <3>2. ride'[r].by = ride[r].by
        BY <1>2, <3>1, NoneNotRole
      <3> QED
        BY <3>1, <3>2 DEF Penalised, Blamed
    <2>2. Penalised(u)' \subseteq Engaged'
      BY <1>0, <1>3, NoneNotRole DEF Penalised, Blamed, Engaged
    <2>3. IsFiniteSet(Penalised(u)')
      BY <2>2, FS_Subset
    <2> QED
      BY <1>0, <2>1, <2>3, StillEnough DEF PenaltyInv
  <1>5. ASSUME NEW p \in Requests, Penalising(p)'
        PROVE  /\ ride'[call'[p].ride].by =
                      IF call'[p].op = "cancel" THEN "CUSTOMER" ELSE "DRIVER"
               /\ \A q \in Requests :
                     Penalising(q)' /\ call'[q].ride = call'[p].ride => q = p
    <2>1. /\ Penalising(p) /\ call'[p].ride = call[p].ride
          /\ call'[p].op = call[p].op
      BY <1>5
    <2>2. call[p].ride \in Rides
      BY <1>0, <2>1
    <2>3. ride'[call[p].ride].by = ride[call[p].ride].by
      BY <1>2, <2>1, <2>2, NoneNotRole DEF PenaltyInv
    <2> QED
      BY <2>1, <2>2, <2>3 DEF PenaltyInv
  <1> QED
    BY <1>3, <1>4, <1>5 DEF PenaltyInv

\* A ride comes to have somebody who will count it ...
LEMMA CompletesOnce ==
    ASSUME IInv, Kept, CountInv, IsFiniteSet(Engaged'), UNCHANGED totalRides,
           NEW r \in Rides, ride[r].status # "COMPLETED",
           ride'[r].status = "COMPLETED",
           \A s \in Rides \ {r} : FinalizerCounting(s)' => FinalizerCounting(s),
           \A p \in Requests :
               Counting(p)' /\ call'[p].ride # r =>
                   Counting(p) /\ call'[p].ride = call[p].ride,
           \A p, q \in Requests :
               /\ Counting(p)' /\ call'[p].ride = r
               => /\ ~FinalizerCounting(r)'
                  /\ Counting(q)' /\ call'[q].ride = r => q = p
    PROVE  CountInv'
  <1>0. /\ \A p \in Requests : Counting(p) => call[p].ride \in Rides \ {r}
        /\ totalRides \in [Drivers -> Nat] /\ None \notin Status
        /\ {"COMPLETED", "CANCELLED"} \subseteq Terminal
    BY NoneFacts DEF IInv, TypeOK, Busy, Idle, Counting, Terminal, CountInv
  <1>1. \A s \in Rides : ride[s].status = "COMPLETED" =>
            ride'[s].status = "COMPLETED"
    BY <1>0, OverStays
  <1>2. ASSUME NEW d \in Drivers PROVE totalRides[d] <= Cardinality(Counted(d)')
    <2>1. Counted(d) \subseteq Counted(d)'
      BY <1>0, <1>1 DEF Counted
    <2>2. Counted(d)' \subseteq Engaged'
      BY <1>0 DEF Counted, Engaged, Status
    <2>3. IsFiniteSet(Counted(d)')
      BY <2>2, FS_Subset
    <2> QED
      BY <1>0, <2>1, <2>3, StillEnough DEF CountInv
  <1>3. \A s \in Rides : FinalizerCounting(s)' => ride'[s].status = "COMPLETED"
    BY <1>1 DEF CountInv
  <1>4. ASSUME NEW p \in Requests, Counting(p)'
        PROVE  /\ ride'[call'[p].ride].status = "COMPLETED"
               /\ finalizer'[call'[p].ride] \notin {"settle", "count"}
               /\ \A q \in Requests :
                     Counting(q)' /\ call'[q].ride = call'[p].ride => q = p
    <2>1. CASE call'[p].ride = r
      BY <1>4, <2>1 DEF FinalizerCounting
    <2>2. CASE call'[p].ride # r
      <3>1. /\ Counting(p) /\ call'[p].ride = call[p].ride
            /\ call[p].ride \in Rides \ {r}
        BY <1>0, <1>4, <2>2
      <3>2. /\ ride[call[p].ride].status = "COMPLETED"
            /\ ~FinalizerCounting(call[p].ride)
            /\ \A q \in Requests :
                  Counting(q) /\ call[q].ride = call[p].ride => q = p
        BY <3>1 DEF CountInv
      <3>3. finalizer'[call[p].ride] \notin {"settle", "count"}
        BY <3>1, <3>2 DEF FinalizerCounting
      <3>4. \A q \in Requests :
                Counting(q)' /\ call'[q].ride = call'[p].ride => q = p
        BY <2>2, <3>1, <3>2
      <3> QED
        BY <1>1, <3>1, <3>2, <3>3, <3>4
    <2> QED
      BY <2>1, <2>2
  <1> QED
    BY <1>2, <1>3, <1>4 DEF CountInv, FinalizerCounting

\* ... who counts it, once.
LEMMA CountsOnce ==
    ASSUME IInv, Kept, CountInv, IsFiniteSet(Engaged'),
           NEW r \in Rides, ride[r].status = "COMPLETED",
           FinalizerCounting(r) \/ \E p \in Requests :
                                      Counting(p) /\ call[p].ride = r,
           totalRides' = [totalRides EXCEPT ![DriverOf[r]] = @ + 1],
           \A s \in Rides : FinalizerCounting(s)' => FinalizerCounting(s) /\ s # r,
           \A p \in Requests : Counting(p)' =>
               /\ Counting(p) /\ call'[p].ride = call[p].ride
               /\ call[p].ride # r
    PROVE  CountInv'
  <1>0. /\ \A p \in Requests : Counting(p) => call[p].ride \in Rides
        /\ totalRides \in [Drivers -> Nat] /\ None \notin Status
        /\ {"COMPLETED", "CANCELLED"} \subseteq Terminal
        /\ DriverOf[r] \in Drivers
    BY NoneFacts, RidesAssumption
       DEF IInv, TypeOK, Busy, Idle, Counting, Terminal, CountInv
  <1>1. \A s \in Rides : ride[s].status = "COMPLETED" =>
            ride'[s].status = "COMPLETED"
    BY <1>0, OverStays
  <1>2. ASSUME NEW d \in Drivers PROVE totalRides'[d] <= Cardinality(Counted(d)')
    <2>1. Counted(d) \subseteq Counted(d)'
      BY <1>0, <1>1 DEF Counted
    <2>2. Counted(d)' \subseteq Engaged'
      BY <1>0 DEF Counted, Engaged, Status
    <2>3. IsFiniteSet(Counted(d)')
      BY <2>2, FS_Subset
    <2>4. totalRides[d] <= Cardinality(Counted(d)) /\ totalRides[d] \in Nat
      BY <1>0 DEF CountInv
    <2>5. CASE d = DriverOf[r]
      <3>1. r \in Counted(d)' \ Counted(d)
        BY <1>1, <2>5 DEF Counted
      <3>2. totalRides'[d] = totalRides[d] + 1
        BY <1>0, <2>5
      <3> QED
        BY <2>1, <2>3, <2>4, <3>1, <3>2, OneMore
    <2>6. CASE d # DriverOf[r]
      <3>1. totalRides'[d] = totalRides[d]
        BY <1>0, <2>6
      <3> QED
        BY <2>1, <2>3, <2>4, <3>1, StillEnough
    <2> QED
      BY <2>5, <2>6
  <1>3. \A s \in Rides : FinalizerCounting(s)' => ride'[s].status = "COMPLETED"
    BY <1>1 DEF CountInv
  <1>4. ASSUME NEW p \in Requests, Counting(p)'
        PROVE  /\ ride'[call'[p].ride].status = "COMPLETED"
               /\ finalizer'[call'[p].ride] \notin {"settle", "count"}
               /\ \A q \in Requests :
                     Counting(q)' /\ call'[q].ride = call'[p].ride => q = p
    <2>1. Counting(p) /\ call'[p].ride = call[p].ride /\ call[p].ride \in Rides
      BY <1>0, <1>4
    <2>2. /\ ride[call[p].ride].status = "COMPLETED"
          /\ ~FinalizerCounting(call[p].ride)
          /\ \A q \in Requests :
                Counting(q) /\ call[q].ride = call[p].ride => q = p
      BY <2>1 DEF CountInv
    <2>3. finalizer'[call[p].ride] \notin {"settle", "count"}
      BY <2>1, <2>2 DEF FinalizerCounting
    <2> QED
      BY <1>1, <2>1, <2>2, <2>3
  <1> QED
    BY <1>2, <1>3, <1>4 DEF CountInv, FinalizerCounting

\* A party cancels a live ride, and its penalty is to come ...
LEMMA BlamesOnce ==
    ASSUME IInv, Kept, PenaltyInv, IsFiniteSet(Engaged'), UNCHANGED penalties,
           NEW r \in Rides, ride[r].status # "CANCELLED",
           ride'[r].status = "CANCELLED",
           \A s \in Rides \ {r} : ride'[s].by = ride[s].by,
           NEW p \in Requests, call'[p].ride = r,
           Penalising(p)' => ride'[r].by =
               IF call'[p].op = "cancel" THEN "CUSTOMER" ELSE "DRIVER",
           \A q \in Requests \ {p} : call'[q] = call[q]
    PROVE  PenaltyInv'
  <1>0. /\ \A q \in Requests : Penalising(q) => call[q].ride \in Rides \ {r}
        /\ penalties \in [Customers \cup Drivers -> Nat] /\ None \notin Status
        /\ {"COMPLETED", "CANCELLED"} \subseteq Terminal
        /\ "CANCELLED" \in Status
        /\ \A q \in Requests \ {p} : Penalising(q)' <=> Penalising(q)
    BY NoneFacts, NoneNotRole
       DEF IInv, TypeOK, Busy, Idle, Penalising, Terminal, Status, PenaltyInv
  <1>1. \A s \in Rides : ride[s].status = "CANCELLED" =>
            ride'[s].status = "CANCELLED"
    BY <1>0, OverStays
  <1>2. \A s \in Rides : ride[s].by # None => s # r /\ ride'[s].by = ride[s].by
    BY DEF PenaltyInv
  <1>3. \A s \in Rides : ride'[s].by # None => ride'[s].status = "CANCELLED"
    BY <1>1, <1>2 DEF PenaltyInv
  <1>4. ASSUME NEW u \in Customers \cup Drivers
        PROVE  penalties[u] <= Cardinality(Penalised(u)')
    <2>1. Penalised(u) \subseteq Penalised(u)'
      <3> SUFFICES ASSUME NEW s \in Penalised(u) PROVE s \in Penalised(u)'
        OBVIOUS
      <3>1. s \in Rides /\ ride[s].by \in {"CUSTOMER", "DRIVER"} /\ Blamed(u, s)
        BY DEF Penalised, Blamed
      <3>2. ride'[s].by = ride[s].by /\ s # r
        BY <1>2, <3>1, NoneNotRole
      <3> QED
        BY <1>0, <3>1, <3>2 DEF Penalised, Blamed
    <2>2. Penalised(u)' \subseteq Engaged'
      BY <1>0, <1>3, NoneNotRole DEF Penalised, Blamed, Engaged
    <2>3. IsFiniteSet(Penalised(u)')
      BY <2>2, FS_Subset
    <2> QED
      BY <1>0, <2>1, <2>3, StillEnough DEF PenaltyInv
  <1>5. ASSUME NEW q \in Requests \ {p}, Penalising(q)'
        PROVE  /\ ride'[call'[q].ride].by =
                      IF call'[q].op = "cancel" THEN "CUSTOMER" ELSE "DRIVER"
               /\ call'[q].ride # r
               /\ \A o \in Requests \ {p} :
                     Penalising(o)' /\ call'[o].ride = call'[q].ride => o = q
    <2>1. Penalising(q) /\ call'[q] = call[q] /\ call[q].ride \in Rides \ {r}
      BY <1>0, <1>5
    <2> QED
      BY <1>0, <2>1 DEF PenaltyInv
  <1> QED
    BY <1>3, <1>4, <1>5 DEF PenaltyInv

\* ... and comes, once.
LEMMA PenalisesOnce ==
    ASSUME IInv, Kept, PenaltyInv, IsFiniteSet(Engaged'), UNCHANGED ride,
           NEW p \in Requests, Penalising(p),
           NEW u \in Customers \cup Drivers, Blamed(u, call[p].ride),
           penalties' = [penalties EXCEPT ![u] = @ + 1],
           ~Penalising(p)', \A q \in Requests \ {p} : call'[q] = call[q]
    PROVE  PenaltyInv'
  <1> DEFINE r == call[p].ride
  <1>0. /\ \A q \in Requests : Penalising(q) => call[q].ride \in Rides
        /\ penalties \in [Customers \cup Drivers -> Nat] /\ None \notin Status
        /\ "CANCELLED" \in Status
        /\ \A q \in Requests \ {p} : Penalising(q)' <=> Penalising(q)
    BY NoneFacts DEF IInv, TypeOK, Busy, Idle, Penalising, Status
  <1>1. ASSUME NEW v \in Customers \cup Drivers
        PROVE  penalties'[v] <= Cardinality(Penalised(v)')
    <2>1. Penalised(v) \subseteq Penalised(v)'
      BY <1>0 DEF Penalised, Blamed
    <2>2. Penalised(v)' \subseteq Engaged'
      BY <1>0, NoneNotRole DEF Penalised, Blamed, Engaged, PenaltyInv
    <2>3. IsFiniteSet(Penalised(v)')
      BY <2>2, FS_Subset
    <2>4. penalties[v] <= Cardinality(Penalised(v)) /\ penalties[v] \in Nat
      BY <1>0 DEF PenaltyInv
    <2>5. CASE v = u
      <3>1. \A q \in Requests \ {p} : Penalising(q) => call[q].ride # r
        BY DEF PenaltyInv
      <3>2. r \in Penalised(v)' \ Penalised(v)
        BY <1>0, <2>5, <3>1 DEF Penalised, Blamed
      <3>3. penalties'[v] = penalties[v] + 1
        BY <1>0, <2>5
      <3> QED
        BY <2>1, <2>3, <2>4, <3>2, <3>3, OneMore
    <2>6. CASE v # u
      <3>1. penalties'[v] = penalties[v]
        BY <1>0, <2>6
      <3> QED
        BY <2>1, <2>3, <2>4, <3>1, StillEnough
    <2> QED
      BY <2>5, <2>6
  <1>2. ASSUME NEW q \in Requests, Penalising(q)'
        PROVE  /\ q # p /\ Penalising(q) /\ call'[q] = call[q]
    BY <1>0, <1>2
  <1> QED
    BY <1>1, <1>2 DEF PenaltyInv

\* A step that does none of these.
LEMMA OnceStays ==
    ASSUME IInv, Kept, OnceInv, UNCHANGED tally,
           \A r \in Rides : ride[r].status = None => ride'[r].status = None,
           \A r \in Rides : FinalizerCounting(r)' => FinalizerCounting(r),
           \A r \in Rides : \/ ride'[r].by = ride[r].by
                            \/ /\ ride[r].status # "CANCELLED"
                               /\ ride'[r].status = "CANCELLED"
                               /\ ride'[r].by \notin {"CUSTOMER", "DRIVER"},
           \A p \in Requests : Counting(p)' =>
               Counting(p) /\ call'[p].ride = call[p].ride,
           \A p \in Requests : Penalising(p)' =>
               /\ Penalising(p)
               /\ call'[p].ride = call[p].ride /\ call'[p].op = call[p].op,
           PenaltyPoints'
    PROVE  OnceInv'
  <1>1. Engaged' \subseteq Engaged
    BY DEF Engaged
  <1>2. IsFiniteSet(Engaged')
    BY <1>1, FS_Subset DEF OnceInv
  <1>3. UNCHANGED totalRides /\ UNCHANGED penalties
    BY DEF tally
  <1>4. CountInv'
    BY <1>2, <1>3, CountStays DEF OnceInv
  <1>5. PenaltyInv'
    BY <1>2, <1>3, PenaltyStays DEF OnceInv
  <1> QED
    BY <1>2, <1>4, <1>5 DEF OnceInv

\* A request ends, or goes on to a statement that owes nothing it did not owe.
LEMMA CallOwesNoMore ==
    ASSUME IInv, OnceInv, NEW p \in Requests,
           \/ Return(p)
           \/ /\ call[p] # Idle
              /\ \E pc \in Points :
                    /\ GoTo(p, pc)
                    /\ pc \in {"settle", "count", "refund", "release", "penalty"}
                          => \/ /\ call[p].op \notin {"complete", "cancel",
                                                      "driverCancel"}
                                /\ pc # "penalty"
                             \/ Counting(p) /\ pc \in {"settle", "count"}
                             \/ /\ Penalising(p) /\ call[p].op = "cancel"
                                /\ pc \in {"refund", "release", "penalty"}
                             \/ call[p].op = "driverCancel" /\ pc = "release"
    PROVE  /\ \A q \in Requests : Counting(q)' =>
                  Counting(q) /\ call'[q].ride = call[q].ride
           /\ \A q \in Requests : Penalising(q)' =>
                  /\ Penalising(q)
                  /\ call'[q].ride = call[q].ride /\ call'[q].op = call[q].op
           /\ PenaltyPoints'
  <1>1. TypeOK
    BY DEF IInv
  <1>2. CASE Return(p)
    <2>1. call'[p] = Idle /\ \A q \in Requests \ {p} : call'[q] = call[q]
      BY <1>1, <1>2, Returns
    <2> QED
      BY <2>1 DEF Counting, Penalising, Idle, OnceInv, PenaltyPoints
  <1>3. ASSUME call[p] # Idle, NEW pc \in Points, GoTo(p, pc),
               pc \in {"settle", "count", "refund", "release", "penalty"}
                   => \/ /\ call[p].op \notin {"complete", "cancel", "driverCancel"}
                         /\ pc # "penalty"
                      \/ Counting(p) /\ pc \in {"settle", "count"}
                      \/ /\ Penalising(p) /\ call[p].op = "cancel"
                         /\ pc \in {"refund", "release", "penalty"}
                      \/ call[p].op = "driverCancel" /\ pc = "release"
        PROVE  /\ \A q \in Requests : Counting(q)' =>
                      Counting(q) /\ call'[q].ride = call[q].ride
               /\ \A q \in Requests : Penalising(q)' =>
                      /\ Penalising(q)
                      /\ call'[q].ride = call[q].ride /\ call'[q].op = call[q].op
               /\ PenaltyPoints'
    <2>1. /\ call'[p].op = call[p].op /\ call'[p].pc = pc
          /\ call'[p].ride = call[p].ride
          /\ \A q \in Requests \ {p} : call'[q] = call[q]
      BY <1>1, <1>3, Goes
    <2> QED
      BY <1>3, <2>1 DEF Counting, Penalising, OnceInv, PenaltyPoints
  <1> QED
    BY <1>2, <1>3

\* Transitions that complete nothing.
LEMMA TransitionsOnce ==
    ASSUME IInv, Kept, OnceInv, NEW p \in Requests,
           \/ AgreeConfirm(p) \/ EnRouteWrite(p) \/ ArriveAdvance(p)
           \/ ArriveWrite(p) \/ StartWrite(p)
    PROVE  OnceInv'
  <1>1. PICK from \in {"NEGOTIATING", "CONFIRMED", "DRIVER_EN_ROUTE",
                       "DRIVER_ARRIVED"},
             to \in {"CONFIRMED", "DRIVER_EN_ROUTE", "DRIVER_ARRIVED",
                     "IN_PROGRESS"},
             pc \in {"guard", "key", "advanceKey", "stamp"} :
          \/ Transition(call[p].ride, from, to) /\ GoTo(p, pc)
          \/ Return(p) /\ UNCHANGED ride
    BY DEF AgreeConfirm, EnRouteWrite, ArriveAdvance, ArriveWrite, StartWrite,
           TransitionOrReturn
  <1>2. /\ call[p].op \in {"agree", "enRoute", "arrive", "start"}
        /\ UNCHANGED tally /\ UNCHANGED finalizer
    BY DEF AgreeConfirm, EnRouteWrite, ArriveAdvance, ArriveWrite, StartWrite,
           At, timers
  <1>3. call[p] # Idle /\ call[p].ride \in Rides /\ TypeOK
    BY <1>2, Acting
  <1>4. \A r \in Rides : /\ ride[r].status = None => ride'[r].status = None
                         /\ ride'[r].by = ride[r].by
    <2>1. CASE UNCHANGED ride
      BY <2>1
    <2>2. CASE Transition(call[p].ride, from, to)
      <3>1. /\ ride[call[p].ride].status # None /\ to \in Status
            /\ ride' = [ride EXCEPT ![call[p].ride].status = to]
        BY <2>2, NoneFacts DEF Transition, Status
      <3> QED
        BY <1>3, <3>1, StatusSet
    <2> QED
      BY <1>1, <2>1, <2>2
  <1>5. \/ Return(p)
        \/ /\ call[p] # Idle
           /\ \E to_ \in Points :
                 /\ GoTo(p, to_)
                 /\ to_ \notin {"settle", "count", "refund", "release", "penalty"}
    BY <1>1, <1>3 DEF Points
  <1> QED
    BY <1>2, <1>4, <1>5, CallOwesNoMore, OnceStays DEF FinalizerCounting

\* The statements that leave the row's status and its canceller alone.
LEMMA HandlersOnce ==
    ASSUME IInv, Kept, OnceInv, NEW p \in Requests,
           \/ AgreeLock(p) \/ ChargeGuard(p) \/ ChargeDeduct(p) \/ AgreeDisarm(p)
           \/ CancelRefund(p) \/ CancelRelease(p)
           \/ ArriveStamp(p) \/ ArriveArm(p) \/ StartStamp(p) \/ WriteKey(p)
           \/ CompleteSettle(p) \/ CompleteFree(p)
    PROVE  OnceInv'
  <1>1. UNCHANGED tally /\ UNCHANGED finalizer
    BY DEF AgreeLock, ChargeGuard, ChargeDeduct, AgreeDisarm, CancelRefund,
           CancelRelease, ArriveStamp, ArriveArm, StartStamp, WriteKey,
           CompleteSettle, CompleteFree, timers
  <1>2. call[p] # Idle
    BY DEF AgreeLock, ChargeGuard, ChargeDeduct, AgreeDisarm, CancelRefund,
           CancelRelease, ArriveStamp, ArriveArm, StartStamp, WriteKey,
           CompleteSettle, CompleteFree, At, Idle
  <1>3. call[p] \in Busy /\ call[p].ride \in Rides /\ TypeOK
    BY <1>2 DEF IInv, TypeOK, Busy
  <1>4. \A r \in Rides : /\ ride'[r].status = ride[r].status
                         /\ ride'[r].by = ride[r].by
    <2>1. \/ UNCHANGED ride
          \/ \E v : \/ ride' = [ride EXCEPT ![call[p].ride].fare = v]
                   \/ ride' = [ride EXCEPT ![call[p].ride].arrived = v]
                   \/ ride' = [ride EXCEPT ![call[p].ride].started = v]
                   \/ ride' = [ride EXCEPT ![call[p].ride].final = v]
      BY DEF AgreeLock, ChargeGuard, ChargeDeduct, AgreeDisarm, CancelRefund,
             CancelRelease, ArriveStamp, ArriveArm, StartStamp, WriteKey,
             CompleteSettle, CompleteFree
    <2>2. ride \in [Rides -> Row]
      BY <1>3 DEF TypeOK
    <2>3. ASSUME NEW r \in Rides
          PROVE  \/ ride'[r] = ride[r]
                 \/ \E v : \/ ride'[r] = [ride[r] EXCEPT !.fare = v]
                          \/ ride'[r] = [ride[r] EXCEPT !.arrived = v]
                          \/ ride'[r] = [ride[r] EXCEPT !.started = v]
                          \/ ride'[r] = [ride[r] EXCEPT !.final = v]
      BY <1>3, <2>1, <2>2
    <2> SUFFICES ASSUME NEW r \in Rides
                 PROVE  /\ ride'[r].status = ride[r].status
                        /\ ride'[r].by = ride[r].by
      OBVIOUS
    <2>4. CASE ride'[r] = ride[r]
      BY <2>4
    <2>5. ASSUME NEW v,
                 \/ ride'[r] = [ride[r] EXCEPT !.fare = v]
                 \/ ride'[r] = [ride[r] EXCEPT !.arrived = v]
                 \/ ride'[r] = [ride[r] EXCEPT !.started = v]
                 \/ ride'[r] = [ride[r] EXCEPT !.final = v]
          PROVE  /\ ride'[r].status = ride[r].status
                 /\ ride'[r].by = ride[r].by
      <3>1. ride[r] \in Row
        BY <2>2
      <3> QED
        BY ONLY <2>5, <3>1 DEF Row
    <2> QED
      BY <2>3, <2>4, <2>5
  <1>5. \/ Return(p)
        \/ \E pc \in Points :
              /\ GoTo(p, pc)
              /\ pc \in {"settle", "count", "refund", "release", "penalty"}
                    => \/ /\ call[p].op \notin {"complete", "cancel", "driverCancel"}
                          /\ pc # "penalty"
                       \/ Counting(p) /\ pc \in {"settle", "count"}
                       \/ /\ Penalising(p) /\ call[p].op = "cancel"
                          /\ pc \in {"refund", "release", "penalty"}
    <2>1. CASE AgreeLock(p) \/ ChargeGuard(p) \/ ChargeDeduct(p) \/ AgreeDisarm(p)
      BY <2>1 DEF AgreeLock, ChargeGuard, ChargeDeduct, AgreeDisarm, At, Points
    <2>2. CASE CancelRefund(p) \/ CancelRelease(p)
      BY <2>2 DEF CancelRefund, CancelRelease, At, Points, Penalising
    <2>3. CASE \/ ArriveStamp(p) \/ ArriveArm(p) \/ StartStamp(p)
               \/ CompleteSettle(p) \/ CompleteFree(p)
      BY <2>3 DEF ArriveStamp, ArriveArm, StartStamp, CompleteSettle,
                  CompleteFree, At, Points, Counting
    <2>4. CASE WriteKey(p)
      BY <2>4 DEF WriteKey, At, Points
    <2> QED
      BY <2>1, <2>2, <2>3, <2>4
  <1> QED
    BY <1>1, <1>2, <1>4, <1>5, CallOwesNoMore, OnceStays DEF FinalizerCounting

\* A completion by the driver: the ride is theirs to count, and they count it.
LEMMA CompletionsOnce ==
    ASSUME IInv, Kept, OnceInv, NEW p \in Requests,
           CompleteWrite(p) \/ CompleteCount(p)
    PROVE  OnceInv'
  <1> DEFINE r == call[p].ride
  <1>1. /\ call[p].op = "complete" /\ UNCHANGED <<finalizer, penalties>>
    BY DEF CompleteWrite, CompleteCount, At, timers, tally
  <1>2. call[p] # Idle /\ r \in Rides /\ TypeOK
    BY <1>1, Acting
  <1>3. CASE CompleteWrite(p) /\ Return(p)
    <2>1. UNCHANGED <<ride, finalizer>> /\ UNCHANGED tally
      <3>1. "settle" # "idle" /\ call'[p].pc # "settle"
        BY <1>2, <1>3, Returns DEF Idle
      <3>2. ~GoTo(p, "settle")
        BY <1>2, <3>1, Goes DEF Points
      <3> QED
        BY <1>1, <1>3, <3>2 DEF CompleteWrite, TransitionOrReturn
    <2> QED
      BY <1>3, <2>1, CallOwesNoMore, OnceStays DEF FinalizerCounting
  <1>4. CASE CompleteWrite(p) /\ GoTo(p, "settle")
    <2>1. Transition(r, "IN_PROGRESS", "COMPLETED") /\ UNCHANGED tally
      <3>1. ~Return(p)
        <4>1. call'[p].pc = "settle"
          BY <1>2, <1>4, Goes DEF Points
        <4> QED
          BY <1>2, <4>1, Returns DEF Idle
      <3> QED
        BY <1>4, <3>1 DEF CompleteWrite, TransitionOrReturn
    <2>2. /\ ride[r].status = "IN_PROGRESS" /\ ride'[r].status = "COMPLETED"
          /\ \A s \in Rides : ride'[s].by = ride[s].by
          /\ \A s \in Rides \ {r} : ride'[s] = ride[s]
      BY <1>2, <2>1, StatusSet DEF Transition, Status
    <2>3. /\ call'[p].op = "complete" /\ call'[p].ride = r
          /\ \A q \in Requests \ {p} : call'[q] = call[q]
      BY <1>1, <1>2, <1>4, Goes DEF Points
    <2>4. IsFiniteSet(Engaged')
      <3>1. Engaged' \subseteq Engaged
        BY <2>2, NoneFacts DEF Engaged, Status
      <3> QED
        BY <3>1, FS_Subset DEF OnceInv
    <2>5. PenaltyInv'
      <3>1. \A q \in Requests : Penalising(q)' =>
                /\ Penalising(q)
                /\ call'[q].ride = call[q].ride /\ call'[q].op = call[q].op
        BY <2>3 DEF Penalising
      <3> QED
        BY <1>1, <2>2, <2>4, <3>1, PenaltyStays DEF OnceInv
    <2>6. CountInv'
      <3>1. /\ ~FinalizerCounting(r)
            /\ \A q \in Requests : Counting(q) => call[q].ride # r
        BY <1>2, <2>2 DEF OnceInv, CountInv
      <3>2. finalizer' = finalizer /\ totalRides' = totalRides
        BY <1>1, <2>1 DEF tally
      <3> HIDE DEF r
      <3>3. \A q \in Requests \ {p} : Counting(q)' <=> Counting(q)
        BY <2>3 DEF Counting
      <3> QED
        BY <1>2, <2>2, <2>3, <2>4, <3>1, <3>2, <3>3, CompletesOnce
           DEF OnceInv, FinalizerCounting
    <2>7. PenaltyPoints'
      BY <1>4, <2>3, Goes, <1>2 DEF OnceInv, PenaltyPoints, Penalising, Points
    <2> QED
      BY <2>4, <2>5, <2>6, <2>7 DEF OnceInv
  <1>5. CASE CompleteCount(p)
    <2>1. /\ totalRides' = [totalRides EXCEPT ![DriverOf[r]] = @ + 1]
          /\ GoTo(p, "free") /\ UNCHANGED ride /\ Counting(p)
      BY <1>5 DEF CompleteCount, At, Counting
    <2>2. /\ call'[p].op = "complete" /\ call'[p].ride = r /\ call'[p].pc = "free"
          /\ \A q \in Requests \ {p} : call'[q] = call[q]
      BY <1>1, <1>2, <2>1, Goes DEF Points
    <2>3. IsFiniteSet(Engaged')
      BY <2>1 DEF OnceInv, Engaged
    <2>4. PenaltyInv'
      <3>1. \A q \in Requests : Penalising(q)' =>
                /\ Penalising(q)
                /\ call'[q].ride = call[q].ride /\ call'[q].op = call[q].op
        BY <2>2 DEF Penalising
      <3> QED
        BY <1>1, <2>1, <2>3, <3>1, PenaltyStays DEF OnceInv
    <2>5. CountInv'
      <3>1. /\ ride[r].status = "COMPLETED" /\ ~FinalizerCounting(r)
            /\ \A q \in Requests \ {p} : Counting(q) => call[q].ride # r
        BY <2>1 DEF OnceInv, CountInv
      <3>2. \A q \in Requests : Counting(q)' =>
                q # p /\ Counting(q) /\ call'[q].ride = call[q].ride
        BY <2>2 DEF Counting
      <3> QED
        BY <1>1, <1>2, <2>1, <2>3, <3>1, <3>2, CountsOnce
           DEF OnceInv, FinalizerCounting
    <2>6. PenaltyPoints'
      BY <2>2 DEF OnceInv, PenaltyPoints, Penalising
    <2> QED
      BY <2>3, <2>4, <2>5, <2>6 DEF OnceInv
  <1> QED
    BY <1>3, <1>4, <1>5 DEF CompleteWrite, TransitionOrReturn

\* A cancellation by a party: its penalty is to come, and comes.
LEMMA CancellationsOnce ==
    ASSUME IInv, Kept, OnceInv, NEW p \in Requests,
           CancelWrite(p) \/ CancelPenalty(p)
    PROVE  OnceInv'
  <1> DEFINE r == call[p].ride
  <1>1. call[p].pc # "idle" /\ UNCHANGED <<finalizer, totalRides>>
    BY DEF CancelWrite, CancelPenalty, timers, tally
  <1>2. /\ call[p] # Idle /\ call[p] \in Busy /\ r \in Rides /\ TypeOK
        /\ CustomerOf[r] \in Customers /\ DriverOf[r] \in Drivers
    <2>1. call[p] # Idle
      BY <1>1 DEF Idle
    <2> QED
      BY <2>1, RidesAssumption DEF IInv, TypeOK, Busy
  <1>3. CASE CancelWrite(p) /\ Return(p) /\ UNCHANGED ride
    <2>1. UNCHANGED tally
      BY <1>3 DEF CancelWrite
    <2> QED
      BY <1>1, <1>3, <2>1, CallOwesNoMore, OnceStays DEF FinalizerCounting
  <1>4. CASE /\ CancelWrite(p) /\ Live(r) /\ GoTo(p, AfterCancel(call[p]))
             /\ MarkCancelled(r, Canceller(call[p]),
                    call[p].op = "cancel" /\ call[p].snap = "DRIVER_ARRIVED")
    <2>1. /\ UNCHANGED tally
          /\ call[p].op \in {"cancel", "driverCancel", "noShow"}
      BY <1>4 DEF CancelWrite
    <2>2. /\ AfterCancel(call[p]) \in {"refund", "release", "penalty"}
          /\ call[p].op = "driverCancel" => AfterCancel(call[p]) = "penalty"
          /\ call[p].op = "cancel" => Canceller(call[p]) = "CUSTOMER"
          /\ call[p].op = "driverCancel" => Canceller(call[p]) = "DRIVER"
          /\ call[p].op = "noShow" =>
                 Canceller(call[p]) \in {"NO_SHOW", "NO_SHOW_UNVERIFIED"}
      BY <2>1 DEF AfterCancel, Canceller
    <2>3. /\ call'[p].op = call[p].op /\ call'[p].ride = r
          /\ call'[p].pc \in {"refund", "release", "penalty"}
          /\ \A q \in Requests \ {p} : call'[q] = call[q]
      <3>1. AfterCancel(call[p]) \in Points
        BY <2>2 DEF Points
      <3> QED
        BY <1>2, <1>4, <2>2, <3>1, Goes
    <2>4. /\ ride[r].status \notin {None, "CANCELLED"}
          /\ ride'[r].status = "CANCELLED" /\ ride'[r].by = Canceller(call[p])
          /\ \A s \in Rides \ {r} : ride'[s] = ride[s]
      <3>1. ride \in [Rides -> Row]
        BY <1>2 DEF TypeOK
      <3> QED
        BY <1>2, <1>4, <3>1 DEF Live, Terminal, MarkCancelled, Row
    <2>5. IsFiniteSet(Engaged')
      <3>1. Engaged' \subseteq Engaged
        BY <2>4 DEF Engaged
      <3> QED
        BY <3>1, FS_Subset DEF OnceInv
    <2>6. CountInv'
      <3>1. \A q \in Requests : Counting(q)' =>
                Counting(q) /\ call'[q].ride = call[q].ride
        BY <2>1, <2>3 DEF Counting
      <3> QED
        BY <1>1, <2>5, <3>1, CountStays DEF OnceInv, FinalizerCounting
    <2>7. PenaltyInv'
      <3>1. Penalising(p)' => ride'[r].by =
                IF call'[p].op = "cancel" THEN "CUSTOMER" ELSE "DRIVER"
        BY <2>2, <2>3, <2>4 DEF Penalising
      <3>2. \A s \in Rides \ {r} : ride'[s].by = ride[s].by
        BY <2>4
      <3>3. UNCHANGED penalties
        BY <2>1 DEF tally
      <3> HIDE DEF r
      <3> QED
        BY <1>2, <2>3, <2>4, <2>5, <3>1, <3>2, <3>3, BlamesOnce DEF OnceInv
    <2>8. PenaltyPoints'
      <3>1. call'[p].pc = AfterCancel(call[p])
        BY <1>2, <1>4, <2>2, Goes DEF Points
      <3>2. call'[p].pc = "penalty" => call[p].op = "driverCancel"
        BY <2>1, <3>1 DEF AfterCancel
      <3> QED
        BY <2>3, <3>2 DEF OnceInv, PenaltyPoints, Penalising
    <2> QED
      BY <2>5, <2>6, <2>7, <2>8 DEF OnceInv
  <1>5. CASE CancelPenalty(p)
    <2>1. call[p].pc = "penalty" /\ UNCHANGED ride
      BY <1>5 DEF CancelPenalty
    <2>2. IsFiniteSet(Engaged')
      BY <2>1 DEF OnceInv, Engaged
    <2>3. CASE call[p].op = "cancel"
      <3>1. /\ penalties' = [penalties EXCEPT ![CustomerOf[r]] = @ + 1]
            /\ Return(p) /\ Penalising(p)
        BY <1>5, <2>1, <2>3 DEF CancelPenalty, Penalise, Penalising
      <3>2. call'[p] = Idle /\ \A q \in Requests \ {p} : call'[q] = call[q]
        BY <1>2, <3>1, Returns
      <3>3. CountInv'
        <4>1. \A q \in Requests : Counting(q)' =>
                  Counting(q) /\ call'[q].ride = call[q].ride
          BY <3>2 DEF Counting, Idle
        <4> QED
          BY <1>1, <2>2, <4>1, CountStays DEF OnceInv, FinalizerCounting
      <3>4. PenaltyInv'
        <4>1. Blamed(CustomerOf[r], r) /\ ~Penalising(p)'
          BY <2>3, <3>1, <3>2 DEF Blamed, OnceInv, PenaltyInv, Penalising, Idle
        <4> QED
          BY <1>2, <2>1, <2>2, <3>1, <3>2, <4>1, PenalisesOnce DEF OnceInv
      <3>5. PenaltyPoints'
        BY <3>2 DEF OnceInv, PenaltyPoints, Penalising, Idle
      <3> QED
        BY <2>2, <3>3, <3>4, <3>5 DEF OnceInv
    <2>4. CASE call[p].op = "driverCancel"
      <3>1. /\ penalties' = [penalties EXCEPT ![DriverOf[r]] = @ + 1]
            /\ GoTo(p, "release") /\ Penalising(p)
        BY <1>5, <2>1, <2>4 DEF CancelPenalty, Penalise, Penalising
      <3>2. /\ call'[p].op = "driverCancel" /\ call'[p].pc = "release"
            /\ \A q \in Requests \ {p} : call'[q] = call[q]
        BY <1>2, <2>4, <3>1, Goes DEF Points
      <3>3. CountInv'
        <4>1. \A q \in Requests : Counting(q)' =>
                  Counting(q) /\ call'[q].ride = call[q].ride
          BY <3>2 DEF Counting
        <4> QED
          BY <1>1, <2>2, <4>1, CountStays DEF OnceInv, FinalizerCounting
      <3>4. PenaltyInv'
        <4>1. Blamed(DriverOf[r], r) /\ ~Penalising(p)'
          BY <2>4, <3>1, <3>2 DEF Blamed, OnceInv, PenaltyInv, Penalising
        <4> QED
          BY <1>2, <2>1, <2>2, <3>1, <3>2, <4>1, PenalisesOnce DEF OnceInv
      <3>5. PenaltyPoints'
        BY <3>2 DEF OnceInv, PenaltyPoints, Penalising
      <3> QED
        BY <2>2, <3>3, <3>4, <3>5 DEF OnceInv
    <2> QED
      BY <2>1, <2>3, <2>4 DEF OnceInv, PenaltyPoints, Penalising
  <1> QED
    BY <1>3, <1>4, <1>5 DEF CancelWrite

\* A request that arrives, or whose context dies, owes nothing new.
LEMMA RequestsOnce ==
    ASSUME IInv, Kept, OnceInv, NEW p \in Requests,
           Abort(p) \/ \E r \in Rides : Arrival(p, r)
    PROVE  OnceInv'
  <1>1. UNCHANGED ride /\ UNCHANGED tally /\ UNCHANGED finalizer
    BY DEF Abort, Arrival, AgreeRead, CancelRead, DriverCancelRead, NoShowRead,
           EnRouteRead, ArriveRead, StartRead, CompleteRead, timers
  <1>2. CASE Abort(p)
    <2>1. call[p] # Idle /\ {"disarm", "arm"} \subseteq Points
      BY <1>2 DEF Abort, Idling, Points
    <2>2. \/ Return(p)
          \/ \E pc \in Points : GoTo(p, pc) /\ pc \in {"disarm", "arm"}
      BY <1>2, <2>1 DEF Abort
    <2> QED
      BY <1>1, <2>1, <2>2, CallOwesNoMore, OnceStays DEF FinalizerCounting
  <1>3. ASSUME NEW r \in Rides, Arrival(p, r) PROVE OnceInv'
    <2>1. \E op, arg : \E pc \in {"lock", "write", "clear", "advance"} :
              Admit(p, op, pc, r, arg)
      BY <1>3 DEF Arrival, AgreeRead, CancelRead, DriverCancelRead, NoShowRead,
                  EnRouteRead, ArriveRead, StartRead, CompleteRead
    <2>2. /\ call'[p].pc \in {"lock", "write", "clear", "advance"}
          /\ \A q \in Requests \ {p} : call'[q] = call[q]
      BY <2>1 DEF Admit, IInv, TypeOK
    <2>3. /\ \A q \in Requests : Counting(q)' =>
                 Counting(q) /\ call'[q].ride = call[q].ride
          /\ \A q \in Requests : Penalising(q)' =>
                 /\ Penalising(q)
                 /\ call'[q].ride = call[q].ride /\ call'[q].op = call[q].op
          /\ PenaltyPoints'
      BY <2>2 DEF Counting, Penalising, OnceInv, PenaltyPoints
    <2> QED
      BY <1>1, <2>3, OnceStays DEF FinalizerCounting
  <1> QED
    BY <1>2, <1>3

\* The finalizer completes a ride, and counts it.
LEMMA FinalizerOnce ==
    ASSUME IInv, Kept, OnceInv, NEW r \in Rides,
           FinalizerWrite(r) \/ FinalizerCount(r)
    PROVE  OnceInv'
  <1>1. /\ UNCHANGED call /\ UNCHANGED penalties /\ TypeOK
        /\ DriverOf[r] \in Drivers
    BY RidesAssumption DEF FinalizerWrite, FinalizerCount, tally, IInv
  <1>2. /\ \A q \in Requests : Penalising(q)' =>
               /\ Penalising(q)
               /\ call'[q].ride = call[q].ride /\ call'[q].op = call[q].op
        /\ \A q \in Requests : Counting(q)' =>
               Counting(q) /\ call'[q].ride = call[q].ride
        /\ PenaltyPoints'
    BY <1>1 DEF Counting, Penalising, OnceInv, PenaltyPoints
  <1>3. CASE FinalizerWrite(r) /\ UNCHANGED ride
    <2>1. \A s \in Rides : FinalizerCounting(s)' => FinalizerCounting(s)
      <3>1. /\ finalizer[r] = "write" /\ finalizer \in [Rides -> {"idle", "write",
                                            "settle", "count", "release"}]
        BY <1>1, <1>3 DEF FinalizerWrite, TypeOK
      <3>2. ~Transition(r, "IN_PROGRESS", "COMPLETED")
        <4>1. ASSUME Transition(r, "IN_PROGRESS", "COMPLETED") PROVE FALSE
          <5>1. /\ ride[r].status = "IN_PROGRESS"
                /\ ride' = [ride EXCEPT ![r].status = "COMPLETED"]
            BY <4>1 DEF Transition
          <5>2. ride'[r].status = "COMPLETED"
            BY <1>1, <5>1, StatusSet DEF Status
          <5> QED
            BY <1>3, <5>1, <5>2
        <4> QED
          BY <4>1
      <3>3. finalizer' = [finalizer EXCEPT ![r] = "idle"]
        BY <1>3, <3>2 DEF FinalizerWrite
      <3> QED
        BY <3>1, <3>3 DEF FinalizerCounting
    <2>2. UNCHANGED tally
      BY <1>3 DEF FinalizerWrite
    <2> QED
      BY <1>2, <1>3, <2>1, <2>2, OnceStays
  <1>4. CASE FinalizerWrite(r) /\ Transition(r, "IN_PROGRESS", "COMPLETED")
    <2>1. /\ ride[r].status = "IN_PROGRESS" /\ ride'[r].status = "COMPLETED"
          /\ \A s \in Rides : ride'[s].by = ride[s].by
          /\ \A s \in Rides \ {r} : ride'[s] = ride[s]
      BY <1>1, <1>4, StatusSet DEF Transition, Status
    <2>2. \A s \in Rides \ {r} : FinalizerCounting(s)' => FinalizerCounting(s)
      BY <1>1, <1>4 DEF FinalizerWrite, FinalizerCounting, TypeOK
    <2>3. IsFiniteSet(Engaged')
      <3>1. Engaged' \subseteq Engaged
        BY <2>1, NoneFacts DEF Engaged, Status
      <3> QED
        BY <3>1, FS_Subset DEF OnceInv
    <2>4. PenaltyInv'
      BY <1>1, <1>2, <2>1, <2>3, PenaltyStays DEF OnceInv
    <2>5. CountInv'
      <3>1. \A q \in Requests : Counting(q) => call[q].ride # r
        BY <2>1 DEF OnceInv, CountInv
      <3>2. UNCHANGED totalRides
        BY <1>4 DEF FinalizerWrite, tally
      <3>3. \A q \in Requests : Counting(q)' => call'[q].ride # r
        BY <1>2, <3>1
      <3> QED
        BY <1>2, <2>1, <2>2, <2>3, <3>2, <3>3, CompletesOnce DEF OnceInv
    <2> QED
      BY <1>2, <2>3, <2>4, <2>5 DEF OnceInv
  <1>5. CASE FinalizerCount(r)
    <2>1. /\ FinalizerCounting(r) /\ UNCHANGED ride
          /\ totalRides' = [totalRides EXCEPT ![DriverOf[r]] = @ + 1]
          /\ finalizer' = [finalizer EXCEPT ![r] = "release"]
      BY <1>5 DEF FinalizerCount, FinalizerCounting
    <2>2. IsFiniteSet(Engaged')
      BY <2>1 DEF OnceInv, Engaged
    <2>3. PenaltyInv'
      BY <1>1, <1>2, <2>1, <2>2, PenaltyStays DEF OnceInv
    <2>4. CountInv'
      <3>1. /\ ride[r].status = "COMPLETED"
            /\ \A q \in Requests : Counting(q) => call[q].ride # r
        BY <2>1 DEF OnceInv, CountInv
      <3>2. \A s \in Rides : FinalizerCounting(s)' => FinalizerCounting(s) /\ s # r
        BY <1>1, <2>1 DEF FinalizerCounting, TypeOK
      <3>3. \A q \in Requests : Counting(q)' =>
                /\ Counting(q) /\ call'[q].ride = call[q].ride
                /\ call[q].ride # r
        BY <1>2, <3>1
      <3> QED
        BY <2>1, <2>2, <3>1, <3>2, <3>3, CountsOnce DEF OnceInv
    <2> QED
      BY <1>2, <2>2, <2>3, <2>4 DEF OnceInv
  <1> QED
    BY <1>3, <1>4, <1>5 DEF FinalizerWrite

\* Bookings, timers, the rest of the finalizer, the admin, restarts.
LEMMA BackgroundOnce ==
    ASSUME IInv, Kept, OnceInv, NEW r \in Rides,
           Engage(r) \/ Background(r) \/ Admin(r) \/ RecoverOrphan(r)
    PROVE  OnceInv'
  <1>1. TypeOK /\ ride \in [Rides -> Row]
    BY DEF IInv, TypeOK
  <1>2. UNCHANGED call
    BY DEF Engage, Background, NegotiationTimeout, PickupTimeout, Finalize,
           NegotiationFires, NegotiationCancel, NegotiationRelease, PickupFires,
           PickupExpire, FinalizerSees, FinalizerWrite, FinalizerSettle,
           FinalizerCount, FinalizerRelease, KeyExpires, Admin, InterveneCancel,
           InterveneComplete, RecoverOrphan
  <1>3. /\ \A q \in Requests : Penalising(q)' =>
               /\ Penalising(q)
               /\ call'[q].ride = call[q].ride /\ call'[q].op = call[q].op
        /\ \A q \in Requests : Counting(q)' =>
               Counting(q) /\ call'[q].ride = call[q].ride
        /\ PenaltyPoints'
    BY <1>2 DEF Counting, Penalising, OnceInv, PenaltyPoints
  <1>4. CASE Engage(r)
    <2>1. /\ ride[r].by = None /\ ride' = [ride EXCEPT ![r].status = "NEGOTIATING"]
          /\ UNCHANGED finalizer /\ UNCHANGED <<totalRides, penalties>>
      BY <1>4 DEF Engage, NoRow, tally
    <2>2. /\ \A s \in Rides : ride'[s].by = ride[s].by
          /\ \A s \in Rides \ {r} : ride'[s] = ride[s]
      BY <1>1, <2>1 DEF Row
    <2>3. IsFiniteSet(Engaged')
      BY <2>2, EngagedStays
    <2>4. CountInv'
      BY <1>3, <2>1, <2>3, CountStays DEF OnceInv, FinalizerCounting
    <2>5. PenaltyInv'
      BY <1>3, <2>1, <2>2, <2>3, PenaltyStays DEF OnceInv
    <2> QED
      BY <1>3, <2>3, <2>4, <2>5 DEF OnceInv
  <1>5. CASE FinalizerWrite(r) \/ FinalizerCount(r)
    BY <1>5, FinalizerOnce
  <1>6. CASE \/ NegotiationFires(r) \/ NegotiationRelease(r) \/ PickupFires(r)
             \/ FinalizerSees(r) \/ FinalizerRelease(r)
             \/ KeyExpires(r) \/ RecoverOrphan(r)
    <2>1. /\ UNCHANGED ride /\ UNCHANGED tally
          /\ \/ UNCHANGED finalizer
             \/ finalizer' = [finalizer EXCEPT ![r] = "write"]
             \/ finalizer' = [finalizer EXCEPT ![r] = "idle"]
      BY <1>6 DEF NegotiationFires, NegotiationRelease, PickupFires,
                  FinalizerSees, FinalizerRelease, KeyExpires, RecoverOrphan,
                  timers
    <2>2. \A s \in Rides : FinalizerCounting(s)' => FinalizerCounting(s)
      BY <1>1, <2>1 DEF FinalizerCounting, TypeOK
    <2> QED
      BY <1>3, <2>1, <2>2, OnceStays
  <1>7. CASE PickupExpire(r) \/ FinalizerSettle(r)
    <2>1. /\ UNCHANGED tally
          /\ \/ UNCHANGED finalizer
             \/ /\ finalizer[r] = "settle"
                /\ finalizer' = [finalizer EXCEPT ![r] = "count"]
          /\ \/ ride' = [ride EXCEPT ![r].expired = TRUE]
             \/ ride' = [ride EXCEPT ![r].final = ride[r].fare]
      BY <1>7 DEF PickupExpire, FinalizerSettle
    <2>2. \A s \in Rides : FinalizerCounting(s)' => FinalizerCounting(s)
      BY <1>1, <2>1 DEF FinalizerCounting, TypeOK
    <2>3. \A s \in Rides : /\ ride'[s].by = ride[s].by
                           /\ ride'[s].status = ride[s].status
      BY <1>1, <2>1 DEF Row
    <2> QED
      BY <1>3, <2>1, <2>2, <2>3, OnceStays
  <1>8. CASE NegotiationCancel(r)
    <2>1. UNCHANGED finalizer /\ UNCHANGED tally
      BY <1>8 DEF NegotiationCancel
    <2>2. \A s \in Rides :
              /\ ride[s].status = None => ride'[s].status = None
              /\ \/ ride'[s].by = ride[s].by
                 \/ /\ ride[s].status # "CANCELLED"
                    /\ ride'[s].status = "CANCELLED"
                    /\ ride'[s].by \notin {"CUSTOMER", "DRIVER"}
      BY <1>1, <1>8 DEF NegotiationCancel, MarkCancelled, Row, Live, Terminal
    <2> QED
      BY <1>3, <2>1, <2>2, OnceStays DEF FinalizerCounting
  <1>9. CASE Admin(r)
    <2>1. /\ UNCHANGED finalizer /\ UNCHANGED tally /\ ride[r].status # None
          /\ \E to \in {"CANCELLED", "COMPLETED"} :
                ride' = [ride EXCEPT ![r].status = to]
      BY <1>9, NoneFacts DEF Admin, InterveneCancel, InterveneComplete, timers,
                             Status
    <2>2. \A s \in Rides : /\ ride[s].status = None => ride'[s].status = None
                           /\ ride'[s].by = ride[s].by
      BY <1>1, <2>1 DEF Row
    <2> QED
      BY <1>3, <2>1, <2>2, OnceStays DEF FinalizerCounting
  <1> QED
    BY <1>4, <1>5, <1>6, <1>7, <1>8, <1>9
       DEF Background, NegotiationTimeout, PickupTimeout, Finalize

\* A crash and a restart leave nothing half counted behind that a request owes.
LEMMA RestartOnce ==
    ASSUME IInv, Kept, OnceInv, Crash \/ RecoveryScan \/ UNCHANGED vars
    PROVE  OnceInv'
  <1>1. UNCHANGED ride /\ UNCHANGED tally
    BY DEF Crash, RecoveryScan, vars, tally
  <1>2. /\ \A q \in Requests : call'[q] = call[q] \/ call'[q] = Idle
        /\ \A s \in Rides : finalizer'[s] = finalizer[s] \/ finalizer'[s] = "idle"
    BY DEF Crash, RecoveryScan, vars, timers
  <1>3. /\ \A q \in Requests : Penalising(q)' =>
               /\ Penalising(q)
               /\ call'[q].ride = call[q].ride /\ call'[q].op = call[q].op
        /\ \A q \in Requests : Counting(q)' =>
               Counting(q) /\ call'[q].ride = call[q].ride
        /\ PenaltyPoints'
    BY <1>2 DEF Counting, Penalising, OnceInv, PenaltyPoints, Idle
  <1> QED
    BY <1>1, <1>2, <1>3, OnceStays DEF FinalizerCounting

\* Nothing is counted, and nobody penalised, twice.
LEMMA OnceInvariance == Spec => []OnceInv
  <1>1. Init => OnceInv
    <2> SUFFICES ASSUME Init PROVE OnceInv
      OBVIOUS
    <2>1. Engaged = {} /\ IsFiniteSet({})
      BY FS_EmptySet DEF Init, Engaged, NoRow
    <2>2. CountInv
      <3>1. ASSUME NEW d \in Drivers PROVE totalRides[d] <= Cardinality(Counted(d))
        <4>1. Counted(d) \subseteq Engaged
          BY NoneFacts DEF Counted, Engaged, Status
        <4>2. Counted(d) = {}
          BY <2>1, <4>1
        <4>3. Cardinality(Counted(d)) = 0
          BY <4>2, FS_EmptySet
        <4> QED
          BY <4>3 DEF Init
      <3> QED
        BY <3>1 DEF Init, CountInv, Counting, FinalizerCounting, Idle
    <2>3. PenaltyInv /\ PenaltyPoints
      <3>1. ASSUME NEW u \in Customers \cup Drivers
            PROVE  penalties[u] <= Cardinality(Penalised(u))
        <4>1. Penalised(u) = {}
          BY NoneNotRole DEF Init, Penalised, Blamed, NoRow
        <4>2. Cardinality(Penalised(u)) = 0
          BY <4>1, FS_EmptySet
        <4> QED
          BY <4>2 DEF Init
      <3> QED
        BY <3>1 DEF Init, PenaltyInv, PenaltyPoints, Penalising, Idle, NoRow
    <2> QED
      BY <2>1, <2>2, <2>3 DEF OnceInv
  <1>2. IInv /\ OnceInv /\ [Next]_vars => OnceInv'
    <2> SUFFICES ASSUME IInv, OnceInv, [Next]_vars PROVE OnceInv'
      OBVIOUS
    <2>1. Kept
      BY InvNext
    <2>2. ASSUME NEW p \in Requests, Progress(p) PROVE OnceInv'
      BY <2>1, <2>2, TransitionsOnce, HandlersOnce, CompletionsOnce,
         CancellationsOnce DEF Progress
    <2> QED
      BY <2>1, <2>2, RequestsOnce, BackgroundOnce, RestartOnce DEF Next
  <1> QED
    BY <1>1, <1>2, Invariance, PTL DEF Spec

\* A party's counter, like a driver's, is kept within what there is to count.
LEMMA OnceBounds ==
    ASSUME IInv, OnceInv
    PROVE  RideCountedOnce /\ PenalisedOnce
  <1>1. ASSUME NEW d \in Drivers
        PROVE  totalRides[d] <=
                   Cardinality({r \in Rides : /\ DriverOf[r] = d
                                              /\ ride[r].status = "COMPLETED"})
    <2> DEFINE T == {r \in Rides : /\ DriverOf[r] = d
                                   /\ ride[r].status = "COMPLETED"}
    <2>1. T \subseteq Engaged /\ Counted(d) \subseteq T
      BY NoneFacts DEF Engaged, Counted, Status
    <2>2. IsFiniteSet(T)
      BY <2>1, FS_Subset DEF OnceInv
    <2>3. totalRides[d] \in Nat /\ totalRides[d] <= Cardinality(Counted(d))
      BY DEF IInv, TypeOK, OnceInv, CountInv
    <2> QED
      BY <2>1, <2>2, <2>3, StillEnough
  <1>2. ASSUME NEW u \in Customers \cup Drivers
        PROVE  penalties[u] <=
                   Cardinality({r \in Rides : \/ /\ CustomerOf[r] = u
                                                 /\ ride[r].by = "CUSTOMER"
                                              \/ /\ DriverOf[r] = u
                                                 /\ ride[r].by = "DRIVER"})
    <2> DEFINE T == {r \in Rides : \/ /\ CustomerOf[r] = u
                                      /\ ride[r].by = "CUSTOMER"
                                   \/ /\ DriverOf[r] = u
                                      /\ ride[r].by = "DRIVER"}
    <2>1. T \subseteq Engaged /\ Penalised(u) \subseteq T
      BY NoneNotRole DEF Engaged, Penalised, Blamed, OnceInv, PenaltyInv
    <2>2. IsFiniteSet(T)
      BY <2>1, FS_Subset DEF OnceInv
    <2>3. penalties[u] \in Nat /\ penalties[u] <= Cardinality(Penalised(u))
      BY DEF IInv, TypeOK, OnceInv, PenaltyInv
    <2> QED
      BY <2>1, <2>2, <2>3, StillEnough
  <1> QED
    BY <1>1, <1>2 DEF RideCountedOnce, PenalisedOnce

\* The driver's completion, the finalizer's and the admin's race: a ride is
\* counted in total_rides at most once (CompleteRide, FinalizeStaleInProgressRides).
THEOREM CountedOnce == Spec => []RideCountedOnce
  BY OnceInvariance, Invariance, OnceBounds, PTL

\* Cancellations race, are retried and die half-way: each is penalised at most
\* once, and only the party who made it (recordCancelPenalty).
THEOREM BlamedOnce == Spec => []PenalisedOnce
  BY OnceInvariance, Invariance, OnceBounds, PTL

=============================================================================
