---------------------------- MODULE Negotiation -----------------------------
(***************************************************************************)
(* Bargaining over the fare of one ride (internal/negotiation): offers,    *)
(* answers, a fare agreed by telephone, chat, and the clock that ends a    *)
(* silent negotiation.  Reads and writes of a request are separate steps,  *)
(* and round numbers are counted, not enforced: two may be equal.          *)
(*                                                                         *)
(* A fare outside the band of its vehicle (hard bounds, and a table an      *)
(* admin may change between two requests) is refused, which changes        *)
(* nothing: any fare may be let through.  What a round was answered is     *)
(* written (SetResponse) and never read, and is left out.                  *)
(***************************************************************************)
EXTENDS Naturals, Sequences, FiniteSets, TLC, Absent

CONSTANTS
    Fares,        \* amounts offered
    Offers,       \* requests in flight
    MaxOffers     \* maxOffersPerSide

ASSUME NegotiationAssumption ==
    /\ MaxOffers \in Nat \ {0}
    /\ None \notin Fares

VARIABLES
    stage,     \* rides.status: NEGOTIATING, CONFIRMED or CANCELLED
    agreed,    \* rides.agreed_fare, with fare_locked_at; None: not locked
    rounds,    \* negotiation_rounds
    offer,     \* requests in flight
    timer,     \* the in-memory timer: "armed", "due" after five silent
               \* minutes, "firing" or "off"
    told       \* ghost: fares announced with ride_confirmed
negotiationVars ==
    <<stage, agreed, rounds, offer, timer, told>>

Sides == {"CUSTOMER", "DRIVER"}
NoOffer == [pc |-> "idle", by |-> None, fare |-> None, round |-> 0]
OfferTo(o, pc) == offer' = [offer EXCEPT ![o].pc = pc]
OfferDone(o) == offer' = [offer EXCEPT ![o] = NoOffer]
Begin_(o, pc, side, fare, round) ==
    offer' = [offer EXCEPT ![o] = [pc |-> pc, by |-> side, fare |-> fare,
                                   round |-> round]]

\* CountRoundsByRole, GetLatestRound.
CountRoundsByRole(side) ==
    Cardinality({i \in DOMAIN rounds : rounds[i].by = side})
GetLatestRound ==
    {i \in DOMAIN rounds : \A j \in DOMAIN rounds :
                               rounds[j].number <= rounds[i].number}

NegotiationInit ==
    /\ stage = "NEGOTIATING" /\ agreed = None /\ rounds = << >>
    /\ offer = [o \in Offers |-> NoOffer]
    /\ timer = "armed"
    /\ told = {}

-----------------------------------------------------------------------------
(* Propose.                                                                *)

Propose(o, side, fare) ==
    /\ offer[o] = NoOffer
    /\ stage = "NEGOTIATING"
    /\ Begin_(o, "count", side, fare, 0)
    /\ UNCHANGED <<stage, agreed, rounds, timer, told>>

\* Mutant: one offer too many.
MutProposeCount(o) ==
    /\ offer[o].pc = "count"
    /\ IF CountRoundsByRole(offer[o].by) > MaxOffers
       THEN OfferDone(o) ELSE OfferTo(o, "number")
    /\ UNCHANGED <<stage, agreed, rounds, timer, told>>

\* At the limit both sides are asked to telephone.
ProposeCount(o) ==
    /\ offer[o].pc = "count"
    /\ IF CountRoundsByRole(offer[o].by) >= MaxOffers
       THEN OfferDone(o) ELSE OfferTo(o, "number")
    /\ UNCHANGED <<stage, agreed, rounds, timer, told>>

CountRounds(o) ==
    /\ offer[o].pc = "number"
    /\ offer' = [offer EXCEPT ![o].pc = "insert", ![o].round = Len(rounds) + 1]
    /\ UNCHANGED <<stage, agreed, rounds, timer, told>>

\* ResetNegotiationTimeout after the insert: the clock starts anew, not one
\* that fired.
ResetTimeout == timer' = IF timer = "due" THEN "armed" ELSE timer

CreateRound(o) ==
    /\ offer[o].pc = "insert"
    /\ rounds' = Append(rounds, [number |-> offer[o].round, by |-> offer[o].by,
                                 fare |-> offer[o].fare])
    /\ ResetTimeout
    /\ OfferDone(o)
    /\ UNCHANGED <<stage, agreed, told>>

SendTextMessage ==
    /\ stage = "NEGOTIATING" /\ timer = "due"
    /\ ResetTimeout
    /\ UNCHANGED <<stage, agreed, rounds, offer, told>>

-----------------------------------------------------------------------------
(* Answers.                                                                *)

\* The latest round (of equal numbers, either), by the other side.
Accept(o, side) ==
    /\ offer[o] = NoOffer
    /\ stage = "NEGOTIATING"
    /\ \E i \in GetLatestRound :
          /\ rounds[i].by # side
          /\ Begin_(o, "lock", side, rounds[i].fare, 0)
    /\ UNCHANGED <<stage, agreed, rounds, timer, told>>

\* The driver types in what was agreed by telephone.
LockManualFare(o, fare) ==
    /\ offer[o] = NoOffer
    /\ stage = "NEGOTIATING"
    /\ Begin_(o, "lock", "DRIVER", fare, 0)
    /\ UNCHANGED <<stage, agreed, rounds, timer, told>>

\* Mutant: without fare_locked_at IS NULL.
MutLockFare(o) ==
    /\ offer[o].pc = "lock"
    /\ agreed' = offer[o].fare
    /\ OfferTo(o, "confirm")
    /\ UNCHANGED <<stage, rounds, timer, told>>

\* WHERE fare_locked_at IS NULL: the first one only.
LockFare(o) ==
    /\ offer[o].pc = "lock"
    /\ IF agreed = None THEN agreed' = offer[o].fare /\ OfferTo(o, "confirm")
                        ELSE OfferDone(o) /\ UNCHANGED agreed
    /\ UNCHANGED <<stage, rounds, timer, told>>

\* Transition; both sides are told, and the clock is disarmed.
Confirm(o) ==
    /\ offer[o].pc = "confirm"
    /\ IF stage = "NEGOTIATING"
       THEN /\ stage' = "CONFIRMED"
            /\ told' = told \cup {offer[o].fare}
            /\ timer' = IF timer = "firing" THEN timer ELSE "off"
       ELSE UNCHANGED <<stage, told, timer>>
    /\ OfferDone(o)
    /\ UNCHANGED <<agreed, rounds>>

\* The client is gone: what was written stays.
OfferAborts(o) ==
    /\ offer[o].pc # "idle"
    /\ OfferDone(o)
    /\ UNCHANGED <<stage, agreed, rounds, timer, told>>

-----------------------------------------------------------------------------
(* The clock, the customer, the admin.                                     *)

Silence ==
    /\ timer = "armed"
    /\ timer' = "due"
    /\ UNCHANGED <<stage, agreed, rounds, offer, told>>

\* The status is read ...
TimeoutFires ==
    /\ timer = "due"
    /\ timer' = IF stage = "NEGOTIATING" THEN "firing" ELSE "off"
    /\ UNCHANGED <<stage, agreed, rounds, offer, told>>

\* ... and Cancel spares only rides that are over.
TimeoutCancels ==
    /\ timer = "firing"
    /\ stage' = "CANCELLED" /\ timer' = "off"
    /\ UNCHANGED <<agreed, rounds, offer, told>>

CustomerCancels ==
    /\ stage # "CANCELLED"
    /\ stage' = "CANCELLED"
    /\ UNCHANGED <<agreed, rounds, offer, timer, told>>

NegotiationNext ==
    \/ \E o \in Offers :
          \/ \E side \in Sides :
                \/ \E fare \in Fares : Propose(o, side, fare)
                \/ Accept(o, side)
          \/ \E fare \in Fares : LockManualFare(o, fare)
          \/ ProposeCount(o) \/ CountRounds(o) \/ CreateRound(o)
          \/ LockFare(o) \/ Confirm(o) \/ OfferAborts(o)
    \/ SendTextMessage \/ Silence \/ TimeoutFires \/ TimeoutCancels
    \/ CustomerCancels

-----------------------------------------------------------------------------
\* A side makes MaxOffers offers, and at most one more for each request that
\* counted before the others inserted (service.go:182: nothing is locked).
OffersLimited ==
    \A side \in Sides :
        CountRoundsByRole(side) <= MaxOffers + Cardinality(Offers) - 1

\* Whatever two accepts, a manual fare, the clock and a cancellation do at
\* once, the fare the two sides were told is the fare of the ride.
ToldFareIsAgreed == \A fare \in told : agreed = fare
=============================================================================
