------------------------------- MODULE Pricing -------------------------------
(***************************************************************************)
(* Prices (internal/fare): the pricing rows of one vehicle type, which the *)
(* console replaces in a transaction, the calculation, and what a ride is  *)
(* quoted at and charged.  Amounts are in hundredths of a franc (as the    *)
(* surcharge is a percentage), distances in kilometres, waits in minutes.  *)
(***************************************************************************)
EXTENDS Integers, Sequences, Absent

CONSTANTS Tariffs,      \* what an admin may type: pricing records
          Seed,       \* the row of migration 027
          Distances, Hours, WaitTimes,
          Fares,      \* what the two parties may agree on
          Editors,    \* requests of CreatePricing
          MaxRows     \* bound on the rows made

VARIABLES
    rows,       \* vehicle_pricing_configs, in the order they were inserted
    editor,     \* a transaction of CreateConfig: when it began, what it saw
    began,      \* the clock of effective_from: transactions begun
    overlapped, \* were two of them ever under way at once?
    ride        \* one ride's quote and fare
pricingVars == <<rows, editor, began, overlapped, ride>>

-----------------------------------------------------------------------------
(* The calculation.                                                         *)

ValidateConfig(c) ==
    /\ c.base > 0 /\ c.baseKM > 0 /\ c.tier1 > 0
    /\ c.tier1Max > c.baseKM
    /\ c.tier2 > 0 /\ c.night \in 0..100
    /\ c.from \in 0..23 /\ c.until \in 0..23 /\ c.from # c.until
    /\ c.perMin >= 0 /\ c.free >= 0 /\ c.min >= c.base

Form == [base : Int, baseKM : Int, tier1 : Int, tier1Max : Int, tier2 : Int,
         night : Int, from : Int, until : Int, perMin : Int, free : Int,
         min : Int]
ASSUME PricingAssumption ==
    /\ Tariffs \cup {Seed} \subseteq Form
    /\ ValidateConfig(Seed) /\ MaxRows \in Nat
    /\ Distances \subseteq Nat /\ None \notin Distances
    /\ Hours \subseteq 0..23 /\ WaitTimes \subseteq Nat /\ Fares \subseteq Nat
    /\ None \notin Nat \cup {"driver", "watchdog"}

\* The night may wrap round midnight.
IsNight(c, hour) ==
    IF c.from > c.until THEN hour >= c.from \/ hour < c.until
    ELSE hour >= c.from /\ hour < c.until

\* Mutant: the first tier is as long as its last kilometre.
MutDistanceCharge(c, km) ==
    LET billable == km - c.baseKM
        cap == c.tier1Max - c.baseKM
    IN  IF billable <= 0 THEN 0
        ELSE IF billable <= c.tier1Max THEN billable * c.tier1
        ELSE cap * c.tier1 + (billable - cap) * c.tier2

DistanceCharge(c, km) ==
    LET billable == km - c.baseKM
        cap == c.tier1Max - c.baseKM
    IN  IF billable <= 0 THEN 0
        ELSE IF billable <= cap THEN billable * c.tier1
        ELSE cap * c.tier1 + (billable - cap) * c.tier2

\* Base and distance, the night surcharge, the minimum, ...
TripCharge(c, km, hour) ==
    LET subtotal == c.base + DistanceCharge(c, km)
        total == 100 * subtotal
                    + (IF IsNight(c, hour) THEN subtotal * c.night ELSE 0)
    IN  IF total < 100 * c.min THEN 100 * c.min ELSE total
\* ... and the waiting past the free minutes on top.
WaitingCharge(c, wait) ==
    IF wait > c.free THEN 100 * (wait - c.free) * c.perMin ELSE 0
Calculate(c, km, hour, wait) == TripCharge(c, km, hour) + WaitingCharge(c, wait)

-----------------------------------------------------------------------------
(* The rows.                                                                *)

PricingInit ==
    /\ rows = <<[config |-> Seed, active |-> TRUE, effective |-> 0]>>
    /\ editor = [e \in Editors |-> None]
    /\ began = 0 /\ overlapped = FALSE
    /\ ride = None

Active == {r \in DOMAIN rows : rows[r].active}
\* ORDER BY effective_from DESC LIMIT 1
GetActiveConfig ==
    CHOOSE r \in Active : \A x \in Active : rows[x].effective <= rows[r].effective
GetConfigByID(r) == rows[r].config
\* What the app shows before a ride is booked.
FareEstimate(km, hour) ==
    Calculate(GetConfigByID(GetActiveConfig), km, hour, 0)

\* CreatePricing: a form that is not valid is refused; the transaction
\* begins and deactivates the rows it sees active.
CreatePricing(e, form) ==
    /\ editor[e] = None /\ began < MaxRows
    /\ ValidateConfig(form)
    /\ began' = began + 1
    /\ editor' = [editor EXCEPT ![e] =
          [config |-> form, at |-> began + 1, sees |-> Active]]
    /\ overlapped' = (overlapped \/ \E d \in Editors : editor[d] # None)
    /\ UNCHANGED <<rows, ride>>

\* Mutant: it leaves the rows it saw as they are.
MutCreateConfig(e) ==
    LET tx == editor[e] IN
    /\ tx # None
    /\ rows' = Append(rows,
                  [config |-> tx.config, active |-> TRUE, effective |-> tx.at])
    /\ editor' = [editor EXCEPT ![e] = None]
    /\ UNCHANGED <<began, overlapped, ride>>

\* It inserts its own and commits.  A row that another transaction made
\* active meanwhile was not seen, and stays active.
CreateConfig(e) ==
    LET tx == editor[e] IN
    /\ tx # None
    /\ rows' = Append([r \in DOMAIN rows |->
                  IF r \in tx.sees THEN [rows[r] EXCEPT !.active = FALSE]
                  ELSE rows[r]],
                  [config |-> tx.config, active |-> TRUE, effective |-> tx.at])
    /\ editor' = [editor EXCEPT ![e] = None]
    /\ UNCHANGED <<began, overlapped, ride>>

-----------------------------------------------------------------------------
(* A ride.                                                                  *)

RideSteps == UNCHANGED <<rows, editor, began, overlapped>>

\* ride.CreateRide: the row of the day, whose id the ride keeps, and the
\* estimate by it if the app told a distance.  The distance is not kept; terms,
\* km and hour are there for the properties.
QuoteRide(km, hour) ==
    /\ ride = None
    /\ ride' = [row |-> GetActiveConfig,
                terms |-> GetConfigByID(GetActiveConfig),
                km |-> km, hour |-> hour,
                estimate |-> IF km = None THEN None ELSE FareEstimate(km, hour),
                agreed |-> None, wait |-> None, over |-> None, final |-> None]
    /\ RideSteps

\* The fare is locked (module Negotiation); no ride starts without one.
AgreeFare(fare) ==
    /\ ride # None /\ ride.agreed = None
    /\ ride' = [ride EXCEPT !.agreed = fare]
    /\ RideSteps

\* The driver came wait minutes before the ride starts.
StartRide(wait) ==
    /\ ride # None /\ ride.agreed # None /\ ride.wait = None
    /\ ride' = [ride EXCEPT !.wait = wait]
    /\ RideSteps

Underway == ride # None /\ ride.wait # None /\ ride.over = None
\* SetFinalFare
SetFinalFare(over, final) ==
    ride' = [ride EXCEPT !.over = over, !.final = final]
\* Two hours of waiting are the most there are.
Counted(wait) == IF wait > 120 THEN 120 ELSE wait

\* Mutant: the waiting is priced by the row of the day.
MutCharge ==
    /\ Underway
    /\ SetFinalFare("driver", 100 * ride.agreed
            + WaitingCharge(GetConfigByID(GetActiveConfig), Counted(ride.wait)))
    /\ RideSteps

\* CompleteRide: what was agreed, and the waiting by the row the ride keeps;
\* if that row cannot be read, no fare is recorded at all.  (A ride without an
\* agreed fare would be priced by Calculate, but there is none.)
Charge ==
    /\ Underway
    /\ \/ SetFinalFare("driver", 100 * ride.agreed
                + WaitingCharge(GetConfigByID(ride.row), Counted(ride.wait)))
       \/ SetFinalFare("driver", None)
    /\ RideSteps

\* FinalizeStaleInProgressRides: nobody completed it; the waiting is not asked.
\* Its write may fail, and is not tried again.
ChargeStale ==
    /\ Underway
    /\ \/ SetFinalFare("watchdog", 100 * ride.agreed)
       \/ SetFinalFare("watchdog", None)
    /\ RideSteps

NextRide ==
    /\ ride # None /\ ride.over # None
    /\ ride' = None /\ RideSteps

PricingNext ==
    \/ \E e \in Editors :
          CreateConfig(e) \/ \E form \in Tariffs : CreatePricing(e, form)
    \/ \E hour \in Hours, km \in Distances \cup {None} : QuoteRide(km, hour)
    \/ \E fare \in Fares : AgreeFare(fare)
    \/ \E wait \in WaitTimes : StartRide(wait)
    \/ Charge \/ ChargeStale \/ NextRide

-----------------------------------------------------------------------------
(* Properties.                                                              *)

\* A ride costs what the parties agreed on and the waiting at the price it was
\* booked under, whatever prices the console made between its booking and its
\* end (CreateRide keeps the row's id, CompleteRide prices by it, CreateConfig
\* adds rows and rewrites none), unless the write or that read failed.
FareAsAgreed ==
    ride # None /\ ride.final # None =>
        ride.final =
            IF ride.over = "watchdog" THEN 100 * ride.agreed
            ELSE 100 * ride.agreed
                    + WaitingCharge(ride.terms, Counted(ride.wait))

\* Unless two admins' transactions overlapped, the price in force is the one
\* the console made last, and the only one active (CreateConfig).
LastPriceInForce ==
    ~overlapped => Active = {Len(rows)} /\ GetActiveConfig = Len(rows)

\* Whatever row validateConfig lets through, a ride is never estimated at less
\* than a shorter one at that hour, or than the same by day if it is by night,
\* and a longer wait is never cheaper, across the tiers and the minimum
\* (Calculate).
FareNeverShrinks ==
    ride # None =>
        LET c == ride.terms
            night == IsNight(c, ride.hour) IN
        /\ ride.km # None =>
              \A km \in Distances, h \in Hours :
                  km <= ride.km /\ (IsNight(c, h) => night) =>
                      Calculate(c, km, h, 0) <= ride.estimate
        /\ \A wait, short \in WaitTimes : short <= wait =>
              WaitingCharge(c, short) <= WaitingCharge(c, wait)

\* What a ride costs is what was agreed and what was in force when it was
\* booked (CreateRide, CompleteRide, CreateConfig, Calculate).
PricesHold == FareAsAgreed /\ LastPriceInForce /\ FareNeverShrinks
=============================================================================
