----------------------------- MODULE RideStatus -----------------------------
(***************************************************************************)
(* The ride state machine of internal/ride/statemachine.go: the statuses a *)
(* row of the rides table can have, the table of allowed transitions, and  *)
(* the status predicates the handlers branch on.  A constant module: the   *)
(* modules with state extend it.                                           *)
(***************************************************************************)

Status == {"SEARCHING", "MATCHED", "NEGOTIATING", "CONFIRMED",
           "DRIVER_EN_ROUTE", "DRIVER_ARRIVED", "IN_PROGRESS",
           "COMPLETED", "CANCELLED"}

\* The allowedTransitions map, as a relation.
AllowedTransitions ==
    {"SEARCHING"} \X {"MATCHED", "CANCELLED"}
        \cup {"MATCHED"} \X {"NEGOTIATING", "SEARCHING"}
        \cup {"NEGOTIATING"} \X {"CONFIRMED", "SEARCHING", "CANCELLED"}
        \cup {"CONFIRMED"} \X {"DRIVER_EN_ROUTE", "CANCELLED"}
        \cup {"DRIVER_EN_ROUTE"} \X {"DRIVER_ARRIVED", "CANCELLED"}
        \cup {"DRIVER_ARRIVED"} \X {"IN_PROGRESS", "CANCELLED"}
        \cup {"IN_PROGRESS"} \X {"COMPLETED"}

CanTransition(from, to) == <<from, to>> \in AllowedTransitions

Terminal == {"COMPLETED", "CANCELLED"}

\* CancellableStatuses: where CancelRide lets a customer cancel.
CustomerCancellable == {"SEARCHING", "MATCHED", "NEGOTIATING",
                        "DRIVER_EN_ROUTE", "DRIVER_ARRIVED"}

\* validFrom of DriverCancelRide.
DriverCancellable == {"CONFIRMED", "DRIVER_EN_ROUTE", "DRIVER_ARRIVED"}

\* creditCharged: the statuses in which the driver's credit has been spent.
CreditCharged == {"CONFIRMED", "DRIVER_EN_ROUTE", "DRIVER_ARRIVED",
                  "IN_PROGRESS"}

=============================================================================
