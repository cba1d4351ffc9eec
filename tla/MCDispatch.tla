----------------------------- MODULE MCDispatch -----------------------------
(* Instances of Dispatch for TLC. *)
EXTENDS Dispatch

CONSTANTS ann, cat, r1, r2, d1, d2

\* Each customer books at most one ride; both rides are near d2.
MCCustomerOf == [r \in Rides |-> IF r = r1 THEN ann ELSE cat]
MCNear == [r \in Rides |-> IF r = r1 THEN {d1, d2} ELSE {d2}]

=============================================================================
