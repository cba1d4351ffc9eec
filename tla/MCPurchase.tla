----------------------------- MODULE MCPurchase -----------------------------
(* Instances of Purchase for TLC. *)
EXTENDS Purchase

CONSTANTS p1, p2, p3, k1, k2

\* p1 and p2 are two attempts under one key, of which p2 names no provider the
\* sweep asks; p3 is an admin's sale.
MCPath == [s \in Sales |-> CASE s = p1 -> "mtn" [] s = p2 -> "other"
                             [] s = p3 -> "office"]
MCOffer == [s \in Sales |-> "priced"]
MCKey == [s \in Sales |-> IF s = p3 THEN k2 ELSE k1]
MCReports == [s \in Sales |-> IF s = p2 THEN {None} ELSE {1}]

=============================================================================
