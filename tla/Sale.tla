-------------------------------- MODULE Sale --------------------------------
(***************************************************************************)
(* What the sale of a ride package promises, whatever settles it           *)
(* (internal/packages/purchase.go, confirm): it is opened, and then either *)
(* sold or lapsed, once and for all.  The step that sells it delivers the  *)
(* credits, books the money and uses up the provider's transaction, all    *)
(* together.  Module Purchase implements it.                               *)
(***************************************************************************)
CONSTANTS
    Sales,
    Priced,          \* the sales that move money
    Transactions,    \* the identities providers and admins give to payments
    None

VARIABLES
    stage,           \* none, open, sold or lapsed
    delivered,       \* the sales whose rides and bonus were credited
    booked,          \* the sales whose entry in the journal is balanced
    transaction      \* the provider's transaction each sale was sold under

vars == <<stage, delivered, booked, transaction>>

Stages == {"none", "open", "sold", "lapsed"}

-----------------------------------------------------------------------------
Init ==
    /\ stage = [s \in Sales |-> "none"]
    /\ delivered = {} /\ booked = {}
    /\ transaction = [s \in Sales |-> None]

Open(s) ==
    /\ stage[s] = "none"
    /\ stage' = [stage EXCEPT ![s] = "open"]
    /\ UNCHANGED <<delivered, booked, transaction>>

\* A transaction pays for one sale; one without identity (None) for any.
Sell(s) ==
    /\ stage[s] = "open"
    /\ stage' = [stage EXCEPT ![s] = "sold"]
    /\ delivered' = delivered \cup {s}
    /\ booked' = IF s \in Priced THEN booked \cup {s} ELSE booked
    /\ \/ UNCHANGED transaction
       \/ \E t \in Transactions :
            /\ \A u \in Sales : transaction[u] # t
            /\ transaction' = [transaction EXCEPT ![s] = t]

Lapse(s) ==
    /\ stage[s] = "open"
    /\ stage' = [stage EXCEPT ![s] = "lapsed"]
    /\ UNCHANGED <<delivered, booked, transaction>>

Next == \E s \in Sales : Open(s) \/ Sell(s) \/ Lapse(s)

Spec == Init /\ [][Next]_vars

=============================================================================
