------------------------------- MODULE Claims -------------------------------
(***************************************************************************)
(* Claims of payment by hand (internal/packagepayments): a driver who paid *)
(* the merchant number claims a package, or a top-up of any amount, and an *)
(* admin approves or rejects it.  Approval goes through Purchase: it opens *)
(* a sale of its own, paid by hand, or credits a top-up directly, and only *)
(* then marks the claim.                                                   *)
(*                                                                         *)
(* Driver and admins read the claim, decide, and write its status without  *)
(* looking again (the version column counts the writes and guards none).   *)
(***************************************************************************)
EXTENDS Purchase

CONSTANTS
    Claims, Admins,
    Reviews,         \* bound: which admin may take up which claim, once
    SaleOf           \* the sale each admin's approval of each claim opens

\* Every approval of a package makes its own purchase.
ASSUME ClaimsAssumption ==
    /\ Reviews \subseteq Claims \X Admins
    /\ SaleOf \in [Reviews -> Claimed]
    /\ \A p, q \in Reviews : SaleOf[p] = SaleOf[q] => p = q
    /\ None \notin {"created", "submitted", "approved", "rejected",
                    "cancelled", "expired"}

VARIABLES
    claim,           \* the manual_payment_claims rows
    late,            \* the claims past their expires_at
    driver,          \* the driver's request on each claim: its target status
    review,          \* each admin's request on each claim
    topUps           \* the grants made for claims without a package

claimVars == <<claim, late, driver, review, topUps>>

ClaimStatus == {"created", "submitted", "approved", "rejected", "cancelled",
                "expired"}
NoClaim == [status |-> None, custom |-> FALSE, sale |-> None]
Custom(c) == claim[c].custom      \* a claim without a package

ClaimsInit ==
    /\ Init
    /\ claim = [c \in Claims |-> NoClaim]
    /\ late = {}
    /\ driver = [c \in Claims |-> None]
    /\ review = [p \in Reviews |-> "idle"]
    /\ topUps = {}

-----------------------------------------------------------------------------
(* The driver.                                                             *)

\* Create; a repeated key returns the claim that is there.
CreateClaim(c) ==
    /\ claim[c].status = None
    /\ \E custom \in BOOLEAN :
          claim' = [claim EXCEPT ![c] =
                       [@ EXCEPT !.status = "created", !.custom = custom]]
    /\ UNCHANGED <<late, driver, review, topUps>> /\ UNCHANGED vars

\* Two hours after Create, rejected and resubmitted in between or not.
ClaimLapses(c) ==
    /\ claim[c].status # None /\ c \notin late
    /\ late' = late \cup {c}
    /\ UNCHANGED <<claim, driver, review, topUps>> /\ UNCHANGED vars

\* ExpireStale, which every call of the driver makes first.
AfterExpiry(c) ==
    IF c \in late /\ claim[c].status \in {"created", "submitted"}
    THEN "expired" ELSE claim[c].status

\* Submit, Resubmit and Cancel: from where, and to what.
Transitions == {<<"created", "submitted">>, <<"rejected", "submitted">>,
                <<"created", "cancelled">>, <<"submitted", "cancelled">>,
                <<"rejected", "cancelled">>}

DriverReads(c) ==
    /\ driver[c] = None /\ claim[c].status # None
    /\ claim' = [claim EXCEPT ![c].status = AfterExpiry(c)]
    /\ \/ \E t \in Transitions : /\ t[1] = AfterExpiry(c)
                                 /\ driver' = [driver EXCEPT ![c] = t[2]]
       \/ UNCHANGED driver
    /\ UNCHANGED <<late, review, topUps>> /\ UNCHANGED vars

\* UpdateStatus, whatever the claim has become.
DriverWrites(c) ==
    /\ driver[c] # None
    /\ claim' = [claim EXCEPT ![c].status = driver[c]]
    /\ driver' = [driver EXCEPT ![c] = None]
    /\ UNCHANGED <<late, review, topUps>> /\ UNCHANGED vars

-----------------------------------------------------------------------------
(* The admins.                                                             *)

ReviewTo(p, pc) == review' = [review EXCEPT ![p] = pc]

\* Approve and Reject: only a submitted claim.
ReviewReads(p) ==
    /\ review[p] = "idle" /\ claim[p[1]].status = "submitted"
    /\ \E pc \in {"grant", "reject"} : ReviewTo(p, pc)
    /\ UNCHANGED <<claim, late, driver, topUps>> /\ UNCHANGED vars

\* Mutant: the claim is marked approved before the grant.
MutReviewGrants(p) ==
    /\ review[p] = "grant" /\ ~Custom(p[1])
    /\ Begin(SaleOf[p])
    /\ claim' = [claim EXCEPT ![p[1]] =
                     [@ EXCEPT !.status = "approved", !.sale = SaleOf[p]]]
    /\ ReviewTo(p, "done")
    /\ UNCHANGED <<late, driver, topUps>>

\* GrantForManualClaim: an admin's sale, marked as paid.
ReviewGrants(p) ==
    /\ review[p] = "grant" /\ ~Custom(p[1])
    /\ Begin(SaleOf[p])
    /\ ReviewTo(p, "granting")
    /\ UNCHANGED <<claim, late, driver, topUps>>

\* It returns the purchase, or the error that ends the request.
ReviewGranted(p) ==
    /\ review[p] = "granting" /\ request[SaleOf[p]] \in {"done", "failed"}
    /\ ReviewTo(p, IF request[SaleOf[p]] = "done" THEN "approve" ELSE "done")
    /\ UNCHANGED <<claim, late, driver, topUps>> /\ UNCHANGED vars

\* GrantCustomForManualClaim: one grant without an idempotency key.
ReviewTopsUp(p) ==
    /\ review[p] = "grant" /\ Custom(p[1])
    /\ topUps' = topUps \cup {p}
    /\ ReviewTo(p, "approve")
    /\ UNCHANGED <<claim, late, driver>> /\ UNCHANGED vars

\* purchase_transaction_id; a top-up has a made-up reference.
Activation(p) == IF Custom(p[1]) THEN None ELSE SaleOf[p]

\* ApproveByAdmin, whatever the claim has become.
ReviewApproves(p) ==
    /\ review[p] = "approve"
    /\ claim' = [claim EXCEPT ![p[1]] =
                     [@ EXCEPT !.status = "approved", !.sale = Activation(p)]]
    /\ ReviewTo(p, "done")
    /\ UNCHANGED <<late, driver, topUps>> /\ UNCHANGED vars

ReviewRejects(p) ==
    /\ review[p] = "reject"
    /\ claim' = [claim EXCEPT ![p[1]].status = "rejected"]
    /\ ReviewTo(p, "done")
    /\ UNCHANGED <<late, driver, topUps>> /\ UNCHANGED vars

\* The admin's browser or the server goes away between two statements.
ReviewAborts(p) ==
    /\ review[p] \in {"grant", "approve", "reject"}
    /\ ReviewTo(p, "done")
    /\ UNCHANGED <<claim, late, driver, topUps>> /\ UNCHANGED vars

DriverNext ==
    \E c \in Claims : \/ CreateClaim(c) \/ ClaimLapses(c)
                      \/ DriverReads(c) \/ DriverWrites(c)

AdminNext ==
    \E p \in Reviews :
        \/ ReviewReads(p) \/ ReviewGrants(p) \/ ReviewGranted(p)
        \/ ReviewTopsUp(p) \/ ReviewApproves(p) \/ ReviewRejects(p)
        \/ ReviewAborts(p)

ClaimsNext ==
    \/ DriverNext \/ AdminNext
    \/ Next /\ UNCHANGED claimVars

ClaimsSpec == ClaimsInit /\ [][ClaimsNext]_<<vars, claimVars>>

-----------------------------------------------------------------------------
(* Properties.                                                             *)

ClaimsTypeOK ==
    /\ TypeOK
    /\ claim \in [Claims -> [status : ClaimStatus \cup {None},
                             custom : BOOLEAN, sale : Sales \cup {None}]]
    /\ late \subseteq Claims
    /\ driver \in [Claims -> {"submitted", "cancelled", None}]
    /\ review \in [Reviews ->
                      {"idle", "grant", "granting", "approve", "reject",
                       "done"}]
    /\ topUps \subseteq Reviews

\* An approved claim has been granted: the purchase it names is PAID with all
\* its credits, or its top-up is in the ledger, although the approval may die
\* at any step and another admin may approve, reject or the driver cancel
\* meanwhile (Approve grants first and marks last).
ApprovedIsGranted ==
    \A c \in Claims : claim[c].status = "approved" =>
        IF Custom(c)
        THEN \E p \in topUps : p[1] = c
        ELSE /\ claim[c].sale \in Sales
             /\ row[claim[c].sale].status = "PAID"
             /\ credits[claim[c].sale] = AllCredits

\* "Only a 'submitted' claim can be approved; an already-approved claim is
\* returned unchanged (idempotent)" (Approve): a claim is granted once.
\* It does not hold (two approvals of one top-up), and no run lists it.
ClaimGrantedOnce ==
    \A p, q \in Reviews :
        /\ p[1] = q[1]
        /\ \A r \in {p, q} : IF Custom(r[1]) THEN r \in topUps
                             ELSE credits[SaleOf[r]] # {}
        => p = q

=============================================================================
