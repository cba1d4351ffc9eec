------------------------------ MODULE Purchase ------------------------------
(***************************************************************************)
(* The purchase of ride packages (internal/packages/purchase.go) with what *)
(* it calls: the grant of credits (packages/ledger.go, GrantPurchase), the *)
(* general ledger (ledger/ledger.go, Post) and the mobile-money provider   *)
(* (payment/service.go).                                                   *)
(*                                                                         *)
(* A sale is one attempt to create a purchase, and the row it inserts.  A  *)
(* driver's charge opens a PENDING row that confirm settles in one         *)
(* transaction, on the word of the provider's callback, of the sweep and   *)
(* the status polls that ask the provider, or of an admin: these calls may *)
(* be late, repeated, contradictory or lost.  A free or promotional        *)
(* package, and a sale an admin records as paid, are written statement by  *)
(* statement instead, and the request may die between any two.             *)
(*                                                                         *)
(* Abstracted: drivers, vehicles and amounts (a sale is priced or not),    *)
(* which offer a campaign makes, notifications, the callback's signature.  *)
(* Not modelled: the auto-confirmation of development builds.              *)
(***************************************************************************)
EXTENDS Integers, FiniteSets, Absent

CONSTANTS
    Sales,
    Path,            \* who opens each sale, and how it is paid
    Offer,           \* what resolveOffer finds for it
    Keys, Key,       \* the idempotency key each attempt carries
    ProviderTxns,    \* the transaction numbers providers report
    Reports,         \* those a callback for a sale may carry, None for none
    Claimed,         \* the office sales that only a claim's approval opens
    Reviewed         \* bound: the sales whose proof an admin may look at

Paths == {"mtn", "airtel", "other", "office", "desk"}
Offers == {"priced", "promo", "free"}

\* The admin's keys are new identifiers ("admin-" and a UUID).
ASSUME PurchaseAssumption ==
    /\ Path \in [Sales -> Paths] /\ Offer \in [Sales -> Offers]
    /\ Key \in [Sales -> Keys]
    /\ \A s, u \in Sales :
          Path[s] \in {"office", "desk"} /\ Key[s] = Key[u] => s = u
    /\ Claimed \subseteq {s \in Sales : Path[s] = "office"}
    /\ Reviewed \subseteq Sales
    /\ Reports \in [Sales -> SUBSET (ProviderTxns \cup {None})]
    /\ None \notin {"PENDING", "PAID", "FAILED"}
    /\ None \notin [by : {"callback", "momo", "manual"},
                    id : ProviderTxns \cup Sales]

VARIABLES
    request,         \* where the request that creates the purchase is
    row,             \* the package_purchases rows
    credits,         \* which grants of a sale the entitlement ledger holds
    journal,         \* what the general ledger holds of a sale
    charge,          \* the provider's side of it
    calls            \* the settlement calls made so far

vars == <<request, row, credits, journal, charge, calls>>

-----------------------------------------------------------------------------
Row == [status : {None, "PENDING", "PAID", "FAILED"},
        txn : [by : {"callback", "momo", "manual"},
               id : ProviderTxns \cup Sales] \cup {None},
        granted : BOOLEAN, lapsed : BOOLEAN, proof : BOOLEAN]
NoRow == [status |-> None, txn |-> None, granted |-> FALSE, lapsed |-> FALSE,
          proof |-> FALSE]

Transactions == [by : {"callback", "momo", "manual"},
                 id : ProviderTxns \cup Sales]
Callback(n) == IF n = None THEN None ELSE [by |-> "callback", id |-> n]
Momo(s) == [by |-> "momo", id |-> s]
Manual(s) == [by |-> "manual", id |-> s]

\* A settlement call: whose purchase, under which transaction, paid or not.
Call == [sale : Sales, txn : Transactions \cup {None}, success : BOOLEAN]
Paid(s, t) == [sale |-> s, txn |-> t, success |-> TRUE]
Unpaid(s) == [sale |-> s, txn |-> None, success |-> FALSE]

\* price > 0; a promotional version may have a price all the same.
HasPrice(s) == Offer[s] # "free"
\* Granted at once, by the driver's request or the admin's.
AtOnce(s) == \/ Path[s] = "office"
             \/ Path[s] \in {"mtn", "airtel", "other"} /\ Offer[s] # "priced"
Settled == {s \in Sales : ~AtOnce(s)}
\* listPendingMoMoPurchases: payment_provider IN ('mtn', 'airtel').
Swept == {s \in Settled : Path[s] \in {"mtn", "airtel"}}

AllCredits == {"rides", "bonus"}
Balanced == {"entry", "cash", "revenue"}

\* The steps of a request that grants at once, and the pc after each.
Writing == {"markPaid", "rides", "bonus", "granted", "entry", "cash",
            "revenue"}
Posting == {"entry", "cash", "revenue"}
Steps == Writing \cup {"idle", "insert", "prompt", "done", "failed"}

GoTo(s, pc) == request' = [request EXCEPT ![s] = pc]

-----------------------------------------------------------------------------
Init ==
    /\ request = [s \in Sales |-> "idle"]
    /\ row = [s \in Sales |-> NoRow]
    /\ credits = [s \in Sales |-> {}]
    /\ journal = [s \in Sales |-> {}]
    /\ charge = [s \in Sales |-> "none"]
    /\ calls = {}

\* Create looks the key up: a known key is answered with its purchase.
Begin(s) ==
    /\ request[s] = "idle"
    /\ IF \E u \in Sales : Key[u] = Key[s] /\ row[u].status # None
       THEN GoTo(s, "done")
       ELSE GoTo(s, "insert")
    /\ UNCHANGED <<row, credits, journal, charge, calls>>

\* Mutant: no UNIQUE(idempotency_key).
MutKeyTaken(s) == FALSE

KeyTaken(s) == \E u \in Sales : Key[u] = Key[s] /\ row[u].status # None

\* Mutant: every purchase is opened PENDING.
MutOpened(s) == "PENDING"

Opened(s) == IF AtOnce(s) THEN "PAID" ELSE "PENDING"

\* createPurchaseRow, where UNIQUE(idempotency_key) stops a second attempt
\* that looked the key up in time.
Insert(s) ==
    /\ request[s] = "insert"
    /\ IF KeyTaken(s)
       THEN GoTo(s, "failed") /\ UNCHANGED row
       ELSE /\ row' = [row EXCEPT ![s].status = Opened(s)]
            /\ GoTo(s, IF AtOnce(s) THEN "markPaid"
                       ELSE IF Path[s] = "desk" THEN "done" ELSE "prompt")
    /\ UNCHANGED <<credits, journal, charge, calls>>

\* RequestPayment: the prompt may reach the provider or not, and an error is
\* only logged.  Airtel has no client.
Prompt(s) ==
    /\ request[s] = "prompt"
    /\ GoTo(s, "done")
    /\ \/ /\ Path[s] # "airtel"
          /\ charge' = [charge EXCEPT ![s] = "open"]
       \/ UNCHANGED charge
    /\ UNCHANGED <<row, credits, journal, calls>>

\* Whoever waits for the answer gives up, or the server stops: the steps the
\* request has not taken are not taken by anyone else.
Abort(s) ==
    /\ request[s] \in Writing \cup {"insert", "prompt"}
    /\ GoTo(s, "failed")
    /\ UNCHANGED <<row, credits, journal, charge, calls>>

-----------------------------------------------------------------------------
(* Granted at once: one commit a step.                                     *)

\* markPaid; an admin's sale has the admin's own transaction.
MarkPaid(s) ==
    /\ request[s] = "markPaid"
    /\ row' = [row EXCEPT ![s].txn =
                   IF Path[s] = "office" THEN Manual(s) ELSE @]
    /\ GoTo(s, "rides")
    /\ UNCHANGED <<credits, journal, charge, calls>>

\* GrantPurchase: the rides, then the bonus, each in a transaction of its own.
GrantRides(s) ==
    /\ request[s] = "rides"
    /\ credits' = [credits EXCEPT ![s] = @ \cup {"rides"}]
    /\ GoTo(s, "bonus")
    /\ UNCHANGED <<row, journal, charge, calls>>

GrantBonus(s) ==
    /\ request[s] = "bonus"
    /\ credits' = [credits EXCEPT ![s] = @ \cup {"bonus"}]
    /\ GoTo(s, "granted")
    /\ UNCHANGED <<row, journal, charge, calls>>

\* markCreditsGranted, whose error is ignored.  Only an admin's sale is
\* posted, when it has a price.
MarkGranted(s) ==
    /\ request[s] = "granted"
    /\ \/ row' = [row EXCEPT ![s].granted = TRUE]
       \/ UNCHANGED row
    /\ GoTo(s, IF Path[s] = "office" /\ HasPrice(s) THEN "entry" ELSE "done")
    /\ UNCHANGED <<credits, journal, charge, calls>>

\* Post on the pool: the entry, unless its key is there already, then the
\* lines, each in a commit of its own.
PostEntry(s) ==
    /\ request[s] = "entry"
    /\ IF "entry" \in journal[s]
       THEN GoTo(s, "done") /\ UNCHANGED journal
       ELSE /\ journal' = [journal EXCEPT ![s] = @ \cup {"entry"}]
            /\ GoTo(s, "cash")
    /\ UNCHANGED <<row, credits, charge, calls>>

PostLine(s) ==
    /\ request[s] \in {"cash", "revenue"}
    /\ journal' = [journal EXCEPT ![s] = @ \cup {request[s]}]
    /\ GoTo(s, IF request[s] = "cash" THEN "revenue" ELSE "done")
    /\ UNCHANGED <<row, credits, charge, calls>>

\* A posting that fails is logged, and the request answers as if it had not.
PostFails(s) ==
    /\ request[s] \in Posting
    /\ GoTo(s, "done")
    /\ UNCHANGED <<row, credits, journal, charge, calls>>

\* cmd/ledger-backfill posts every PAID purchase with a price again, also
\* statement by statement: it may stop after any of them.
Backfill(s) ==
    /\ row[s].status = "PAID" /\ HasPrice(s) /\ journal[s] = {}
    /\ \E j \in {{"entry"}, {"entry", "cash"}, Balanced} :
          journal' = [journal EXCEPT ![s] = j]
    /\ UNCHANGED <<request, row, credits, charge, calls>>

-----------------------------------------------------------------------------
(* The provider, and those who report on it.                               *)

\* The payer answers the prompt.
Answer(s) ==
    /\ charge[s] = "open"
    /\ \E a \in {"paid", "refused"} : charge' = [charge EXCEPT ![s] = a]
    /\ UNCHANGED <<request, row, credits, journal, calls>>

\* WebhookMoMo: the provider calls back, perhaps with a number it has used
\* before, or with none.
Webhook(s) ==
    /\ \/ /\ charge[s] = "paid"
          /\ \E n \in Reports[s] : calls' = calls \cup {Paid(s, Callback(n))}
       \/ /\ charge[s] = "refused"
          /\ calls' = calls \cup {Unpaid(s)}
    /\ UNCHANGED <<request, row, credits, journal, charge>>

\* What QueryStatus tells; Airtel is always pending.
Reported(s) ==
    IF Path[s] = "airtel" THEN "open" ELSE charge[s]

\* Mutant: a purchase past its window is asked about, like any other.
MutSweep(s) ==
    /\ s \in Swept /\ row[s].status = "PENDING"
    /\ \/ Reported(s) = "paid" /\ calls' = calls \cup {Paid(s, Momo(s))}
       \/ Reported(s) = "refused" /\ calls' = calls \cup {Unpaid(s)}
    /\ UNCHANGED <<request, row, credits, journal, charge>>

\* ReconcilePending: a purchase past its window fails unasked.
Sweep(s) ==
    /\ s \in Swept /\ row[s].status = "PENDING"
    /\ \/ row[s].lapsed /\ calls' = calls \cup {Unpaid(s)}
       \/ /\ ~row[s].lapsed /\ Reported(s) = "paid"
          /\ calls' = calls \cup {Paid(s, Momo(s))}
       \/ /\ ~row[s].lapsed /\ Reported(s) = "refused"
          /\ calls' = calls \cup {Unpaid(s)}
    /\ UNCHANGED <<request, row, credits, journal, charge>>

\* Mutant: any answer that is not a refusal settles.
MutPoll(s) ==
    /\ row[s].status = "PENDING"
    /\ \/ /\ Reported(s) # "refused"
          /\ calls' = calls \cup {Paid(s, Momo(s))}
       \/ Reported(s) = "refused" /\ calls' = calls \cup {Unpaid(s)}
    /\ UNCHANGED <<request, row, credits, journal, charge>>

\* ReconcileSingle, for the driver's poll (GetStatus) and the admin's button:
\* it asks whatever the window.
Poll(s) ==
    /\ row[s].status = "PENDING"
    /\ \/ Reported(s) = "paid" /\ calls' = calls \cup {Paid(s, Momo(s))}
       \/ Reported(s) = "refused" /\ calls' = calls \cup {Unpaid(s)}
    /\ UNCHANGED <<request, row, credits, journal, charge>>

\* AdminConfirm: an admin saw the money, or saw that there is none.
AdminConfirm(s) ==
    /\ row[s].status = "PENDING" /\ s \in Reviewed
    /\ \E c \in {Paid(s, Manual(s)), Unpaid(s)} : calls' = calls \cup {c}
    /\ UNCHANGED <<request, row, credits, journal, charge>>

\* The payment window of five minutes; an admin's purchase has none.
WindowLapses(s) ==
    /\ row[s].status = "PENDING" /\ Path[s] # "desk" /\ ~row[s].lapsed
    /\ row' = [row EXCEPT ![s].lapsed = TRUE]
    /\ UNCHANGED <<request, credits, journal, charge, calls>>

\* SubmitProof: the driver says it was paid some other way.
SubmitProof(s) ==
    /\ row[s].status = "PENDING" /\ ~row[s].proof /\ s \in Reviewed
    /\ row' = [row EXCEPT ![s].proof = TRUE]
    /\ UNCHANGED <<request, credits, journal, charge, calls>>

-----------------------------------------------------------------------------
(* confirm: one transaction on the locked row.                             *)

\* Mutant: neither the look-up nor UNIQUE(provider_txn_id).
MutDuplicate(s, t) == FALSE

Duplicate(s, t) ==
    \E u \in Sales \ {s} : row[u].status = "PAID" /\ row[u].txn = t

\* Mutant: the credits are granted after the commit, by whoever called.
MutSettlePaid(s, t) ==
    /\ ~(t # None /\ Duplicate(s, t))
    /\ row' = [row EXCEPT ![s].status = "PAID",
                          ![s].txn = IF t = None THEN @ ELSE t]
    /\ journal' = [journal EXCEPT ![s] = IF HasPrice(s) THEN Balanced ELSE @]
    /\ UNCHANGED credits

\* "already settled": anything but PENDING leaves the row as it is.
OpenRow(s) == row[s].status = "PENDING"

SettlePaid(s, t) ==
    /\ ~(t # None /\ Duplicate(s, t))
    /\ row' = [row EXCEPT ![s].status = "PAID", ![s].granted = TRUE,
                          ![s].txn = IF t = None THEN @ ELSE t]
    /\ credits' = [credits EXCEPT ![s] = AllCredits]
    /\ journal' = [journal EXCEPT ![s] = IF HasPrice(s) THEN Balanced ELSE @]

SettleUnpaid(s) ==
    /\ row' = [row EXCEPT ![s].status = "FAILED"]
    /\ UNCHANGED <<credits, journal>>

\* A call takes effect, again if it is repeated, or has none when the
\* transaction fails (a stuttering step).
Settle(c) ==
    /\ c \in calls /\ OpenRow(c.sale)
    /\ IF c.success THEN SettlePaid(c.sale, c.txn) ELSE SettleUnpaid(c.sale)
    /\ UNCHANGED <<request, charge, calls>>

-----------------------------------------------------------------------------
\* The steps of the request that creates the purchase.
Create(s) ==
    \/ s \notin Claimed /\ Begin(s)
    \/ Insert(s) \/ Prompt(s) \/ Abort(s)
    \/ MarkPaid(s) \/ GrantRides(s) \/ GrantBonus(s) \/ MarkGranted(s)
    \/ PostEntry(s) \/ PostLine(s) \/ PostFails(s)

\* What the others do about it.
Others(s) ==
    \/ Backfill(s)
    \/ Answer(s) \/ Webhook(s) \/ Sweep(s) \/ Poll(s) \/ AdminConfirm(s)
    \/ WindowLapses(s) \/ SubmitProof(s)

Next ==
    \/ \E s \in Sales : Create(s) \/ Others(s)
    \/ \E c \in calls : Settle(c)

\* The window ends whatever anyone does, and the sweep runs every 30 s until
\* confirm has failed what it gives up: all the fairness assumed.
Spec ==
    /\ Init /\ [][Next]_vars
    /\ \A s \in Sales :
          /\ WF_vars(WindowLapses(s)) /\ WF_vars(Sweep(s))
          /\ WF_vars(Settle(Unpaid(s)))

-----------------------------------------------------------------------------
(* Properties.                                                             *)

TypeOK ==
    /\ request \in [Sales -> Steps]
    /\ row \in [Sales -> Row]
    /\ credits \in [Sales -> SUBSET AllCredits]
    /\ journal \in [Sales -> SUBSET Balanced]
    /\ charge \in [Sales -> {"none", "open", "paid", "refused"}]
    /\ calls \subseteq Call

\* Two attempts under one idempotency key, however they overlap, make one
\* purchase (Create: the key is looked up before the row exists).
OneSalePerKey ==
    \A s, u \in Sales :
        Key[s] = Key[u] /\ row[s].status # None /\ row[u].status # None
            => s = u

\* A payment is spent once: no two purchases are PAID by one transaction,
\* although callback, sweep, poll and admin confirm concurrently (confirm).
OneTransactionOneSale ==
    \A s, u \in Sales :
        /\ row[s].status = "PAID" /\ row[u].status = "PAID"
        /\ row[s].txn # None /\ row[s].txn = row[u].txn
        => s = u

\* Credits and journal entries exist only for purchases recorded as PAID,
\* on every path and at every step of it.
OnlyPaidDelivers ==
    \A s \in Sales : credits[s] # {} \/ journal[s] # {} =>
        row[s].status = "PAID"

\* No credits without a payment ("that would be free money", says
\* ReconcileSingle), and no failed purchase unless its payer refused, its
\* window ended or an admin may have said so.
SettledForAReason ==
    \A s \in Settled :
        /\ row[s].status = "PAID" =>
              charge[s] = "paid" \/ row[s].txn = Manual(s)
        /\ row[s].status = "FAILED" =>
              charge[s] = "refused" \/ row[s].lapsed \/ s \in Reviewed

\* The detailed purchase implements the sale, for what confirm settles:
\* paid, credited and booked in one step, and final.
Stage(s) ==
    CASE row[s].status = "PENDING" -> "open"
      [] row[s].status = "PAID" -> "sold"
      [] row[s].status = "FAILED" -> "lapsed"
      [] OTHER -> "none"

Promise == INSTANCE Sale WITH
    Sales <- Settled,
    Priced <- {s \in Settled : HasPrice(s)},
    Transactions <- Transactions,
    None <- None,
    stage <- [s \in Settled |-> Stage(s)],
    delivered <- {s \in Settled : credits[s] = AllCredits},
    booked <- {s \in Settled : journal[s] = Balanced},
    transaction <- [s \in Settled |-> row[s].txn]

\* Every settled purchase keeps the promise of module Sale, whatever mixture
\* of callbacks, sweeps, polls and admins settles it (confirm).
KeepsPromise == Promise!Spec

\* A charge the sweep looks at does not stay open: its window ends, and the
\* sweep fails it if nobody has settled it before (ReconcilePending).
SweptSaleEnds ==
    \A s \in Swept : row[s].status = "PENDING" ~> row[s].status # "PENDING"

=============================================================================
