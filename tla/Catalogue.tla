------------------------------ MODULE Catalogue ------------------------------
(***************************************************************************)
(* What a package costs (internal/packages): the packages and campaigns    *)
(* the console edits, the catalogue a driver is shown, and the offer a     *)
(* purchase is made at.  The offer is resolved in three statements of no   *)
(* transaction (version, earlier purchases, campaign), while admins edit.  *)
(*                                                                         *)
(* The terms of a package are its price; rides, bonus and validity go the  *)
(* same ways.  A campaign whose window closes is one that expires.         *)
(* Payment is module Purchase's: an order is paid or fails.                *)
(***************************************************************************)
EXTENDS Naturals, Sequences, Absent

CONSTANTS Packages, Seeded,   \* Seeded: on sale from the start
          Prices,             \* 0 is free
          Orders,             \* purchases of one driver
          MaxEdits            \* bound on what the console does

ASSUME CatalogueAssumption ==
    /\ Seeded \subseteq Packages /\ MaxEdits \in Nat
    /\ Prices \subseteq Nat /\ 1 \in Prices
    /\ None \notin Packages \cup Nat \cup {"PACKAGE", "FIRST_PURCHASE", "REFERRAL"}

VARIABLES
    package,    \* ride_packages with its ACTIVE row of ride_package_versions
    campaigns,  \* campaigns, in order of creation
    order,      \* purchases
    edits       \* how many edits there have been
catalogueVars == <<package, campaigns, order, edits>>

Kinds == {"PACKAGE", "FIRST_PURCHASE", "REFERRAL"}   \* of a campaign
Listed == {"PACKAGE"}     \* GLOBAL, VEHICLE_TYPE, PACKAGE: the catalogue's
Offered(g) == package[g] # None /\ package[g].active
NoOrder == [pc |-> "idle", package |-> None, listed |-> None, price |-> None,
            first |-> FALSE, ahead |-> {}, unread |-> FALSE,
            campaign |-> None]
\* What a driver was shown is forgotten when it is edited.
Edit ==
    /\ edits < MaxEdits /\ edits' = edits + 1
    /\ order' = [b \in Orders |->
          IF order[b].pc \in {"shown", "prior", "campaign"}
          THEN [order[b] EXCEPT !.listed = None] ELSE order[b]]

CatalogueInit ==
    /\ package = [g \in Packages |->
          IF g \in Seeded THEN [active |-> TRUE, deleted |-> FALSE, price |-> 1]
          ELSE None]
    /\ \/ campaigns = <<>>
       \/ \E kind \in Kinds, price \in Prices :
             campaigns = <<[kind |-> kind, target |-> None, price |-> price,
                            status |-> "ACTIVE", priority |-> 0]>>
    /\ order = [b \in Orders |-> NoOrder]
    /\ edits = 0

-----------------------------------------------------------------------------
(* The console: a statement (or transaction) of the repository each, which  *)
(* is refused when it finds no row.                                         *)

\* The row and version 1, in a transaction.
CreatePackage(g, price) ==
    package' = [package EXCEPT ![g] =
          [active |-> TRUE, deleted |-> FALSE, price |-> price]]
AdminCreatePackage(g, price) ==
    /\ package[g] = None
    /\ CreatePackage(g, price)
    /\ Edit /\ UNCHANGED campaigns

\* WHERE deleted_at IS NULL: a deleted package is never on sale again.
Kept(g) == package[g] # None /\ ~package[g].deleted
\* The row and its ACTIVE version, in a transaction.
UpdatePackage(g, price) == package' = [package EXCEPT ![g].price = price]
AdminUpdatePackage(g, price) ==
    /\ Kept(g) /\ UpdatePackage(g, price)
    /\ Edit /\ UNCHANGED campaigns

SetPackageActive(g, active) == package' = [package EXCEPT ![g].active = active]
AdminTogglePackage(g, active) ==
    /\ Kept(g) /\ SetPackageActive(g, active)
    /\ Edit /\ UNCHANGED campaigns

DeletePackage(g) ==
    package' = [package EXCEPT ![g].deleted = TRUE, ![g].active = FALSE]
AdminDeletePackage(g) ==
    /\ Kept(g) /\ DeletePackage(g)
    /\ Edit /\ UNCHANGED campaigns

CreateCampaign(kind, target, price) ==
    campaigns' = Append(campaigns,
          [kind |-> kind, target |-> target, price |-> price,
           status |-> "DRAFT", priority |-> 0])
AdminCreateCampaign(kind, target, price) ==
    /\ CreateCampaign(kind, target, price)
    /\ Edit /\ UNCHANGED package

\* Any field but the kind; one at a time here.
Amended(c) ==
    {[campaigns[c] EXCEPT !.priority = 1]}
        \cup {[campaigns[c] EXCEPT !.price = p] : p \in Prices}
        \cup {[campaigns[c] EXCEPT !.target = g] : g \in Packages}
UpdateCampaign(c, row) == campaigns' = [campaigns EXCEPT ![c] = row]
AdminUpdateCampaign(c, row) ==
    /\ row # campaigns[c] /\ UpdateCampaign(c, row)
    /\ Edit /\ UNCHANGED package

SetCampaignStatus(c, status) ==
    UpdateCampaign(c, [campaigns[c] EXCEPT !.status = status])
AdminSetCampaignStatus(c, status) ==
    /\ campaigns[c].status # status /\ SetCampaignStatus(c, status)
    /\ Edit /\ UNCHANGED package
AdminDeleteCampaign(c) == AdminSetCampaignStatus(c, "ARCHIVED")

-----------------------------------------------------------------------------
(* Which campaign applies: the highest priority, then the newest.           *)

Applies(c, g, kinds) ==
    /\ campaigns[c].status = "ACTIVE"
    /\ campaigns[c].target \in {None, g}
    /\ campaigns[c].kind \in kinds
Best(g, kinds) ==
    LET fit == {c \in DOMAIN campaigns : Applies(c, g, kinds)}
        before(c, d) ==     \* ORDER BY priority DESC, created_at DESC
            \/ campaigns[c].priority > campaigns[d].priority
            \/ campaigns[c].priority = campaigns[d].priority /\ c > d
    IN  IF fit = {} THEN None
        ELSE CHOOSE c \in fit : \A d \in fit \ {c} : before(c, d)
\* NULL keeps the version's value.
Override(price, c) ==
    IF c = None THEN price
    ELSE IF campaigns[c].price = None THEN price ELSE campaigns[c].price

-----------------------------------------------------------------------------
(* The driver.                                                              *)

\* Mutant: shows the version's own price.
MutListCatalog(b, g) ==
    /\ order[b].pc = "idle" /\ Offered(g) /\ ~package[g].deleted
    /\ order' = [order EXCEPT ![b] = [NoOrder EXCEPT
          !.pc = "shown", !.package = g,
          !.listed = package[g].price]]
    /\ UNCHANGED <<package, campaigns, edits>>

ListCatalog(b, g) ==
    /\ order[b].pc = "idle" /\ Offered(g) /\ ~package[g].deleted
    /\ order' = [order EXCEPT ![b] = [NoOrder EXCEPT
          !.pc = "shown", !.package = g,
          !.listed = Override(package[g].price, Best(g, Listed))]]
    /\ UNCHANGED <<package, campaigns, edits>>

\* resolveOffer: the version of a package on sale (deleted_at is not asked);
ResolveVersion(b) ==
    LET o == order[b] IN
    /\ o.pc = "shown"
    /\ order' = [order EXCEPT ![b] =
          IF Offered(o.package)
          THEN [o EXCEPT !.pc = "prior", !.price = package[o.package].price]
          ELSE NoOrder]
    /\ UNCHANGED <<package, campaigns, edits>>

PaidFor == {b \in Orders : order[b].pc = "PAID"}

\* Mutant: every purchase is somebody's first.
MutResolvePrior(b) ==
    /\ order[b].pc = "prior"
    /\ order' = [order EXCEPT ![b] =
          [@ EXCEPT !.pc = "campaign", !.ahead = PaidFor, !.first = TRUE]]
    /\ UNCHANGED <<package, campaigns, edits>>

\* is there a PAID purchase (a query whose error is dropped: what it does not
\* answer is no);
ResolvePrior(b) ==
    /\ order[b].pc = "prior"
    /\ \E fails \in BOOLEAN :
          order' = [order EXCEPT ![b] =
                [@ EXCEPT !.pc = "campaign", !.ahead = PaidFor,
                          !.unread = fails,
                          !.first = (fails \/ PaidFor = {})]]
    /\ UNCHANGED <<package, campaigns, edits>>

\* the campaign, of any kind but FIRST_PURCHASE if there is.
ResolveCampaign(b) ==
    LET o == order[b]
        kinds == IF o.first THEN Kinds ELSE Kinds \ {"FIRST_PURCHASE"}
        c == Best(o.package, kinds) IN
    /\ o.pc = "campaign"
    /\ order' = [order EXCEPT ![b] =
          [o EXCEPT !.pc = "insert", !.price = Override(o.price, c),
                    !.campaign = IF c = None THEN None ELSE campaigns[c].kind]]
    /\ UNCHANGED <<package, campaigns, edits>>

\* The offer is frozen; a free one is PAID at once.
CreatePurchaseRow(b) ==
    /\ order[b].pc = "insert"
    /\ order' = [order EXCEPT ![b] =
          [@ EXCEPT !.listed = None, !.first = FALSE,
                    !.pc = IF order[b].price = 0 THEN "PAID" ELSE "PENDING"]]
    /\ UNCHANGED <<package, campaigns, edits>>

\* confirm (module Purchase)
SettleOrder(b, status) ==
    /\ order[b].pc = "PENDING"
    /\ order' = [order EXCEPT ![b] =
          IF status = "PAID" THEN [@ EXCEPT !.pc = "PAID"] ELSE NoOrder]
    /\ UNCHANGED <<package, campaigns, edits>>

CatalogueNext ==
    \/ \E g \in Packages, price \in Prices :
          AdminCreatePackage(g, price) \/ AdminUpdatePackage(g, price)
    \/ \E g \in Packages :
          \/ AdminDeletePackage(g)
          \/ \E active \in BOOLEAN : AdminTogglePackage(g, active)
    \/ \E kind \in Kinds, target \in Seeded \cup {None},
          price \in Prices \cup {None} : AdminCreateCampaign(kind, target, price)
    \/ \E c \in DOMAIN campaigns :
          \/ \E row \in Amended(c) : AdminUpdateCampaign(c, row)
          \/ \E status \in {"ACTIVE", "EXPIRED"} : AdminSetCampaignStatus(c, status)
          \/ AdminDeleteCampaign(c)
    \/ \E b \in Orders :
          \/ \E g \in Packages : ListCatalog(b, g)
          \/ ResolveVersion(b) \/ ResolvePrior(b) \/ ResolveCampaign(b)
          \/ CreatePurchaseRow(b)
          \/ \E status \in {"PAID", "FAILED"} : SettleOrder(b, status)

-----------------------------------------------------------------------------
(* Properties.                                                              *)

\* A driver pays the price the catalogue showed (ListCatalog, resolveOffer)
\* unless an admin edited it in between or the campaign that applied is of a
\* kind the catalogue does not show.
ChargedAsListed ==
    \A b \in Orders :
        order[b].pc = "insert" /\ order[b].listed # None
            => \/ order[b].price = order[b].listed
               \/ order[b].campaign \notin Listed \cup {None}

\* "FIRST_PURCHASE campaigns only apply if the driver has no prior PAID
\* purchase" (resolveOffer): two purchases get that price only if neither was
\* PAID when the other's offer was resolved, or the query for it failed: its
\* error is dropped, and a returning driver is then taken for a new one.
FirstPriceOnce ==
    \A b, d \in Orders :
        /\ b # d
        /\ {order[b].campaign, order[d].campaign} = {"FIRST_PURCHASE"}
        => b \notin order[d].ahead \/ order[d].unread

\* A package that was deleted is never offered again, though resolveOffer asks
\* for is_active only (DeletePackage, SetPackageActive).
DeletedNeverOffered ==
    \A g \in Packages : package[g] # None /\ package[g].deleted => ~Offered(g)

\* What a driver is charged is what the catalogue, the campaigns and the
\* driver's earlier purchases say, at the three statements that read them
\* (ListCatalog, resolveOffer).
PurchasePriced == ChargedAsListed /\ FirstPriceOnce
=============================================================================
