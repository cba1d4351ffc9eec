--------------------------- MODULE Office_proofs ---------------------------
(***************************************************************************)
(* Proofs about the office (MCOffice), for any claims, sales, packages,    *)
(* admins, prices, regions, papers, errors and commands: the seven         *)
(* properties its run checks.  Each part has an invariant of its own, and  *)
(* two lemmas: it holds at the start, and the part's steps keep it.        *)
(***************************************************************************)
EXTENDS MCOffice, Purchase_proofs, FiniteSetTheorems, SequenceTheorems,
        WellFoundedInduction

\* A set of naturals has a least member.
LEMMA LeastThere ==
    ASSUME NEW S \in SUBSET Nat, S # {}
    PROVE  \E m \in S : \A n \in S : m <= n
  <1> DEFINE R == OpToRel(<, Nat)
  <1>1. \E m \in S : \A n \in S : ~(<<n, m>> \in R)
    BY NatLessThanWellFounded, WFMin
  <1>2. \A m, n \in S : <<n, m>> \in R <=> n < m
    BY DEF OpToRel
  <1> HIDE DEF R
  <1>3. \A m, n \in S : ~(n < m) => m <= n
    OBVIOUS
  <1> QED
    BY <1>1, <1>2, <1>3

-----------------------------------------------------------------------------
(* The claims.                                                              *)

\* A claim's sale is sold: its row is PAID, and all of its credits are there.
Granted(s) == row[s].status = "PAID" /\ credits[s] = AllCredits

\* How far an admin's sale has come, by where its request is.
SalesOK ==
    \A s \in Claimed :
        /\ request[s] \in {"idle", "insert"} => row[s].status = None
        /\ request[s] # "prompt"
        /\ request[s] = "bonus" => "rides" \in credits[s]
        /\ request[s] \in Posting \cup {"granted", "done"} =>
              credits[s] = AllCredits
        /\ request[s] = "done" => row[s].status = "PAID"

\* An approval that is about to mark its claim has made the grant.
ClaimRow == [status : ClaimStatus \cup {None}, custom : BOOLEAN,
             sale : Sales \cup {None}]
ClaimsOK ==
    /\ claim \in [Claims -> ClaimRow]
    /\ driver \in [Claims -> {"submitted", "cancelled", None}]
    /\ review = [p \in Reviews |-> review[p]] /\ topUps \subseteq Reviews
    /\ \A c \in Claims :
          /\ driver[c] # None => claim[c].status # None
          /\ claim[c].status = "approved" /\ ~Custom(c) =>
                claim[c].sale \in Claimed
    /\ \A p \in Reviews :
          /\ review[p] # "idle" => claim[p[1]].status # None
          /\ review[p] = "granting" => ~Custom(p[1])
          /\ review[p] = "approve" =>
                IF Custom(p[1]) THEN p \in topUps ELSE Granted(SaleOf[p])
ClaimsInv == IInv /\ SalesOK /\ ClaimsOK /\ ApprovedIsGranted

\* There is no claim, and no sale.
LEMMA ClaimsInvInit == ClaimsInit => ClaimsInv
  <1> SUFFICES ASSUME ClaimsInit PROVE ClaimsInv
    OBVIOUS
  <1>1. IInv
    BY InitIInv DEF ClaimsInit
  <1>2. SalesOK
    <2>1. Claimed \subseteq Sales
      BY PurchaseAssumption
    <2> QED
      BY <2>1 DEF ClaimsInit, Init, SalesOK, NoRow, Posting
  <1>3. NoClaim \in ClaimRow /\ NoClaim.status = None
    BY DEF NoClaim, ClaimRow
  <1>4. /\ claim = [c \in Claims |-> NoClaim]
        /\ driver = [c \in Claims |-> None]
        /\ review = [p \in Reviews |-> "idle"] /\ topUps = {}
    BY DEF ClaimsInit
  <1>5. ClaimsOK
    BY <1>3, <1>4, ClaimsAssumption DEF ClaimsOK
  <1>6. ApprovedIsGranted
    BY <1>3, <1>4, ClaimsAssumption DEF ApprovedIsGranted
  <1> QED
    BY <1>1, <1>2, <1>5, <1>6 DEF ClaimsInv

\* The sale of a claim has a key of its own, and is granted at once.
LEMMA ClaimedSale ==
    ASSUME NEW s \in Claimed
    PROVE  /\ s \in Sales /\ AtOnce(s) /\ Path[s] = "office"
           /\ \A u \in Sales : Key[u] = Key[s] => u = s
           /\ None # "PAID"
  BY PurchaseAssumption DEF AtOnce

\* A step of another sale, or one that leaves request, status and credits.
LEMMA SaleStays ==
    ASSUME NEW s \in Claimed, SalesOK,
           request'[s] = request[s], row'[s].status = row[s].status,
           credits'[s] = credits[s]
    PROVE  /\ request'[s] \in {"idle", "insert"} => row'[s].status = None
           /\ request'[s] # "prompt"
           /\ request'[s] = "bonus" => "rides" \in credits'[s]
           /\ request'[s] \in Posting \cup {"granted", "done"} =>
                 credits'[s] = AllCredits
           /\ request'[s] = "done" => row'[s].status = "PAID"
           /\ Granted(s) => row'[s].status = "PAID" /\ credits'[s] = AllCredits
  BY DEF SalesOK, Granted

\* A request that makes the sale of a claim keeps to SalesOK, and what is
\* granted stays so.
LEMMA SaleCreated ==
    ASSUME IInv, SalesOK, NEW u \in Sales, Create(u)
    PROVE  SalesOK' /\ \A s \in Claimed : Granted(s) => Granted(s)'
  <1> DEFINE Keeps(s) ==
               /\ request'[s] \in {"idle", "insert"} => row'[s].status = None
               /\ request'[s] # "prompt"
               /\ request'[s] = "bonus" => "rides" \in credits'[s]
               /\ request'[s] \in Posting \cup {"granted", "done"} =>
                     credits'[s] = AllCredits
               /\ request'[s] = "done" => row'[s].status = "PAID"
               /\ Granted(s) => row'[s].status = "PAID"
                  /\ credits'[s] = AllCredits
  <1>0. /\ request \in [Sales -> Steps] /\ row \in [Sales -> Row]
        /\ credits \in [Sales -> SUBSET AllCredits]
    BY DEF IInv, TypeOK
  <1>1. ASSUME NEW s \in Claimed PROVE Keeps(s)
    <2>1. s \in Sales /\ AtOnce(s) /\ Path[s] = "office"
          /\ (\A v \in Sales : Key[v] = Key[s] => v = s) /\ None # "PAID"
      BY ClaimedSale
    <2>2. CASE u # s
      <3>1. /\ request'[s] = request[s] /\ row'[s] = row[s]
            /\ credits'[s] = credits[s]
        BY <1>0, <2>1, <2>2
           DEF Create, Begin, Insert, Prompt, Abort, MarkPaid, GrantRides,
               GrantBonus, MarkGranted, PostEntry, PostLine, PostFails, GoTo
      <3> QED
        BY <3>1, SaleStays
    <2>3. CASE u = s
      <3>0. /\ s \in Claimed /\ request[s] \in Steps /\ row[s] \in Row
            /\ credits[s] \subseteq AllCredits
            /\ (request[s] \in Writing => row[s].status = "PAID")
        BY <1>0, <2>1 DEF IInv, RequestOK
      <3>1. CASE Insert(s)
        <4>1. request[s] = "insert" /\ row[s].status = None
          BY <3>1 DEF Insert, SalesOK
        <4>2. ~KeyTaken(s)
          BY <2>1, <4>1 DEF KeyTaken
        <4>3. /\ request' = [request EXCEPT ![s] = "markPaid"]
              /\ row' = [row EXCEPT ![s].status = "PAID"] /\ credits' = credits
          BY <2>1, <3>1, <4>2 DEF Insert, Opened, GoTo
        <4>4. request'[s] = "markPaid" /\ row'[s].status = "PAID"
          BY <1>0, <2>1, <4>3 DEF Row
        <4> QED
          BY <4>1, <4>3, <4>4 DEF Granted, Posting
      <3>2. CASE Prompt(s) \/ Abort(s)
        <4>1. Abort(s)
          BY <3>2 DEF Prompt, SalesOK
        <4>2. request'[s] = "failed" /\ UNCHANGED <<row, credits>>
          BY <1>0, <2>1, <4>1 DEF Abort, GoTo
        <4> QED
          BY <4>2 DEF Granted, Posting
      <3>3. CASE MarkPaid(s)
        <4>1. /\ request'[s] = "rides" /\ row'[s].status = row[s].status
              /\ credits' = credits
          BY <1>0, <2>1, <3>3 DEF MarkPaid, GoTo, Row
        <4> QED
          BY <4>1 DEF Granted, Posting
      <3>4. CASE GrantRides(s)
        <4>1. /\ request'[s] = "bonus" /\ UNCHANGED row
              /\ credits'[s] = credits[s] \cup {"rides"}
          BY <1>0, <2>1, <3>4 DEF GrantRides, GoTo
        <4> QED
          BY <4>1 DEF Granted, Posting, AllCredits
      <3>5. CASE GrantBonus(s)
        <4>1. /\ request'[s] = "granted" /\ UNCHANGED row
              /\ credits'[s] = credits[s] \cup {"bonus"}
              /\ "rides" \in credits[s]
          BY <1>0, <2>1, <3>5 DEF GrantBonus, GoTo, SalesOK
        <4>2. credits'[s] = AllCredits
          BY <3>0, <4>1 DEF AllCredits
        <4> QED
          BY <4>1, <4>2 DEF Granted, Posting
      <3>6. CASE MarkGranted(s)
        <4>1. /\ request'[s] \in {"entry", "done"} /\ request[s] = "granted"
              /\ UNCHANGED credits
          BY <1>0, <2>1, <3>6 DEF MarkGranted, GoTo
        <4>2. row'[s].status = row[s].status
          BY <1>0, <2>1, <3>6 DEF MarkGranted, Row
        <4>3. credits[s] = AllCredits /\ row[s].status = "PAID"
          BY <3>0, <4>1 DEF SalesOK, Writing
        <4> QED
          BY <4>1, <4>2, <4>3 DEF Granted, Posting
      <3>7. CASE PostEntry(s) \/ PostLine(s) \/ PostFails(s)
        <4>1. /\ request'[s] \in Posting \cup {"done"}
              /\ request[s] \in Posting
              /\ UNCHANGED <<row, credits>>
          BY <1>0, <2>1, <3>7 DEF PostEntry, PostLine, PostFails, GoTo, Posting
        <4>2. credits[s] = AllCredits /\ row[s].status = "PAID"
          BY <3>0, <4>1 DEF SalesOK, Writing, Posting
        <4> QED
          BY <4>1, <4>2 DEF Granted, Posting
      <3> QED
        BY <2>3, <3>0, <3>1, <3>2, <3>3, <3>4, <3>5, <3>6, <3>7 DEF Create
    <2> QED
      BY <2>2, <2>3
  <1> QED
    BY <1>1 DEF SalesOK, Granted

\* The same of every step of the purchases.
LEMMA SaleStep ==
    ASSUME IInv, SalesOK, [Next]_vars
    PROVE  SalesOK' /\ \A s \in Claimed : Granted(s) => Granted(s)'
  <1>0. /\ row \in [Sales -> Row] /\ calls \subseteq Call
        /\ Claimed \subseteq Sales
    BY PurchaseAssumption DEF IInv, TypeOK
  <1>1. ASSUME \A s \in Claimed : /\ request'[s] = request[s]
                                  /\ row'[s].status = row[s].status
                                  /\ credits'[s] = credits[s]
        PROVE  SalesOK' /\ \A s \in Claimed : Granted(s) => Granted(s)'
    BY <1>1, SaleStays DEF SalesOK, Granted
  <1>2. CASE UNCHANGED vars
    BY <1>1, <1>2 DEF vars
  <1>3. ASSUME NEW s \in Sales, Others(s) PROVE UNCHANGED <<request, credits>>
                                /\ \A u \in Sales :
                                   row'[u].status = row[u].status
    BY <1>0, <1>3
       DEF Others, Backfill, Answer, Webhook, Sweep, Poll, AdminConfirm,
           WindowLapses, SubmitProof, Row
  <1>4. ASSUME NEW c \in calls, Settle(c)
        PROVE  /\ UNCHANGED request
               /\ \A u \in Claimed : row'[u] = row[u]
                  /\ credits'[u] = credits[u]
    <2>1. c.sale \in Sales /\ row[c.sale].status = "PENDING"
      BY <1>0, <1>4 DEF Settle, OpenRow, Call
    <2>2. c.sale \notin Claimed
      BY <2>1, ClaimedSale DEF IInv, RowOK
    <2>3. credits \in [Sales -> SUBSET AllCredits]
      BY DEF IInv, TypeOK
    <2> QED
      BY <1>0, <1>4, <2>1, <2>2, <2>3 DEF Settle, SettlePaid, SettleUnpaid
  <1> QED
    BY <1>0, <1>1, <1>2, <1>3, <1>4, SaleCreated DEF Next

\* An approval opens its sale: its key is not known yet.
LEMMA SaleBegun ==
    ASSUME IInv, SalesOK, NEW s \in Claimed, Begin(s)
    PROVE  IInv' /\ SalesOK' /\ \A u \in Claimed : Granted(u) => Granted(u)'
  <1>0. /\ s \in Sales /\ (\A u \in Sales : Key[u] = Key[s] => u = s)
        /\ request \in [Sales -> Steps]
    BY ClaimedSale DEF IInv, TypeOK
  <1>1. request[s] = "idle" /\ row[s].status = None
    BY DEF Begin, SalesOK
  <1>2. /\ request' = [request EXCEPT ![s] = "insert"]
        /\ UNCHANGED <<row, credits, journal, charge, calls>>
    BY <1>0, <1>1 DEF Begin, GoTo
  <1>3. TypeOK'
    BY <1>2 DEF IInv, TypeOK, Steps
  <1>4. RequestOK'
    BY <1>0, <1>1, <1>2 DEF IInv, RequestOK, Writing
  <1>5. IInv'
    BY <1>2, <1>3, <1>4
       DEF IInv, RowOK, CallOK, DeliveredOK, OneSalePerKey,
           OneTransactionOneSale, OnlyPaidDelivers, SettledForAReason
  <1>6. SalesOK'
    BY <1>0, <1>1, <1>2, ClaimedSale DEF SalesOK, Posting
  <1> QED
    BY <1>2, <1>5, <1>6 DEF Granted

\* Claims are as they were, and what was granted is.
LEMMA ClaimsStand ==
    ASSUME ClaimsInv, UNCHANGED claimVars,
           \A s \in Claimed : Granted(s) => Granted(s)'
    PROVE  ClaimsOK' /\ ApprovedIsGranted'
  <1>1. ClaimsOK'
    BY ClaimsAssumption DEF ClaimsInv, ClaimsOK, claimVars, Custom
  <1>2. ApprovedIsGranted'
    BY DEF ClaimsInv, ClaimsOK, ApprovedIsGranted, claimVars, Custom, Granted
  <1> QED
    BY <1>1, <1>2

\* What a driver does to his claim: never approve it.
LEMMA DriverKeeps ==
    ASSUME ClaimsInv, NEW c \in Claims,
           \/ CreateClaim(c) \/ ClaimLapses(c) \/ DriverReads(c)
              \/ DriverWrites(c)
    PROVE  ClaimsInv'
  <1>1. UNCHANGED vars /\ UNCHANGED <<review, topUps>>
    BY DEF CreateClaim, ClaimLapses, DriverReads, DriverWrites
  <1>2. IInv' /\ SalesOK' /\ \A s \in Claimed : Granted(s)' <=> Granted(s)
    BY <1>1, IInvStep, SaleStep DEF ClaimsInv, Granted, vars
  <1>3. /\ claim \in [Claims -> ClaimRow] /\ claim[c] \in ClaimRow
        /\ driver \in [Claims -> {"submitted", "cancelled", None}]
        /\ driver[c] # None => claim[c].status # None
        /\ None \notin ClaimStatus
    BY ClaimsAssumption DEF ClaimsInv, ClaimsOK, ClaimStatus
  <1>4. PICK r \in ClaimRow :
          /\ claim' = [claim EXCEPT ![c] = r]
          /\ r.status = "approved" => r = claim[c]
          /\ claim[c].status # None => r.custom = claim[c].custom
             /\ r.status # None
    <2>1. CASE CreateClaim(c)
      <3>1. PICK custom \in BOOLEAN :
              claim' = [claim EXCEPT ![c] =
                           [claim[c] EXCEPT !.status = "created",
                             !.custom = custom]]
        BY <2>1 DEF CreateClaim
      <3>2. [claim[c] EXCEPT !.status = "created",
              !.custom = custom] \in ClaimRow
        BY <1>3 DEF ClaimRow, ClaimStatus
      <3> QED
        BY <2>1, <3>1, <3>2, <1>3 DEF CreateClaim, ClaimRow
    <2>2. CASE ClaimLapses(c)
      BY <1>3, <2>2 DEF ClaimLapses
    <2>3. CASE DriverReads(c)
      <3> DEFINE st == AfterExpiry(c)
      <3>1. claim[c].status # None /\ st \in ClaimStatus
            /\ (st = "approved" => st = claim[c].status)
        BY <1>3, <2>3 DEF DriverReads, AfterExpiry, ClaimStatus, ClaimRow
      <3>2. claim' = [claim EXCEPT ![c] = [claim[c] EXCEPT !.status = st]]
        BY <2>3 DEF DriverReads
      <3> HIDE DEF st
      <3>3. /\ [claim[c] EXCEPT !.status = st] \in ClaimRow
            /\ [claim[c] EXCEPT !.status = st].status = st
            /\ [claim[c] EXCEPT !.status = st].custom = claim[c].custom
            /\ st = claim[c].status =>
               [claim[c] EXCEPT !.status = st] = claim[c]
        BY <1>3, <3>1 DEF ClaimRow
      <3> QED
        BY <1>3, <3>1, <3>2, <3>3
    <2>4. CASE DriverWrites(c)
      <3> DEFINE st == driver[c]
      <3>1. claim[c].status # None /\ st \in ClaimStatus /\ st # "approved"
        BY <1>3, <2>4 DEF DriverWrites, ClaimStatus
      <3>2. claim' = [claim EXCEPT ![c] = [claim[c] EXCEPT !.status = st]]
        BY <2>4 DEF DriverWrites
      <3> HIDE DEF st
      <3>3. /\ [claim[c] EXCEPT !.status = st] \in ClaimRow
            /\ [claim[c] EXCEPT !.status = st].status = st
            /\ [claim[c] EXCEPT !.status = st].custom = claim[c].custom
        BY <1>3, <3>1 DEF ClaimRow
      <3> QED
        BY <1>3, <3>1, <3>2, <3>3
    <2> QED
      BY <2>1, <2>2, <2>3, <2>4
  <1>5. /\ driver' \in [Claims -> {"submitted", "cancelled", None}]
        /\ \A d \in Claims : driver'[d] # None => claim'[d].status # None
    <2>1. /\ driver' \in [Claims -> {"submitted", "cancelled", None}]
          /\ \A d \in Claims \ {c} : driver'[d] = driver[d]
          /\ driver'[c] # None => claim[c].status # None
      <3>1. CASE CreateClaim(c) \/ ClaimLapses(c)
        BY <1>3, <3>1 DEF CreateClaim, ClaimLapses
      <3>2. CASE DriverReads(c)
        <4>1. \/ \E st \in {"submitted", "cancelled"} :
                 driver' = [driver EXCEPT ![c] = st]
              \/ UNCHANGED driver
          BY <3>2 DEF DriverReads, Transitions
        <4>2. claim[c].status # None
          BY <3>2 DEF DriverReads
        <4> QED
          BY <1>3, <4>1, <4>2
      <3>3. CASE DriverWrites(c)
        BY <1>3, <3>3 DEF DriverWrites
      <3> QED
        BY <3>1, <3>2, <3>3
    <2> QED
      BY <1>3, <1>4, <2>1 DEF ClaimsInv, ClaimsOK
  <1>6. /\ claim' \in [Claims -> ClaimRow] /\ claim'[c] = r
        /\ \A d \in Claims : d # c => claim'[d] = claim[d]
    BY <1>3, <1>4
  <1>7. \A p \in Reviews :
          /\ p[1] \in Claims /\ SaleOf[p] \in Claimed
          /\ review[p] # "idle" => claim'[p[1]].status # None
                                   /\ claim'[p[1]].custom = claim[p[1]].custom
    BY <1>4, <1>6, ClaimsAssumption DEF ClaimsInv, ClaimsOK
  <1>8. ClaimsOK'
    <2>1. \A d \in Claims : claim'[d].status = "approved" =>
            claim'[d] = claim[d]
      BY <1>4, <1>6
    <2>2. \A p \in Reviews :
            /\ review'[p] = "granting" => ~Custom(p[1])'
            /\ review'[p] = "approve" =>
                 IF Custom(p[1])' THEN p \in topUps' ELSE Granted(SaleOf[p])'
      BY <1>1, <1>2, <1>7 DEF ClaimsInv, ClaimsOK, Custom
    <2> QED
      BY <1>1, <1>5, <1>6, <1>7, <2>1, <2>2 DEF ClaimsInv, ClaimsOK, Custom
  <1>9. ApprovedIsGranted'
    <2>1. \A d \in Claims : claim'[d].status = "approved" =>
            claim'[d] = claim[d]
      BY <1>4, <1>6
    <2> QED
      BY <1>1, <2>1 DEF ClaimsInv, ApprovedIsGranted, Custom, vars
  <1> QED
    BY <1>2, <1>8, <1>9 DEF ClaimsInv

\* An admin's request moves on, or marks the claim as what it decided: approved
\* when the grant was made.
LEMMA ReviewKeeps ==
    ASSUME ClaimsInv, NEW p \in Reviews,
           NEW pc \in {"grant", "granting", "approve", "reject", "done"},
           ReviewTo(p, pc), UNCHANGED <<late, driver>>,
           NEW r \in ClaimRow, claim' = [claim EXCEPT ![p[1]] = r],
           claim[p[1]].status # None, r.status # None,
           r.custom = claim[p[1]].custom,
           topUps' \in {topUps, topUps \cup {p}},
           r # claim[p[1]] /\ r.status = "approved" =>
              /\ review[p] = "approve" /\ r.sale = Activation(p),
           pc = "granting" => ~Custom(p[1]),
           pc = "approve" => IF Custom(p[1]) THEN p \in topUps'
                             ELSE Granted(SaleOf[p])',
           IInv', SalesOK', \A s \in Claimed : Granted(s) => Granted(s)'
    PROVE  ClaimsInv'
  <1> DEFINE c == p[1]
  <1>1. /\ c \in Claims /\ SaleOf[p] \in Claimed
        /\ claim \in [Claims -> ClaimRow]
        /\ \A q \in Reviews : q[1] \in Claims /\ SaleOf[q] \in Claimed
        /\ Claimed \subseteq Sales
    BY ClaimsAssumption, PurchaseAssumption DEF ClaimsInv, ClaimsOK
  <1> HIDE DEF c
  <1>2. /\ claim' \in [Claims -> ClaimRow] /\ claim'[c] = r
        /\ \A d \in Claims : d # c => claim'[d] = claim[d]
    BY <1>1 DEF c
  <1>3. \A d \in Claims : Custom(d)' <=> Custom(d)
    BY <1>2 DEF Custom, c
  <1>4. /\ review' = [q \in Reviews |-> review'[q]] /\ review'[p] = pc
        /\ \A q \in Reviews : q # p => review'[q] = review[q]
    BY DEF ClaimsInv, ClaimsOK, ReviewTo
  <1>5. \A d \in Claims : claim[d].status # None => claim'[d].status # None
    BY <1>2
  <1>6. r # claim[c] /\ r.status = "approved" =>
           IF Custom(c) THEN p \in topUps
           ELSE r.sale = SaleOf[p] /\ Granted(SaleOf[p])
    BY DEF c, ClaimsInv, ClaimsOK, Activation
  <1>7. topUps \subseteq topUps' /\ topUps' \subseteq Reviews
    BY DEF ClaimsInv, ClaimsOK
  <1>8. ASSUME NEW d \in Claims, claim'[d].status = "approved"
        PROVE  IF Custom(d)' THEN \E q \in topUps' : q[1] = d
               ELSE /\ claim'[d].sale \in Claimed
                    /\ row'[claim'[d].sale].status = "PAID"
                    /\ credits'[claim'[d].sale] = AllCredits
    <2>1. CASE claim'[d] = claim[d]
      <3>1. /\ Custom(d) => \E q \in topUps : q[1] = d
            /\ ~Custom(d) => claim[d].sale \in Claimed
               /\ Granted(claim[d].sale)
        BY <1>8, <2>1 DEF ClaimsInv, ClaimsOK, ApprovedIsGranted, Granted
      <3> QED
        BY <1>3, <1>7, <2>1, <3>1 DEF Granted
    <2>2. CASE claim'[d] # claim[d]
      <3>1. d = c /\ claim'[d] = r /\ r # claim[c] /\ r.status = "approved"
        BY <1>2, <1>8, <2>2
      <3>2. IF Custom(c) THEN p \in topUps
            ELSE r.sale = SaleOf[p] /\ Granted(SaleOf[p])'
        BY <1>1, <1>6, <3>1
      <3>3. CASE Custom(c)
        BY <1>3, <1>7, <3>1, <3>2, <3>3 DEF c
      <3>4. CASE ~Custom(c)
        BY <1>1, <1>3, <3>1, <3>2, <3>4 DEF Granted
      <3> QED
        BY <3>3, <3>4
    <2> QED
      BY <2>1, <2>2
  <1>9. ApprovedIsGranted'
    BY <1>1, <1>8 DEF ApprovedIsGranted, Granted
  <1>10. \A q \in Reviews :
            /\ review'[q] # "idle" => claim'[q[1]].status # None
            /\ review'[q] = "granting" => ~Custom(q[1])'
            /\ review'[q] = "approve" =>
                  IF Custom(q[1])' THEN q \in topUps' ELSE Granted(SaleOf[q])'
    <2>1. ASSUME NEW q \in Reviews, q # p
          PROVE  /\ review'[q] # "idle" => claim'[q[1]].status # None
                 /\ review'[q] = "granting" => ~Custom(q[1])'
                 /\ review'[q] = "approve" =>
                       IF Custom(q[1])' THEN q \in topUps'
                         ELSE Granted(SaleOf[q])'
      <3>1. /\ review[q] # "idle" => claim[q[1]].status # None
            /\ review[q] = "granting" => ~Custom(q[1])
            /\ review[q] = "approve" =>
                  IF Custom(q[1]) THEN q \in topUps ELSE Granted(SaleOf[q])
        BY DEF ClaimsInv, ClaimsOK
      <3>2. /\ q[1] \in Claims /\ SaleOf[q] \in Claimed
            /\ review'[q] = review[q]
            /\ Custom(q[1])' <=> Custom(q[1])
        BY <1>1, <1>3, <1>4, <2>1
      <3>3. Granted(SaleOf[q]) => Granted(SaleOf[q])'
        BY <3>2
      <3> QED
        BY <1>5, <1>7, <3>1, <3>2, <3>3
    <2>2. /\ claim'[p[1]].status # None
          /\ review'[p] = "granting" => ~Custom(p[1])'
          /\ review'[p] = "approve" =>
                IF Custom(p[1])' THEN p \in topUps' ELSE Granted(SaleOf[p])'
      BY <1>1, <1>2, <1>3, <1>4 DEF c
    <2> QED
      BY <2>1, <2>2
  <1>11. \A d \in Claims :
            /\ driver'[d] # None => claim'[d].status # None
            /\ claim'[d].status = "approved" /\ ~Custom(d)' =>
                  claim'[d].sale \in Claimed
    BY <1>5, <1>8 DEF ClaimsInv, ClaimsOK
  <1>12. ClaimsOK'
    BY <1>2, <1>4, <1>7, <1>10, <1>11 DEF ClaimsInv, ClaimsOK
  <1> QED
    BY <1>9, <1>12 DEF ClaimsInv

\* What an admin does, step by step.
LEMMA AdminKeeps ==
    ASSUME ClaimsInv, NEW p \in Reviews,
           \/ ReviewReads(p) \/ ReviewGrants(p) \/ ReviewGranted(p)
           \/ ReviewTopsUp(p) \/ ReviewApproves(p) \/ ReviewRejects(p)
           \/ ReviewAborts(p)
    PROVE  ClaimsInv'
  <1> DEFINE c == claim[p[1]]
  <1>1. /\ c \in ClaimRow /\ p[1] \in Claims /\ claim \in [Claims -> ClaimRow]
        /\ SaleOf[p] \in Claimed /\ Claimed \subseteq Sales
        /\ review[p] # "idle" => c.status # None
        /\ None \notin ClaimStatus
    BY ClaimsAssumption, PurchaseAssumption
       DEF ClaimsInv, ClaimsOK, ClaimStatus
  <1>2. claim = [claim EXCEPT ![p[1]] = c]
    BY <1>1
  <1>3. UNCHANGED vars => /\ IInv' /\ SalesOK'
                          /\ \A s \in Claimed : Granted(s)' <=> Granted(s)
    BY IInvStep, SaleStep DEF ClaimsInv, Granted, vars
  <1>4. CASE ReviewReads(p)
    <2>1. PICK pc \in {"grant", "reject"} : ReviewTo(p, pc)
      BY <1>4 DEF ReviewReads
    <2>2. c.status # None
      BY <1>1, <1>4 DEF ReviewReads, ClaimStatus
    <2> QED
      BY <1>1, <1>2, <1>3, <1>4, <2>1, <2>2, ReviewKeeps DEF ReviewReads
  <1>5. CASE ReviewGrants(p)
    <2>1. IInv' /\ SalesOK' /\ \A s \in Claimed : Granted(s) => Granted(s)'
      BY <1>1, <1>5, SaleBegun DEF ReviewGrants, ClaimsInv
    <2> QED
      BY <1>1, <1>2, <1>5, <2>1, ReviewKeeps DEF ReviewGrants
  <1>6. CASE ReviewGranted(p)
    <2> DEFINE pc == IF request[SaleOf[p]] = "done" THEN "approve" ELSE "done"
    <2>1. ReviewTo(p, pc) /\ UNCHANGED <<claim, late, driver, topUps, vars>>
          /\ review[p] = "granting" /\ pc \in {"approve", "done"}
      BY <1>6 DEF ReviewGranted
    <2>2. ~Custom(p[1])
      BY <2>1 DEF ClaimsInv, ClaimsOK
    <2>3. pc = "approve" => Granted(SaleOf[p])
      BY <1>1 DEF ClaimsInv, SalesOK, Granted
    <2> HIDE DEF pc
    <2> QED
      BY <1>1, <1>2, <1>3, <2>1, <2>2, <2>3, ReviewKeeps
  <1>7. CASE ReviewTopsUp(p)
    BY <1>1, <1>2, <1>3, <1>7, ReviewKeeps DEF ReviewTopsUp
  <1>8. CASE ReviewApproves(p)
    <2> DEFINE r == [c EXCEPT !.status = "approved", !.sale = Activation(p)]
    <2>1. /\ r \in ClaimRow /\ r.status = "approved" /\ r.custom = c.custom
          /\ r.sale = Activation(p) /\ r.status # None
      BY <1>1 DEF ClaimRow, ClaimStatus, Activation
    <2>2. /\ claim' = [claim EXCEPT ![p[1]] = r] /\ review[p] = "approve"
          /\ ReviewTo(p, "done") /\ UNCHANGED <<late, driver, topUps, vars>>
      BY <1>8 DEF ReviewApproves
    <2> HIDE DEF r
    <2> QED
      BY <1>1, <1>3, <2>1, <2>2, ReviewKeeps
  <1>9. CASE ReviewRejects(p)
    <2> DEFINE r == [c EXCEPT !.status = "rejected"]
    <2>1. /\ r \in ClaimRow /\ r.status = "rejected" /\ r.custom = c.custom
          /\ r.status # None
      BY <1>1 DEF ClaimRow, ClaimStatus
    <2>2. /\ claim' = [claim EXCEPT ![p[1]] = r] /\ review[p] = "reject"
          /\ ReviewTo(p, "done") /\ UNCHANGED <<late, driver, topUps, vars>>
      BY <1>9 DEF ReviewRejects
    <2> HIDE DEF r
    <2> QED
      BY <1>1, <1>3, <2>1, <2>2, ReviewKeeps
  <1>10. CASE ReviewAborts(p)
    BY <1>1, <1>2, <1>3, <1>10, ReviewKeeps DEF ReviewAborts
  <1> QED
    BY <1>4, <1>5, <1>6, <1>7, <1>8, <1>9, <1>10

\* Drivers, admins, and the purchases themselves.
LEMMA ClaimsKept == ASSUME ClaimsInv, ClaimsNext PROVE ClaimsInv'
  <1>1. ASSUME Next, UNCHANGED claimVars PROVE ClaimsInv'
    <2>1. IInv' /\ SalesOK' /\ \A s \in Claimed : Granted(s) => Granted(s)'
      BY <1>1, IInvStep, SaleStep DEF ClaimsInv
    <2> QED
      BY <1>1, <2>1, ClaimsStand DEF ClaimsInv
  <1> QED
    BY <1>1, DriverKeeps, AdminKeeps DEF ClaimsNext, DriverNext, AdminNext

-----------------------------------------------------------------------------
(* The catalogue.                                                           *)

PackageRow == [active : BOOLEAN, deleted : BOOLEAN, price : Prices]
Statuses == {"DRAFT", "ACTIVE", "EXPIRED", "ARCHIVED"}
Campaign == [kind : Kinds, target : Packages \cup {None},
             price : Prices \cup {None}, status : Statuses, priority : {0, 1}]
OrderPoints == {"idle", "shown", "prior", "campaign", "insert", "PENDING",
  "PAID"}
OrderRow == [pc : OrderPoints, package : Packages \cup {None},
             listed : Nat \cup {None}, price : Nat \cup {None},
             first : BOOLEAN, ahead : SUBSET Orders, unread : BOOLEAN,
             campaign : Kinds \cup {None}]
CatalogueType ==
    /\ package \in [Packages -> PackageRow \cup {None}]
    /\ campaigns \in Seq(Campaign)
    /\ order \in [Orders -> OrderRow]

\* The campaign that applies, said without choosing one: None if no other.
Fits(g, kinds) == {c \in DOMAIN campaigns : Applies(c, g, kinds)}
Before(c, d) ==
    \/ campaigns[c].priority > campaigns[d].priority
    \/ campaigns[c].priority = campaigns[d].priority /\ c > d
IsBest(c, g, kinds) ==
    IF Fits(g, kinds) = {} THEN c = None
    ELSE c \in Fits(g, kinds) /\ \A d \in Fits(g, kinds) \ {c} : Before(c, d)
\* The catalogue shows this price of a package at that price.
Shows(listed, g, price) ==
    listed # None => \A c : IsBest(c, g, Listed) => listed = Override(price, c)

\* What a driver was shown is what the catalogue shows until an edit makes it
\* forgotten; an order that saw a paid one has no first-purchase price.
OrderOK(b) ==
    LET o == order[b] IN
    /\ o.pc # "idle" => o.package \in Packages
    /\ o.pc = "shown" => Shows(o.listed, o.package, package[o.package].price)
    /\ o.pc \in {"prior", "campaign"} => /\ o.price \in Nat
                                         /\ Shows(o.listed, o.package, o.price)
    /\ o.pc \in {"insert", "PENDING", "PAID"} => o.price \in Nat
    /\ o.pc = "insert" /\ o.listed # None =>
          o.price = o.listed \/ o.campaign \notin Listed \cup {None}
    /\ o.pc \in {"idle", "shown", "prior", "campaign"} => o.campaign = None
    /\ o.first = TRUE \/ o.campaign = "FIRST_PURCHASE" =>
          o.ahead = {} \/ o.unread
CatalogueInv == CatalogueType /\ \A b \in Orders : OrderOK(b)

\* What the rows and the campaigns consist of.
LEMMA CampaignFields ==
    ASSUME CatalogueType, NEW c \in DOMAIN campaigns
    PROVE  /\ c \in Nat /\ c <= Len(campaigns) /\ Len(campaigns) \in Nat
           /\ campaigns[c] \in Campaign
           /\ campaigns[c].priority \in {0, 1} /\ campaigns[c].kind \in Kinds
           /\ campaigns[c].price \in Prices \cup {None} /\ c # None
  <1>1. /\ c \in 1..Len(campaigns) /\ Len(campaigns) \in Nat
        /\ campaigns[c] \in Campaign
    BY DEF CatalogueType
  <1> QED
    BY <1>1, CatalogueAssumption DEF Campaign

\* Of the campaigns that apply, one comes before the others.
LEMMA BestIsThere ==
    ASSUME CatalogueType, NEW g, NEW kinds
    PROVE  IsBest(Best(g, kinds), g, kinds)
  <1> DEFINE fit == Fits(g, kinds)
             high == {c \in fit : campaigns[c].priority = 1}
             top == IF high # {} THEN high ELSE fit
             S == {Len(campaigns) - c : c \in top}
  <1>1. CASE fit = {}
    BY <1>1 DEF Best, IsBest, Fits
  <1>2. CASE fit # {}
    <2>1. /\ top # {} /\ top \subseteq fit
          /\ \A c \in fit : c \in Nat /\ c <= Len(campaigns)
             /\ Len(campaigns) \in Nat
                             /\ campaigns[c].priority \in {0, 1}
      BY <1>2, CampaignFields DEF Fits
    <2>2. S \in SUBSET Nat /\ S # {}
      <3> HIDE DEF fit, top
      <3> QED
        BY <2>1
    <2>3. \E m \in S : \A n \in S : m <= n
      <3> HIDE DEF S
      <3> QED
        BY <2>2, LeastThere
    <2>4. \E c \in top : \A d \in top :
            Len(campaigns) - c <= Len(campaigns) - d
      BY <2>3
    <2>5. \E c \in top : \A d \in top \ {c} : c > d
      <3> HIDE DEF fit, top
      <3> QED
        BY <2>1, <2>4
    <2>6. PICK c \in top : \A d \in top \ {c} : c > d
      BY <2>5
    <2>7. \A d \in fit \ {c} : Before(c, d)
      <3> HIDE DEF fit
      <3> QED
        BY <2>1, <2>6 DEF Before
    <2>8. \E x \in fit : \A d \in fit \ {x} : Before(x, d)
      BY <2>1, <2>6, <2>7
    <2>9. Best(g, kinds) = CHOOSE x \in fit : \A d \in fit \ {x} : Before(x, d)
      BY <1>2 DEF Best, Fits, Before
    <2> HIDE DEF fit
    <2>10. Best(g, kinds) \in fit
             /\ \A d \in fit \ {Best(g, kinds)} : Before(Best(g, kinds), d)
      BY <2>8, <2>9
    <2> QED
      BY <1>2, <2>10 DEF IsBest, fit
  <1> QED
    BY <1>1, <1>2

\* There is one best campaign.
LEMMA BestIsOne ==
    ASSUME CatalogueType, NEW g, NEW kinds, NEW c, NEW d,
           IsBest(c, g, kinds), IsBest(d, g, kinds)
    PROVE  c = d
  <1>1. CASE Fits(g, kinds) = {}
    BY <1>1 DEF IsBest
  <1>2. CASE Fits(g, kinds) # {}
    <2>1. /\ c \in Fits(g, kinds) /\ d \in Fits(g, kinds)
          /\ c # d => Before(c, d) /\ Before(d, c)
      BY <1>2 DEF IsBest
    <2>2. /\ c \in Nat /\ d \in Nat
          /\ campaigns[c].priority \in {0, 1}
          /\ campaigns[d].priority \in {0, 1}
      BY <2>1, CampaignFields DEF Fits
    <2> QED
      BY <2>1, <2>2 DEF Before
  <1> QED
    BY <1>1, <1>2

\* The best of all kinds is the best of those shown, if it is one of these.
LEMMA BestOfFewer ==
    ASSUME CatalogueType, NEW g, NEW kinds, Listed \subseteq kinds, NEW c,
           IsBest(c, g, kinds), c = None \/ campaigns[c].kind \in Listed
    PROVE  IsBest(c, g, Listed)
  <1>1. Fits(g, Listed) \subseteq Fits(g, kinds)
    BY DEF Fits, Applies
  <1>2. CASE Fits(g, kinds) = {}
    BY <1>1, <1>2 DEF IsBest
  <1>3. CASE Fits(g, kinds) # {}
    <2>1. c \in Fits(g, kinds) /\ \A d \in Fits(g, kinds) \ {c} : Before(c, d)
      BY <1>3 DEF IsBest
    <2>2. c # None
      BY <2>1, CampaignFields DEF Fits
    <2>3. c \in Fits(g, Listed)
      BY <2>1, <2>2 DEF Fits, Applies
    <2> QED
      BY <1>1, <2>1, <2>3 DEF IsBest
  <1> QED
    BY <1>2, <1>3

\* Packages, campaigns and orders as the office starts with them.
LEMMA CatalogueInvInit == CatalogueInit => CatalogueInv
  <1> SUFFICES ASSUME CatalogueInit PROVE CatalogueInv
    OBVIOUS
  <1>1. package \in [Packages -> PackageRow \cup {None}]
    BY CatalogueAssumption DEF CatalogueInit, PackageRow
  <1>2. campaigns \in Seq(Campaign)
    <2>1. ASSUME NEW kind \in Kinds, NEW price \in Prices
          PROVE  [kind |-> kind, target |-> None, price |-> price,
                  status |-> "ACTIVE", priority |-> 0] \in Campaign
      BY DEF Campaign, Statuses
    <2> HIDE DEF Campaign
    <2>2. CASE campaigns = <<>>
      BY <2>2
    <2>3. CASE \E kind \in Kinds, price \in Prices :
                  campaigns =
                    <<[kind |-> kind, target |-> None, price |-> price,
                       status |-> "ACTIVE", priority |-> 0]>>
      <3>1. PICK entry \in Campaign : campaigns = <<entry>>
        BY <2>1, <2>3
      <3> QED
        BY <3>1
    <2> QED
      BY <2>2, <2>3 DEF CatalogueInit
  <1>3. NoOrder \in OrderRow
    BY DEF NoOrder, OrderRow, OrderPoints
  <1>4. order = [b \in Orders |-> NoOrder]
    BY DEF CatalogueInit
  <1>5. \A b \in Orders : OrderOK(b)
    BY <1>4 DEF OrderOK, NoOrder
  <1> QED
    BY <1>1, <1>2, <1>3, <1>4, <1>5 DEF CatalogueInv, CatalogueType

\* An edit makes forgotten what was shown; the rest of an order stands.
LEMMA EditKept ==
    ASSUME CatalogueInv, Edit,
           package' \in [Packages -> PackageRow \cup {None}],
           campaigns' \in Seq(Campaign)
    PROVE  CatalogueInv'
  <1>1. \A b \in Orders :
           order'[b] = IF order[b].pc \in {"shown", "prior", "campaign"}
                       THEN [order[b] EXCEPT !.listed = None] ELSE order[b]
    BY DEF Edit
  <1>2. \A b \in Orders : order[b] \in OrderRow
    BY DEF CatalogueInv, CatalogueType
  <1>3. ASSUME NEW b \in Orders
        PROVE  /\ order'[b] \in OrderRow /\ order'[b].pc = order[b].pc
               /\ order'[b].package = order[b].package
               /\ order'[b].price = order[b].price
               /\ order'[b].first = order[b].first
               /\ order'[b].ahead = order[b].ahead
               /\ order'[b].unread = order[b].unread
               /\ order'[b].campaign = order[b].campaign
               /\ order[b].pc \in {"shown", "prior", "campaign"} =>
                  order'[b].listed = None
               /\ order[b].pc \notin {"shown", "prior", "campaign"} =>
                  order'[b] = order[b]
    <2>1. \A o \in OrderRow :
             /\ [o EXCEPT !.listed = None] \in OrderRow
             /\ [o EXCEPT !.listed = None].pc = o.pc
             /\ [o EXCEPT !.listed = None].package = o.package
             /\ [o EXCEPT !.listed = None].price = o.price
             /\ [o EXCEPT !.listed = None].first = o.first
             /\ [o EXCEPT !.listed = None].ahead = o.ahead
             /\ [o EXCEPT !.listed = None].unread = o.unread
             /\ [o EXCEPT !.listed = None].campaign = o.campaign
             /\ [o EXCEPT !.listed = None].listed = None
      BY DEF OrderRow
    <2> HIDE DEF OrderRow
    <2>2. order[b] \in OrderRow
      BY <1>2
    <2>3. CASE order[b].pc \in {"shown", "prior", "campaign"}
      <3>1. order'[b] = [order[b] EXCEPT !.listed = None]
        BY <1>1, <2>3
      <3> QED
        BY <2>1, <2>2, <2>3, <3>1
    <2>4. CASE order[b].pc \notin {"shown", "prior", "campaign"}
      BY <1>1, <2>2, <2>4
    <2> QED
      BY <2>3, <2>4
  <1>4. order' \in [Orders -> OrderRow]
    <2>1. order' = [b \in Orders |-> order'[b]]
      BY DEF Edit
    <2> QED
      BY <1>3, <2>1
  <1>5. \A b \in Orders : OrderOK(b)'
    <2> SUFFICES ASSUME NEW b \in Orders PROVE OrderOK(b)'
      OBVIOUS
    <2>1. OrderOK(b)
      BY DEF CatalogueInv
    <2> HIDE DEF OrderRow
    <2>2. CASE order[b].pc \in {"shown", "prior", "campaign"}
      BY <1>3, <2>1, <2>2 DEF OrderOK, Shows
    <2>3. CASE order[b].pc \notin {"shown", "prior", "campaign"}
      BY <1>3, <2>1, <2>3 DEF OrderOK
    <2> QED
      BY <2>2, <2>3
  <1> QED
    BY <1>4, <1>5 DEF CatalogueInv, CatalogueType

\* The console, statement by statement.
LEMMA AdminKept ==
    ASSUME CatalogueInv,
           \/ \E g \in Packages, price \in Prices :
                 AdminCreatePackage(g, price) \/ AdminUpdatePackage(g, price)
           \/ \E g \in Packages :
                 \/ AdminDeletePackage(g)
                 \/ \E active \in BOOLEAN : AdminTogglePackage(g, active)
           \/ \E kind \in Kinds, target \in Seeded \cup {None},
                 price \in Prices \cup {None} :
                   AdminCreateCampaign(kind, target, price)
           \/ \E c \in DOMAIN campaigns :
                 \/ \E entry \in Amended(c) : AdminUpdateCampaign(c, entry)
                 \/ \E status \in {"ACTIVE", "EXPIRED"} :
                    AdminSetCampaignStatus(c, status)
                 \/ AdminDeleteCampaign(c)
    PROVE  CatalogueInv'
  <1>0. /\ package \in [Packages -> PackageRow \cup {None}]
        /\ campaigns \in Seq(Campaign)
    BY DEF CatalogueInv, CatalogueType
  <1>1. ASSUME NEW g \in Packages, NEW entry \in PackageRow,
               package' = [package EXCEPT ![g] = entry], Edit,
                 UNCHANGED campaigns
        PROVE  CatalogueInv'
    <2> HIDE DEF PackageRow, Campaign
    <2>1. package' \in [Packages -> PackageRow \cup {None}]
      BY <1>0, <1>1
    <2> QED
      BY <1>0, <1>1, <2>1, EditKept
  <1>2. ASSUME NEW g \in Packages, package[g] # None, NEW price \in Prices,
                 NEW on \in BOOLEAN
        PROVE  /\ [package[g] EXCEPT !.price = price] \in PackageRow
               /\ [package[g] EXCEPT !.active = on] \in PackageRow
               /\ [package[g] EXCEPT !.deleted = TRUE,
                  !.active = FALSE] \in PackageRow
    <2>1. package[g] \in PackageRow
      BY <1>0, <1>2
    <2> QED
      BY <2>1 DEF PackageRow
  <1>3. ASSUME NEW g \in Packages, NEW price \in Prices, NEW on \in BOOLEAN,
               \/ AdminCreatePackage(g, price) \/ AdminUpdatePackage(g, price)
               \/ AdminDeletePackage(g) \/ AdminTogglePackage(g, on)
        PROVE  CatalogueInv'
    <2>1. [active |-> TRUE, deleted |-> FALSE, price |-> price] \in PackageRow
      BY DEF PackageRow
    <2>2. \E entry \in PackageRow : package' = [package EXCEPT ![g] = entry]
      <3>1. CASE AdminCreatePackage(g, price)
        BY <2>1, <3>1 DEF AdminCreatePackage, CreatePackage
      <3>2. CASE AdminUpdatePackage(g, price)
        BY <1>2, <3>2 DEF AdminUpdatePackage, UpdatePackage, Kept
      <3>3. CASE AdminTogglePackage(g, on)
        BY <1>2, <3>3 DEF AdminTogglePackage, SetPackageActive, Kept
      <3>4. CASE AdminDeletePackage(g)
        <4>1. package' = [package EXCEPT ![g] =
                             [package[g] EXCEPT !.deleted = TRUE,
                               !.active = FALSE]]
          BY <1>0, <3>4 DEF AdminDeletePackage, DeletePackage
        <4> QED
          BY <1>2, <3>4, <4>1 DEF AdminDeletePackage, Kept
      <3> QED
        BY <1>3, <3>1, <3>2, <3>3, <3>4
    <2>3. Edit /\ UNCHANGED campaigns
      BY <1>3 DEF AdminCreatePackage, AdminUpdatePackage, AdminDeletePackage,
                  AdminTogglePackage
    <2> QED
      BY <2>2, <2>3, <1>1
  <1>4. ASSUME NEW c \in DOMAIN campaigns, NEW entry \in Campaign,
               campaigns' = [campaigns EXCEPT ![c] = entry], Edit,
                 UNCHANGED package
        PROVE  CatalogueInv'
    <2> HIDE DEF PackageRow, Campaign
    <2>1. campaigns' \in Seq(Campaign)
      BY <1>0, <1>4
    <2> QED
      BY <1>0, <1>4, <2>1, EditKept
  <1>5. ASSUME NEW kind \in Kinds, NEW target \in Seeded \cup {None},
               NEW price \in Prices \cup {None},
                 AdminCreateCampaign(kind, target, price)
        PROVE  CatalogueInv'
    <2>1. [kind |-> kind, target |-> target, price |-> price,
           status |-> "DRAFT", priority |-> 0] \in Campaign
      BY CatalogueAssumption DEF Campaign, Statuses
    <2> HIDE DEF PackageRow, Campaign
    <2>2. campaigns' \in Seq(Campaign) /\ Edit /\ UNCHANGED package
      BY <1>0, <1>5, <2>1 DEF AdminCreateCampaign, CreateCampaign
    <2> QED
      BY <1>0, <2>2, EditKept
  <1>6. ASSUME NEW c \in DOMAIN campaigns,
               \/ \E entry \in Amended(c) : AdminUpdateCampaign(c, entry)
               \/ \E status \in {"ACTIVE", "EXPIRED"} :
                  AdminSetCampaignStatus(c, status)
               \/ AdminDeleteCampaign(c)
        PROVE  CatalogueInv'
    <2>1. campaigns[c] \in Campaign
      BY <1>0
    <2>2. \A entry \in Amended(c) : entry \in Campaign
      BY <2>1 DEF Amended, Campaign
    <2>3. \A status \in Statuses :
            [campaigns[c] EXCEPT !.status = status] \in Campaign
      BY <2>1 DEF Campaign
    <2>4. Edit /\ UNCHANGED package /\ \E entry \in Campaign :
            campaigns' = [campaigns EXCEPT ![c] = entry]
      BY <1>6, <2>2, <2>3
         DEF AdminUpdateCampaign, AdminSetCampaignStatus, AdminDeleteCampaign,
             SetCampaignStatus, UpdateCampaign, Statuses
    <2> QED
      BY <2>4, <1>4
  <1>7. 1 \in Prices /\ TRUE \in BOOLEAN
    BY CatalogueAssumption
  <1> QED
    BY <1>3, <1>5, <1>6, <1>7

\* A step of one order leaves the others as they were.
LEMMA OrderStep ==
    ASSUME CatalogueInv, NEW b \in Orders, NEW entry \in OrderRow,
           order' = [order EXCEPT ![b] = entry],
             UNCHANGED <<package, campaigns>>,
           order'[b] = entry => OrderOK(b)'
    PROVE  CatalogueInv'
  <1> HIDE DEF OrderRow, PackageRow, Campaign
  <1>1. order' \in [Orders -> OrderRow] /\ order'[b] = entry
        /\ \A d \in Orders \ {b} : order'[d] = order[d]
    BY DEF CatalogueInv, CatalogueType
  <1>2. \A d \in Orders \ {b} : OrderOK(d)'
    <2> SUFFICES ASSUME NEW d \in Orders \ {b} PROVE OrderOK(d)'
      OBVIOUS
    <2>1. OrderOK(d) /\ order'[d] = order[d]
      BY <1>1 DEF CatalogueInv
    <2> QED
      BY <2>1 DEF OrderOK, Shows, IsBest, Fits, Applies, Before, Override
  <1> QED
    BY <1>1, <1>2 DEF CatalogueInv, CatalogueType

\* One step per statement of the driver's purchase.
LEMMA CatalogueKept == ASSUME CatalogueInv, CatalogueNext PROVE CatalogueInv'
  <1>0. /\ package \in [Packages -> PackageRow \cup {None}]
        /\ campaigns \in Seq(Campaign) /\ order \in [Orders -> OrderRow]
        /\ CatalogueType /\ \A b \in Orders : OrderOK(b)
    BY DEF CatalogueInv, CatalogueType
  <1>p. \A g \in Packages : package[g] # None => package[g].price \in Nat
    BY <1>0, CatalogueAssumption DEF PackageRow
  <1>o. \A price \in Nat, c \in DOMAIN campaigns \cup {None} :
          Override(price, c) \in Nat
    BY <1>0, CampaignFields, CatalogueAssumption DEF Override
  <1>b. \A g, kinds : /\ IsBest(Best(g, kinds), g, kinds)
                      /\ Best(g, kinds) \in DOMAIN campaigns \cup {None}
                      /\ Best(g, kinds) # None =>
                         campaigns[Best(g, kinds)].kind \in kinds
    BY <1>0, BestIsThere DEF IsBest, Fits, Applies
  <1>empty. /\ NoOrder \in OrderRow /\ NoOrder.pc = "idle"
            /\ NoOrder.campaign = None
            /\ NoOrder.ahead = {} /\ NoOrder.first = FALSE
    BY DEF NoOrder, OrderRow, OrderPoints
  <1>no. ASSUME NEW b \in Orders, order' = [order EXCEPT ![b] = NoOrder],
                UNCHANGED <<package, campaigns>>
         PROVE  CatalogueInv'
    <2>1. order'[b] = NoOrder => OrderOK(b)'
      BY <1>empty, CatalogueAssumption DEF OrderOK, Kinds
    <2> QED
      BY <1>no, <1>empty, <2>1, OrderStep
  <1>1. ASSUME NEW b \in Orders, NEW g \in Packages, ListCatalog(b, g)
        PROVE  CatalogueInv'
    <2> DEFINE price == Override(package[g].price, Best(g, Listed))
               entry == [NoOrder EXCEPT !.pc = "shown", !.package = g,
                 !.listed = price]
    <2>1. /\ order' = [order EXCEPT ![b] = entry]
          /\ UNCHANGED <<package, campaigns>>
          /\ package[g] # None
      BY <1>1 DEF ListCatalog, Offered
    <2>2. price \in Nat
      BY <2>1, <1>p, <1>o, <1>b
    <2>3. Shows(price, g, package[g].price)
      BY <1>0, <1>b, BestIsOne DEF Shows
    <2> HIDE DEF price
    <2>4. /\ entry \in OrderRow /\ entry.pc = "shown" /\ entry.package = g
          /\ entry.listed = price
          /\ entry.campaign = None /\ entry.ahead = {}
      BY <2>2 DEF NoOrder, OrderRow, OrderPoints
    <2> HIDE DEF entry
    <2>5. order'[b] = entry => OrderOK(b)'
      BY <2>1, <2>3, <2>4, CatalogueAssumption
         DEF OrderOK, Shows, IsBest, Fits, Applies, Before, Override
    <2> QED
      BY <2>1, <2>4, <2>5, OrderStep
  <1>2. ASSUME NEW b \in Orders, ResolveVersion(b) PROVE CatalogueInv'
    <2> DEFINE o == order[b]
               entry == [o EXCEPT !.pc = "prior",
                 !.price = package[o.package].price]
    <2>1. UNCHANGED <<package, campaigns>> /\ o.pc = "shown"
          /\ \/ order' = [order EXCEPT ![b] = NoOrder]
             \/ package[o.package] # None
                /\ order' = [order EXCEPT ![b] = entry]
      BY <1>2 DEF ResolveVersion, Offered
    <2>2. CASE package[o.package] # None
            /\ order' = [order EXCEPT ![b] = entry]
      <3>1. o \in OrderRow /\ OrderOK(b) /\ o.package \in Packages
        BY <1>0, <2>1 DEF OrderOK
      <3>2. package[o.package].price \in Nat
        BY <2>2, <3>1, <1>p
      <3>3. /\ entry \in OrderRow /\ entry.pc = "prior"
            /\ entry.package = o.package
            /\ entry.listed = o.listed
            /\ entry.price = package[o.package].price
            /\ entry.campaign = o.campaign /\ entry.ahead = o.ahead
            /\ entry.first = o.first /\ entry.unread = o.unread
        BY <3>1, <3>2 DEF OrderRow, OrderPoints
      <3> HIDE DEF entry
      <3>4. order'[b] = entry => OrderOK(b)'
        BY <2>1, <3>1, <3>2, <3>3
           DEF OrderOK, Shows, IsBest, Fits, Applies, Before, Override
      <3> QED
        BY <2>1, <2>2, <3>3, <3>4, OrderStep
    <2> QED
      BY <2>1, <2>2, <1>no
  <1>3. ASSUME NEW b \in Orders, ResolvePrior(b) PROVE CatalogueInv'
    <2>f. PICK fails \in BOOLEAN : order' = [order EXCEPT ![b] =
            [@ EXCEPT !.pc = "campaign", !.ahead = PaidFor, !.unread = fails,
                      !.first = (fails \/ PaidFor = {})]]
      BY <1>3 DEF ResolvePrior
    <2> DEFINE o == order[b]
               entry == [o EXCEPT !.pc = "campaign", !.ahead = PaidFor,
                                  !.unread = fails,
                                  !.first = (fails \/ PaidFor = {})]
    <2>1. /\ UNCHANGED <<package, campaigns>> /\ o.pc = "prior"
          /\ order' = [order EXCEPT ![b] = entry]
      BY <1>3, <2>f DEF ResolvePrior
    <2>2. o \in OrderRow /\ OrderOK(b) /\ PaidFor \in SUBSET Orders
      BY <1>0 DEF PaidFor
    <2>3. /\ entry \in OrderRow /\ entry.pc = "campaign"
          /\ entry.package = o.package
          /\ entry.listed = o.listed /\ entry.price = o.price
          /\ entry.campaign = o.campaign /\ entry.ahead = PaidFor
          /\ entry.first = TRUE => entry.unread \/ PaidFor = {}
      <3>1. (fails \/ PaidFor = {}) \in BOOLEAN
        OBVIOUS
      <3> QED
        BY <2>2, <3>1 DEF OrderRow, OrderPoints
    <2>5. /\ entry.campaign = None /\ o.price \in Nat
          /\ Shows(o.listed, o.package, o.price) /\ o.package \in Packages
      BY <2>1, <2>2, <2>3 DEF OrderOK
    <2> HIDE DEF entry
    <2>4. order'[b] = entry => OrderOK(b)'
      BY <2>1, <2>3, <2>5, CatalogueAssumption
         DEF OrderOK, Shows, IsBest, Fits, Applies, Before, Override
    <2> QED
      BY <2>1, <2>3, <2>4, OrderStep
  <1>4. ASSUME NEW b \in Orders, ResolveCampaign(b) PROVE CatalogueInv'
    <2> DEFINE o == order[b]
               kinds == IF o.first THEN Kinds ELSE Kinds \ {"FIRST_PURCHASE"}
               c == Best(o.package, kinds)
               kind == IF c = None THEN None ELSE campaigns[c].kind
               price == Override(o.price, c)
               entry == [o EXCEPT !.pc = "insert", !.price = price,
                 !.campaign = kind]
    <2>1. /\ UNCHANGED <<package, campaigns>> /\ o.pc = "campaign"
          /\ order' = [order EXCEPT ![b] = entry]
      BY <1>4 DEF ResolveCampaign
    <2>2. o \in OrderRow /\ OrderOK(b) /\ o.price \in Nat
      BY <1>0, <2>1 DEF OrderOK
    <2>3. /\ IsBest(c, o.package, kinds) /\ c \in DOMAIN campaigns \cup {None}
          /\ c # None => campaigns[c].kind \in kinds
      BY <1>b
    <2>4. Listed \subseteq kinds /\ kinds \subseteq Kinds
          /\ (o.first # TRUE => "FIRST_PURCHASE" \notin kinds)
      <3>1. o.first \in BOOLEAN
        BY <2>2 DEF OrderRow
      <3> QED
        BY <3>1 DEF Listed, Kinds
    <2> HIDE DEF c, kinds
    <2>5. price \in Nat /\ kind \in Kinds \cup {None}
      BY <2>2, <2>3, <2>4, <1>o
    <2>6. o.listed # None /\ kind \in Listed \cup {None} => price = o.listed
      <3>1. Shows(o.listed, o.package, o.price)
        BY <2>1, <2>2 DEF OrderOK
      <3>2. kind \in Listed \cup {None} => c = None
              \/ campaigns[c].kind \in Listed
        BY <2>3, <2>4, CatalogueAssumption DEF Kinds
      <3> QED
        BY <1>0, <2>3, <2>4, <3>1, <3>2, BestOfFewer DEF Shows
    <2>7. kind = "FIRST_PURCHASE" => o.first = TRUE
      BY <2>3, <2>4, CatalogueAssumption
    <2> HIDE DEF price, kind
    <2>8. /\ entry \in OrderRow /\ entry.pc = "insert"
          /\ entry.package = o.package
          /\ entry.listed = o.listed /\ entry.price = price
          /\ entry.campaign = kind /\ entry.ahead = o.ahead
          /\ entry.unread = o.unread
          /\ entry.first = o.first
      BY <2>2, <2>5 DEF OrderRow, OrderPoints
    <2> HIDE DEF entry
    <2>9. order'[b] = entry => OrderOK(b)'
      BY <2>1, <2>2, <2>5, <2>6, <2>7, <2>8 DEF OrderOK
    <2> QED
      BY <2>1, <2>8, <2>9, OrderStep
  <1>5. ASSUME NEW b \in Orders, CreatePurchaseRow(b) PROVE CatalogueInv'
    <2> DEFINE o == order[b]
               pc == IF o.price = 0 THEN "PAID" ELSE "PENDING"
               entry == [o EXCEPT !.listed = None, !.first = FALSE, !.pc = pc]
    <2>1. /\ UNCHANGED <<package, campaigns>> /\ o.pc = "insert"
          /\ order' = [order EXCEPT ![b] = entry]
      BY <1>5 DEF CreatePurchaseRow
    <2>2. o \in OrderRow /\ OrderOK(b) /\ pc \in {"PAID", "PENDING"}
      BY <1>0
    <2> HIDE DEF pc
    <2>3. /\ entry \in OrderRow /\ entry.pc = pc /\ entry.package = o.package
          /\ entry.price = o.price /\ entry.campaign = o.campaign
          /\ entry.ahead = o.ahead /\ entry.unread = o.unread
          /\ entry.first = FALSE
      BY <2>2 DEF OrderRow, OrderPoints
    <2> HIDE DEF entry
    <2>4. order'[b] = entry => OrderOK(b)'
      BY <2>1, <2>2, <2>3 DEF OrderOK
    <2> QED
      BY <2>1, <2>3, <2>4, OrderStep
  <1>6. ASSUME NEW b \in Orders,
                 NEW status \in {"PAID", "FAILED"}, SettleOrder(b, status)
        PROVE  CatalogueInv'
    <2> DEFINE o == order[b]
               entry == [o EXCEPT !.pc = "PAID"]
    <2>1. /\ UNCHANGED <<package, campaigns>> /\ o.pc = "PENDING"
          /\ \/ order' = [order EXCEPT ![b] = NoOrder]
             \/ order' = [order EXCEPT ![b] = entry]
      BY <1>6 DEF SettleOrder
    <2>2. o \in OrderRow /\ OrderOK(b)
      BY <1>0
    <2>3. /\ entry \in OrderRow /\ entry.pc = "PAID"
          /\ entry.package = o.package
          /\ entry.price = o.price /\ entry.campaign = o.campaign
          /\ entry.ahead = o.ahead /\ entry.unread = o.unread
          /\ entry.first = o.first
      BY <2>2 DEF OrderRow, OrderPoints
    <2> HIDE DEF entry
    <2>4. order'[b] = entry => OrderOK(b)'
      BY <2>1, <2>2, <2>3 DEF OrderOK
    <2> QED
      BY <2>1, <2>3, <2>4, <1>no, OrderStep
  <1> QED
    BY <1>1, <1>2, <1>3, <1>4, <1>5, <1>6, AdminKept DEF CatalogueNext

\* An order at a first-purchase price saw no paid one, of another either.
LEMMA CatalogueSafe == CatalogueInv => PurchasePriced
  BY DEF CatalogueInv, OrderOK, PurchasePriced, ChargedAsListed, FirstPriceOnce

-----------------------------------------------------------------------------
(* Bonus.                                                                   *)

Tier == [trigger : Triggers, active : BOOLEAN]
IsRegistration(t) == t \in DOMAIN tier /\ tier[t].trigger = "REGISTRATION"
\* Every grant there is names a registration tier, and so every approval that
\* goes on has seen no grant of its driver; a driver has one of a tier.
BonusInv ==
    /\ tier \in Seq(Tier)
    /\ \A g \in grants : IsRegistration(g.tier) /\ g.seen = {}
    /\ \A g, h \in grants : g.driver = h.driver /\ g.tier = h.tier => g = h
    /\ approval = [a \in Approvals |-> approval[a]]
    /\ \A a \in Approvals :
          /\ approval[a].pc \in {"tier", "insert"} => approval[a].seen = {}
          /\ approval[a].pc = "insert" => IsRegistration(approval[a].tier)
          /\ approval[a] =
                [pc |-> approval[a].pc, driver |-> approval[a].driver,
                 tier |-> approval[a].tier, seen |-> approval[a].seen]

\* The first tiers are there, and nobody has a grant.
LEMMA BonusInvInit == BonusInit => BonusInv
  <1>1. ASSUME BonusInit PROVE tier \in Seq(Tier)
    <2>1. [trigger |-> "REGISTRATION", active |-> TRUE] \in Tier
      BY DEF Tier, Triggers
    <2> QED
      BY <1>1, <2>1 DEF BonusInit
  <1> QED
    BY <1>1 DEF BonusInit, BonusInv, NoApproval

\* The oldest of the active registration tiers is one of them.
LEMMA RegistrationTierFits ==
    ASSUME BonusInv, RegistrationTier # None
    PROVE  IsRegistration(RegistrationTier)
  <1> DEFINE fit == {t \in DOMAIN tier :
                        tier[t].trigger = "REGISTRATION" /\ tier[t].active}
  <1>1. fit \in SUBSET Nat
    BY DEF BonusInv
  <1>2. fit # {}
    BY DEF RegistrationTier
  <1>3. \E t \in fit : \A u \in fit : t <= u
    <2> HIDE DEF fit
    <2> QED
      BY <1>1, <1>2, LeastThere
  <1>4. RegistrationTier = CHOOSE t \in fit : \A u \in fit : t <= u
    BY <1>2 DEF RegistrationTier
  <1>5. RegistrationTier \in fit
    <2> HIDE DEF fit
    <2> QED
      BY <1>3, <1>4
  <1> QED
    BY <1>5 DEF IsRegistration

\* What ReadTier changes of an approval.
LEMMA TierRead ==
    ASSUME NEW p, NEW t,
           p = [pc |-> p.pc, driver |-> p.driver, tier |-> p.tier,
             seen |-> p.seen]
    PROVE  [p EXCEPT !.pc = "insert", !.tier = t]
              = [pc |-> "insert", driver |-> p.driver, tier |-> t,
                seen |-> p.seen]
  <1> DEFINE q == [p EXCEPT !.pc = "insert", !.tier = t]
  <1>1. p \in [pc : {p.pc}, driver : {p.driver}, tier : {p.tier},
          seen : {p.seen}]
    OBVIOUS
  <1>2. q \in [pc : {"insert"}, driver : {p.driver}, tier : {t},
          seen : {p.seen}]
    BY <1>1
  <1> HIDE DEF q
  <1>3. /\ q = [pc |-> q.pc, driver |-> q.driver, tier |-> q.tier,
           seen |-> q.seen]
        /\ q.pc = "insert" /\ q.driver = p.driver /\ q.tier = t
        /\ q.seen = p.seen
    BY <1>2
  <1> QED
    BY <1>3 DEF q

\* One step per action; only an approval that saw no grant makes one.
LEMMA BonusKept == ASSUME BonusInv, BonusNext PROVE BonusInv'
  <1>1. ASSUME NEW trigger \in Triggers, CreateTier(trigger) PROVE BonusInv'
    <2>1. /\ tier' = Append(tier, [trigger |-> trigger, active |-> TRUE])
          /\ UNCHANGED <<grants, approval>>
      BY <1>1 DEF CreateTier
    <2>2. [trigger |-> trigger, active |-> TRUE] \in Tier
      BY DEF Tier
    <2>3. tier' \in Seq(Tier) /\ \A t \in DOMAIN tier : t \in DOMAIN tier'
            /\ tier'[t] = tier[t]
      <3> HIDE DEF Tier
      <3> QED
        BY <2>1, <2>2 DEF BonusInv
    <2> QED
      BY <2>1, <2>3 DEF BonusInv, IsRegistration
  <1>2. ASSUME NEW t \in DOMAIN tier,
                 NEW active \in BOOLEAN, SetTierActive(t, active)
        PROVE  BonusInv'
    <2>1. /\ tier' = [tier EXCEPT ![t] = [tier[t] EXCEPT !.active = active]]
          /\ UNCHANGED <<grants, approval>>
      BY <1>2 DEF SetTierActive
    <2>2. [tier[t] EXCEPT !.active = active] \in Tier
          /\ [tier[t] EXCEPT !.active = active].trigger = tier[t].trigger
      <3>1. tier[t] \in Tier
        BY DEF BonusInv
      <3> QED
        BY <3>1 DEF Tier
    <2>3. tier' \in Seq(Tier) /\ DOMAIN tier' = DOMAIN tier
          /\ \A u \in DOMAIN tier : tier'[u].trigger = tier[u].trigger
      <3> HIDE DEF Tier
      <3> QED
        BY <2>1, <2>2 DEF BonusInv
    <2> QED
      BY <2>1, <2>3 DEF BonusInv, IsRegistration
  <1>3. ASSUME NEW a \in Approvals, NEW d \in Newcomers, CheckGranted(a, d)
        PROVE BonusInv'
    <2>1. UNCHANGED <<tier, grants>>
      BY <1>3 DEF CheckGranted
    <2>2. ~AlreadyGrantedRegistration(d) => GrantedTo(d) = {}
      BY DEF AlreadyGrantedRegistration, GrantedTo, BonusInv, IsRegistration
    <2>3. \/ approval' = [approval EXCEPT ![a] = NoApproval]
          \/ approval' = [approval EXCEPT ![a] =
                             [pc |-> "tier", driver |-> d, tier |-> None,
                               seen |-> {}]]
      BY <1>3, <2>2 DEF CheckGranted
    <2> QED
      BY <2>1, <2>3 DEF BonusInv, IsRegistration, NoApproval
  <1>4. ASSUME NEW a \in Approvals, ReadTier(a) PROVE BonusInv'
    <2>1. UNCHANGED <<tier, grants>> /\ approval[a].pc = "tier"
      BY <1>4 DEF ReadTier
    <2>2. \/ approval' = [approval EXCEPT ![a] = NoApproval]
          \/ /\ RegistrationTier # None
             /\ approval' = [approval EXCEPT ![a] =
                   [approval[a] EXCEPT !.pc = "insert",
                     !.tier = RegistrationTier]]
      BY <1>4 DEF ReadTier
    <2>3. CASE approval' = [approval EXCEPT ![a] = NoApproval]
      BY <2>1, <2>3 DEF BonusInv, IsRegistration, NoApproval
    <2>4. CASE /\ RegistrationTier # None
               /\ approval' = [approval EXCEPT ![a] =
                     [approval[a] EXCEPT !.pc = "insert",
                       !.tier = RegistrationTier]]
      <3>1. [approval[a] EXCEPT !.pc = "insert", !.tier = RegistrationTier]
              = [pc |-> "insert", driver |-> approval[a].driver,
                 tier |-> RegistrationTier, seen |-> approval[a].seen]
        <4>1. approval[a] =
                 [pc |-> approval[a].pc, driver |-> approval[a].driver,
                  tier |-> approval[a].tier, seen |-> approval[a].seen]
          BY DEF BonusInv
        <4> QED
          BY <4>1, TierRead
      <3>2. IsRegistration(RegistrationTier)
        BY <2>4, RegistrationTierFits
      <3>3. approval[a].seen = {}
        BY <2>1 DEF BonusInv
      <3> QED
        BY <2>1, <2>4, <3>1, <3>2, <3>3 DEF BonusInv, IsRegistration
    <2> QED
      BY <2>2, <2>3, <2>4
  <1>5. ASSUME NEW a \in Approvals, InsertGrant(a) PROVE BonusInv'
    <2> DEFINE p == approval[a]
               g == [driver |-> p.driver, tier |-> p.tier, seen |-> p.seen]
    <2>1. /\ UNCHANGED tier /\ p.pc = "insert"
          /\ approval' = [approval EXCEPT ![a] = NoApproval]
          /\ \/ UNCHANGED grants
             \/ /\ grants' = grants \cup {g}
                /\ \A h \in grants : h.driver = p.driver => h.tier # p.tier
      BY <1>5 DEF InsertGrant, GrantedTo
    <2>2. p.seen = {} /\ IsRegistration(p.tier)
      BY <2>1 DEF BonusInv
    <2>3. g.driver = p.driver /\ g.tier = p.tier /\ g.seen = p.seen
      OBVIOUS
    <2> HIDE DEF g
    <2>4. \A x \in grants' : IsRegistration(x.tier)' /\ x.seen = {}
      BY <2>1, <2>2, <2>3 DEF BonusInv, IsRegistration
    <2>5. \A x, y \in grants' : x.driver = y.driver /\ x.tier = y.tier => x = y
      BY <2>1, <2>3 DEF BonusInv
    <2>6. /\ approval' = [b \in Approvals |-> approval'[b]]
          /\ approval'[a] = NoApproval
          /\ \A b \in Approvals \ {a} : approval'[b] = approval[b]
      BY <2>1 DEF BonusInv
    <2> QED
      BY <2>1, <2>4, <2>5, <2>6 DEF BonusInv, IsRegistration, NoApproval
  <1> QED
    BY <1>1, <1>2, <1>3, <1>4, <1>5
       DEF BonusNext, AdminCreateTier, AdminDeactivateTier, AdminActivateTier

\* A driver with two grants has seen one of them.
LEMMA BonusSafe == BonusInv => RegistrationBonusOnce
  BY DEF BonusInv, RegistrationBonusOnce

-----------------------------------------------------------------------------
(* Cases.                                                                   *)

ErrandPoints ==
    {"idle", "reply", "replied", "inbox_reply", "inbox_patch", "inbox_delete",
     "build", "built", "failed", "report_delete", "created"}
        \cup {"ACKNOWLEDGE", "ESCALATE", "RESOLVE"}
        \cup {"ACKNOWLEDGED", "ESCALATED", "RESOLVED"}
AreErrands(e) ==
    /\ e = [m \in Staff |-> [pc |-> e[m].pc, read |-> e[m].read,
                             late |-> e[m].late]]
    /\ \A m \in Staff : e[m].pc \in ErrandPoints

\* The incident has had its status.  It is not OPEN once it was escalated or
\* resolved, and whoever acknowledges it by what he read before comes late.
Further == had \cap {"ESCALATED", "RESOLVED"} # {}
IncidentOK ==
    /\ incident \in had \cup {None}
    /\ Further => incident \notin {None, "OPEN"}
    /\ Further /\ ~tookBack => incident # "ACKNOWLEDGED"
    /\ timeline \subseteq had \cup {"MESSAGE"}
Informed ==
    \A m \in Staff :
        /\ errand[m].pc \in DOMAIN EventKind => EventKind[errand[m].pc] \in had
        /\ errand[m].pc = "ACKNOWLEDGE" /\ Further => errand[m].late = TRUE
\* A ticket that is closed is RESOLVED, and a reply that read it OPEN is late.
IsTicket == ticket = [status |-> ticket.status, from |-> ticket.from,
                      closed |-> ticket.closed]
TicketOK ==
    ticket # None =>
        /\ IsTicket
        /\ ticket.closed /\ ~tookBack => ticket.status = "RESOLVED"
        /\ ticket.closed => ticket.status # "OPEN"
Replies(m) == \/ errand[m].pc = "replied"
              \/ errand[m].pc = "reply" /\ errand[m].read = "OPEN"
RepliesOK ==
    \A m \in Staff : Replies(m) =>
        /\ IsTicket
        /\ ticket.closed => errand[m].late = TRUE
CasesInv ==
    /\ AreErrands(errand) /\ tookBack \in BOOLEAN
    /\ IncidentOK /\ Informed /\ TicketOK /\ RepliesOK

\* What the words of an incident stand for.
LEMMA EventKinds ==
    /\ DOMAIN EventKind = {"created", "ACKNOWLEDGED", "ESCALATED", "RESOLVED"}
    /\ EventKind["created"] = "OPEN"
    /\ \A s \in {"ACKNOWLEDGED", "ESCALATED", "RESOLVED"} : EventKind[s] = s
    /\ DOMAIN StatusOf = {"ACKNOWLEDGE", "ESCALATE", "RESOLVE"}
    /\ StatusOf["ACKNOWLEDGE"] = "ACKNOWLEDGED"
    /\ StatusOf["ESCALATE"] = "ESCALATED" /\ StatusOf["RESOLVE"] = "RESOLVED"
  BY DEF EventKind, StatusOf

\* There is no case, and nobody is at work.
LEMMA CasesInvInit == CasesInit => CasesInv
  <1> SUFFICES ASSUME CasesInit PROVE CasesInv
    OBVIOUS
  <1>1. \A m \in Staff : errand[m] = NoErrand /\ errand[m].pc = "idle"
    BY DEF CasesInit, NoErrand
  <1>2. AreErrands(errand)
    BY DEF CasesInit, NoErrand, AreErrands, ErrandPoints
  <1>3. Informed /\ RepliesOK
    BY <1>1, EventKinds DEF Informed, RepliesOK, Replies
  <1>4. IncidentOK /\ TicketOK /\ tookBack \in BOOLEAN
    BY DEF CasesInit, IncidentOK, Further, TicketOK
  <1> QED
    BY <1>2, <1>3, <1>4 DEF CasesInv

\* What a step does to one request.
LEMMA ErrandSteps ==
    ASSUME AreErrands(errand), NEW m \in Staff
    PROVE  /\ \A pc \in ErrandPoints : CaseGoes(m, pc) =>
                 /\ AreErrands(errand') /\ errand'[m].pc = pc
                 /\ errand'[m].read = errand[m].read
                 /\ errand'[m].late = errand[m].late
                 /\ \A n \in Staff \ {m} : errand'[n] = errand[n]
           /\ CaseEnds(m) =>
                 /\ AreErrands(errand') /\ errand'[m].pc = "idle"
                 /\ \A n \in Staff \ {m} : errand'[n] = errand[n]
           /\ \A pc \in ErrandPoints : \A read : CaseBegins(m, pc, read) =>
                 /\ AreErrands(errand') /\ errand'[m].pc = pc
                 /\ errand'[m].read = read
                 /\ errand[m].pc = "idle"
                 /\ \A n \in Staff \ {m} : errand'[n] = errand[n]
  <1>0. ASSUME NEW pc \in ErrandPoints, NEW read, NEW l,
               errand' = [errand EXCEPT ![m] =
                 [pc |-> pc, read |-> read, late |-> l]]
        PROVE  /\ AreErrands(errand') /\ errand'[m].pc = pc
               /\ errand'[m].read = read /\ errand'[m].late = l
               /\ \A n \in Staff \ {m} : errand'[n] = errand[n]
    BY <1>0 DEF AreErrands
  <1>1. ASSUME NEW pc \in ErrandPoints, CaseGoes(m, pc)
        PROVE  errand' = [errand EXCEPT ![m] = [pc |-> pc,
                 read |-> errand[m].read, late |-> errand[m].late]]
    <2>1. [errand[m] EXCEPT !.pc = pc] =
            [pc |-> pc, read |-> errand[m].read, late |-> errand[m].late]
      BY DEF AreErrands
    <2> QED
      BY <1>1, <2>1 DEF CaseGoes
  <1>2. \A pc \in ErrandPoints : CaseGoes(m, pc) =>
           /\ AreErrands(errand') /\ errand'[m].pc = pc
           /\ errand'[m].read = errand[m].read
           /\ errand'[m].late = errand[m].late
           /\ \A n \in Staff \ {m} : errand'[n] = errand[n]
    BY <1>0, <1>1
  <1>3. CaseEnds(m) =>
           /\ AreErrands(errand') /\ errand'[m].pc = "idle"
           /\ \A n \in Staff \ {m} : errand'[n] = errand[n]
    BY <1>0 DEF CaseEnds, NoErrand, ErrandPoints
  <1>4. \A pc \in ErrandPoints : \A read : CaseBegins(m, pc, read) =>
           /\ AreErrands(errand') /\ errand'[m].pc = pc
           /\ errand'[m].read = read /\ errand[m].pc = "idle"
           /\ \A n \in Staff \ {m} : errand'[n] = errand[n]
    <2> SUFFICES ASSUME NEW pc \in ErrandPoints, NEW read,
                        CaseBegins(m, pc, read)
                 PROVE  /\ AreErrands(errand') /\ errand'[m].pc = pc
                        /\ errand'[m].read = read /\ errand[m].pc = "idle"
                        /\ \A n \in Staff \ {m} : errand'[n] = errand[n]
      OBVIOUS
    <2>1. errand[m].pc = "idle" /\ errand' = [errand EXCEPT ![m] =
            [pc |-> pc, read |-> read, late |-> FALSE]]
      BY DEF CaseBegins, CaseAt
    <2> QED
      BY <2>1, <1>0
  <1> QED
    BY <1>2, <1>3, <1>4

\* Who comes late, and who is left as he was.
LEMMA Overtaking ==
    ASSUME NEW e, AreErrands(e), NEW pcs
    PROVE  /\ AreErrands(Overtaken(e, pcs))
           /\ \A m \in Staff :
                 /\ Overtaken(e, pcs)[m].pc = e[m].pc
                 /\ Overtaken(e, pcs)[m].read = e[m].read
                 /\ e[m].late = TRUE => Overtaken(e, pcs)[m].late = TRUE
                 /\ e[m].pc \in pcs => Overtaken(e, pcs)[m].late = TRUE
  <1>1. \A m \in Staff : e[m] = [pc |-> e[m].pc, read |-> e[m].read,
                                 late |-> e[m].late]
    BY DEF AreErrands
  <1>2. \A m \in Staff :
          /\ Overtaken(e, pcs)[m].pc = e[m].pc
          /\ Overtaken(e, pcs)[m].read = e[m].read
          /\ e[m].late = TRUE => Overtaken(e, pcs)[m].late = TRUE
          /\ e[m].pc \in pcs => Overtaken(e, pcs)[m].late = TRUE
          /\ Overtaken(e, pcs)[m] =
               [pc |-> Overtaken(e, pcs)[m].pc,
                read |-> Overtaken(e, pcs)[m].read,
                late |-> Overtaken(e, pcs)[m].late]
    <2> SUFFICES ASSUME NEW m \in Staff
                 PROVE  /\ Overtaken(e, pcs)[m].pc = e[m].pc
                        /\ Overtaken(e, pcs)[m].read = e[m].read
                        /\ e[m].late = TRUE => Overtaken(e, pcs)[m].late = TRUE
                        /\ e[m].pc \in pcs => Overtaken(e, pcs)[m].late = TRUE
                        /\ Overtaken(e, pcs)[m] =
                             [pc |-> Overtaken(e, pcs)[m].pc,
                              read |-> Overtaken(e, pcs)[m].read,
                              late |-> Overtaken(e, pcs)[m].late]
      OBVIOUS
    <2>1. Overtaken(e, pcs)[m] =
            IF e[m].pc \in pcs THEN [e[m] EXCEPT !.late = TRUE] ELSE e[m]
      BY DEF Overtaken
    <2>2. [e[m] EXCEPT !.late = TRUE] =
            [pc |-> e[m].pc, read |-> e[m].read, late |-> TRUE]
      <3>1. \A l : [e[m] EXCEPT !.late = l] =
                     [pc |-> e[m].pc, read |-> e[m].read, late |-> l]
        BY DEF AreErrands
      <3> QED
        BY <3>1
    <2>3. CASE e[m].pc \in pcs
      <3>1. Overtaken(e, pcs)[m] =
              [pc |-> e[m].pc, read |-> e[m].read, late |-> TRUE]
        BY <2>1, <2>2, <2>3
      <3> QED
        BY <3>1
    <2>4. CASE e[m].pc \notin pcs
      <3>1. Overtaken(e, pcs)[m] = e[m]
        BY <2>1, <2>4
      <3> QED
        BY <1>1, <2>4, <3>1
    <2> QED
      BY <2>3, <2>4
  <1>3. Overtaken(e, pcs) = [m \in Staff |-> Overtaken(e, pcs)[m]]
    BY DEF Overtaken
  <1> QED
    BY <1>2, <1>3 DEF AreErrands

\* One step per kind of case; the requests of the others hide nothing.
LEMMA CasesKept == ASSUME CasesInv, CasesNext PROVE CasesInv'
  <1> USE DEF CasesInv
  <1>i. ASSUME UNCHANGED <<incident, had, timeline, tookBack>>,
               \A n \in Staff : \/ errand'[n] = errand[n]
                                \/ errand'[n].pc \notin DOMAIN EventKind
                                      \cup {"ACKNOWLEDGE"}
                                \/ /\ errand'[n].pc = errand[n].pc
                                   /\ errand[n].late = TRUE =>
                                         errand'[n].late = TRUE
        PROVE  IncidentOK' /\ Informed'
    BY <1>i DEF IncidentOK, Informed, Further
  <1>t. ASSUME UNCHANGED <<ticket, tookBack>>,
               \A n \in Staff : \/ errand'[n] = errand[n]
                                \/ errand'[n].pc \notin {"reply", "replied"}
        PROVE  TicketOK' /\ RepliesOK'
    BY <1>t DEF TicketOK, IsTicket, RepliesOK, Replies
  <1>other. ASSUME NEW m \in Staff,
                   UNCHANGED <<incident, had, timeline, ticket, tookBack>>,
                   AreErrands(errand'),
                   errand'[m].pc \notin DOMAIN EventKind \cup
                      {"ACKNOWLEDGE", "reply", "replied"},
                   \A n \in Staff \ {m} : errand'[n] = errand[n]
            PROVE  CasesInv'
    BY <1>other, <1>i, <1>t
  <1>still. ASSUME UNCHANGED <<incident, had, timeline, ticket, errand,
                               tookBack>>
            PROVE  CasesInv'
    BY <1>still, <1>i, <1>t
  <1>1. ASSUME NEW from, InsertTicket(from) PROVE CasesInv'
    <2>1. /\ ticket = None
          /\ ticket' = [status |-> "OPEN", from |-> from, closed |-> FALSE]
          /\ UNCHANGED <<incident, had, timeline, errand, tookBack>>
      BY <1>1 DEF InsertTicket, TicketSteps
    <2>2. TicketOK' /\ RepliesOK'
      BY <2>1 DEF TicketOK, IsTicket, RepliesOK, Replies
    <2> QED
      BY <2>1, <2>2, <1>i
  <1>2. ASSUME AssignTicket PROVE CasesInv'
    <2>1. /\ ticket # None
          /\ ticket' = [ticket EXCEPT !.status = "PENDING", !.closed = FALSE]
          /\ UNCHANGED <<incident, had, timeline, errand, tookBack>>
      BY <1>2 DEF AssignTicket, AssignTo, SetTicketStatus, TicketSteps
    <2>2. ticket' = [status |-> "PENDING", from |-> ticket.from,
                     closed |-> FALSE]
      BY <2>1 DEF TicketOK, IsTicket
    <2>3. TicketOK' /\ RepliesOK'
      BY <2>1, <2>2 DEF TicketOK, IsTicket, RepliesOK, Replies
    <2> QED
      BY <2>1, <2>3, <1>i
  <1>3. ASSUME ResolveTicket PROVE CasesInv'
    <2>1. /\ ticket # None
          /\ ticket' = [ticket EXCEPT !.status = "RESOLVED", !.closed = TRUE]
          /\ errand' = Overtaken(errand, {"reply", "replied"})
          /\ UNCHANGED <<incident, had, timeline, tookBack>>
      BY <1>3 DEF ResolveTicket, SetTicketStatus, TicketSteps
    <2>2. ticket' = [status |-> "RESOLVED", from |-> ticket.from,
                     closed |-> TRUE]
      BY <2>1 DEF TicketOK, IsTicket
    <2>3. /\ AreErrands(errand')
          /\ \A n \in Staff :
                /\ errand'[n].pc = errand[n].pc
                /\ errand'[n].read = errand[n].read
                /\ errand[n].late = TRUE => errand'[n].late = TRUE
                /\ errand[n].pc \in {"reply", "replied"} =>
                      errand'[n].late = TRUE
      BY <2>1, Overtaking
    <2>4. TicketOK'
      BY <2>2 DEF TicketOK, IsTicket
    <2>5. RepliesOK'
      BY <2>1, <2>2, <2>3, CasesAssumption
         DEF RepliesOK, Replies, TicketOK, IsTicket
    <2> QED
      BY <2>1, <2>3, <2>4, <2>5, <1>i
  <1>4. ASSUME NEW m \in Staff, TicketReply(m) PROVE CasesInv'
    <2>1. /\ ticket # None /\ CaseBegins(m, "reply", ticket.status)
          /\ UNCHANGED <<incident, had, timeline, ticket, tookBack>>
      BY <1>4 DEF TicketReply, TicketSteps
    <2>2. /\ AreErrands(errand') /\ errand'[m].pc = "reply"
          /\ errand'[m].read = ticket.status
          /\ \A n \in Staff \ {m} : errand'[n] = errand[n]
      BY <2>1, ErrandSteps DEF ErrandPoints
    <2>3. TicketOK' /\ RepliesOK'
      BY <2>1, <2>2 DEF TicketOK, IsTicket, RepliesOK, Replies
    <2> QED
      BY <2>1, <2>2, <2>3, <1>i, EventKinds
  <1>5. ASSUME NEW m \in Staff, AddTicketMessage(m) PROVE CasesInv'
    <2>1. /\ errand[m].pc = "reply"
          /\ IF errand[m].read = "OPEN" THEN CaseGoes(m, "replied")
             ELSE CaseEnds(m)
          /\ UNCHANGED <<incident, had, timeline, ticket, tookBack>>
      BY <1>5 DEF AddTicketMessage, CaseAt, TicketSteps
    <2>2. CASE errand[m].read = "OPEN"
      <3>1. /\ AreErrands(errand') /\ errand'[m].pc = "replied"
            /\ errand'[m].late = errand[m].late
            /\ \A n \in Staff \ {m} : errand'[n] = errand[n]
        BY <2>1, <2>2, ErrandSteps DEF ErrandPoints
      <3>2. TicketOK' /\ RepliesOK'
        BY <2>1, <2>2, <3>1 DEF TicketOK, IsTicket, RepliesOK, Replies
      <3> QED
        BY <2>1, <3>1, <3>2, <1>i, EventKinds
    <2>3. CASE errand[m].read # "OPEN"
      BY <2>1, <2>3, <1>other, ErrandSteps, EventKinds
    <2> QED
      BY <2>2, <2>3
  <1>6. ASSUME NEW m \in Staff, TicketReplied(m) PROVE CasesInv'
    <2>1. /\ errand[m].pc = "replied" /\ CaseEnds(m)
          /\ ticket' = [ticket EXCEPT !.status = "PENDING",
                                      !.closed = ticket.closed]
          /\ tookBack' = (tookBack \/ errand[m].late)
          /\ UNCHANGED <<incident, had, timeline>>
      BY <1>6 DEF TicketReplied, CaseAt, SetTicketStatus, TicketSteps
    <2>2. /\ AreErrands(errand') /\ errand'[m].pc = "idle"
          /\ \A n \in Staff \ {m} : errand'[n] = errand[n]
      BY <2>1, ErrandSteps
    <2>3. IsTicket /\ (ticket.closed => errand[m].late = TRUE)
      BY <2>1 DEF RepliesOK, Replies
    <2>4. ticket' = [status |-> "PENDING", from |-> ticket.from,
                     closed |-> ticket.closed]
      BY <2>1, <2>3 DEF TicketOK, IsTicket
    <2>5. TicketOK' /\ RepliesOK'
      BY <2>1, <2>2, <2>3, <2>4, CasesAssumption
         DEF TicketOK, IsTicket, RepliesOK, Replies
    <2>6. IncidentOK' /\ Informed' /\ tookBack' \in BOOLEAN
      <3>1. tookBack' \in BOOLEAN /\ (tookBack => tookBack')
        BY <2>1
      <3> QED
        BY <2>1, <2>2, <3>1, EventKinds DEF IncidentOK, Informed, Further
    <2> QED
      BY <2>2, <2>5, <2>6
  <1>7. ASSUME NEW m \in Staff, CreateIncident(m) PROVE CasesInv'
    <2>1. /\ incident = None /\ incident' = "OPEN" /\ had' = had \cup {"OPEN"}
          /\ CaseBegins(m, "created", None)
          /\ UNCHANGED <<timeline, ticket, tookBack>>
      BY <1>7
         DEF CreateIncident, InsertIncident, BecomesIncident, IncidentSteps
    <2>2. /\ AreErrands(errand') /\ errand'[m].pc = "created"
          /\ \A n \in Staff \ {m} : errand'[n] = errand[n]
      BY <2>1, ErrandSteps DEF ErrandPoints
    <2>3. ~Further /\ ~Further'
      BY <2>1 DEF IncidentOK, Further
    <2>4. IncidentOK'
      BY <2>1, <2>3 DEF IncidentOK
    <2>5. Informed'
      BY <2>1, <2>2, <2>3, EventKinds DEF Informed
    <2> QED
      BY <2>1, <2>2, <2>4, <2>5, <1>t
  <1>8. ASSUME NEW m \in Staff, MoveIncident(m) PROVE CasesInv'
    <2>1. UNCHANGED <<incident, had, timeline, ticket, tookBack>>
      BY <1>8
         DEF MoveIncident, Acknowledge, Escalate, ResolveIncident, IncidentSteps
    <2>2. CASE Acknowledge(m)
      <3>1. /\ AreErrands(errand') /\ errand'[m].pc = "ACKNOWLEDGE"
            /\ \A n \in Staff \ {m} : errand'[n] = errand[n]
            /\ ~Further
        BY <2>2, ErrandSteps DEF Acknowledge, ErrandPoints, IncidentOK
      <3>2. IncidentOK' /\ Informed'
        BY <2>1, <3>1, EventKinds DEF IncidentOK, Informed, Further
      <3> QED
        BY <2>1, <3>1, <3>2, <1>t
    <2>3. CASE Escalate(m) \/ ResolveIncident(m)
      <3>1. /\ AreErrands(errand')
            /\ errand'[m].pc \in {"ESCALATE", "RESOLVE"}
            /\ \A n \in Staff \ {m} : errand'[n] = errand[n]
        BY <2>3, ErrandSteps DEF Escalate, ResolveIncident, ErrandPoints
      <3> QED
        BY <2>1, <3>1, <1>other, EventKinds
    <2> QED
      BY <1>8, <2>2, <2>3 DEF MoveIncident
  <1>9. ASSUME NEW m \in Staff, SetIncidentStatus(m) PROVE CasesInv'
    <2> DEFINE status == StatusOf[errand[m].pc]
               gone == [errand EXCEPT ![m] = [errand[m] EXCEPT !.pc = status]]
    <2>1. /\ errand[m].pc \in {"ACKNOWLEDGE", "ESCALATE", "RESOLVE"}
          /\ incident' = status /\ had' = had \cup {status}
          /\ errand' = IF status = "ACKNOWLEDGED" THEN gone
                       ELSE Overtaken(gone, {"ACKNOWLEDGE"})
          /\ tookBack' = (tookBack \/ (status = "ACKNOWLEDGED"
                                     /\ errand[m].late))
          /\ UNCHANGED <<timeline, ticket>>
      BY <1>9, EventKinds DEF SetIncidentStatus, BecomesIncident, IncidentSteps
    <2>2. /\ status \in {"ACKNOWLEDGED", "ESCALATED", "RESOLVED"}
          /\ status = "ACKNOWLEDGED" => errand[m].pc = "ACKNOWLEDGE"
          /\ EventKind[status] = status /\ status \in DOMAIN EventKind
      BY <2>1, EventKinds
    <2> HIDE DEF status
    <2>3. /\ AreErrands(gone) /\ gone[m].pc = status
          /\ gone[m].late = errand[m].late
          /\ \A n \in Staff \ {m} : gone[n] = errand[n]
      BY <2>2 DEF AreErrands, ErrandPoints
    <2> HIDE DEF gone
    <2>4. /\ AreErrands(errand') /\ errand'[m].pc = status
          /\ \A n \in Staff \ {m} :
                /\ errand'[n].pc = errand[n].pc
                /\ errand'[n].read = errand[n].read
                /\ errand[n].late = TRUE => errand'[n].late = TRUE
                /\ status # "ACKNOWLEDGED" /\ errand[n].pc = "ACKNOWLEDGE" =>
                      errand'[n].late = TRUE
      <3>1. CASE status = "ACKNOWLEDGED"
        BY <2>1, <2>3, <3>1
      <3>2. CASE status # "ACKNOWLEDGED"
        <4>1. errand' = Overtaken(gone, {"ACKNOWLEDGE"})
          BY <2>1, <3>2
        <4>2. /\ AreErrands(Overtaken(gone, {"ACKNOWLEDGE"}))
              /\ \A n \in Staff :
                    /\ errand'[n].pc = gone[n].pc
                    /\ errand'[n].read = gone[n].read
                    /\ gone[n].late = TRUE => errand'[n].late = TRUE
                    /\ gone[n].pc = "ACKNOWLEDGE" => errand'[n].late = TRUE
          BY <2>3, <4>1, Overtaking
        <4> QED
          BY <2>3, <4>1, <4>2
      <3> QED
        BY <3>1, <3>2
    <2>5. tookBack' \in BOOLEAN /\ (tookBack => tookBack')
      BY <2>1
    <2>6. Informed'
      BY <2>1, <2>2, <2>4, EventKinds DEF Informed, Further
    <2>7. Further' /\ status = "ACKNOWLEDGED" => tookBack'
      <3>1. Further' /\ status = "ACKNOWLEDGED" => Further
        BY <2>1 DEF Further
      <3> QED
        BY <2>1, <2>2, <3>1 DEF Informed
    <2>8. IncidentOK'
      <3>1. incident' \in had' /\ incident' \in {"ACKNOWLEDGED", "ESCALATED",
              "RESOLVED"}
        BY <2>1, <2>2
      <3>2. timeline' \subseteq had' \cup {"MESSAGE"}
        BY <2>1 DEF IncidentOK
      <3>3. incident' # None
        BY <3>1, CasesAssumption
      <3>4. Further' /\ ~tookBack' => incident' # "ACKNOWLEDGED"
        BY <2>1, <2>7
      <3> QED
        BY <3>1, <3>2, <3>3, <3>4 DEF IncidentOK
    <2>9. TicketOK' /\ RepliesOK'
      BY <2>1, <2>2, <2>4, <2>5 DEF TicketOK, IsTicket, RepliesOK, Replies
    <2> QED
      BY <2>4, <2>5, <2>6, <2>8, <2>9
  <1>10. ASSUME NEW m \in Staff, AppendEvent(m) PROVE CasesInv'
    <2>1. /\ AreErrands(errand') /\ errand'[m].pc = "idle"
          /\ \A n \in Staff \ {m} : errand'[n] = errand[n]
      BY <1>10, ErrandSteps DEF AppendEvent
    <2>2. /\ UNCHANGED <<incident, had, tookBack, ticket>>
          /\ timeline' \subseteq had \cup {"MESSAGE"}
      BY <1>10 DEF AppendEvent, IncidentSteps, IncidentOK, Informed
    <2>3. IncidentOK' /\ Informed'
      BY <2>1, <2>2, EventKinds DEF IncidentOK, Informed, Further
    <2> QED
      BY <2>1, <2>2, <2>3, <1>t
  <1>11. ASSUME AddIncidentMessage PROVE CasesInv'
    <2>1. /\ UNCHANGED <<incident, had, errand, tookBack, ticket>>
          /\ timeline' = timeline \cup {"MESSAGE"}
      BY <1>11 DEF AddIncidentMessage, IncidentSteps
    <2>2. IncidentOK' /\ Informed'
      BY <2>1 DEF IncidentOK, Informed, Further
    <2> QED
      BY <2>1, <2>2, <1>t
  <1>12. ASSUME SubmitMessage \/ ArchiveMessage \/ SpamMessage
                  \/ CreateScheduled \/ ToggleScheduled
         PROVE  CasesInv'
    <2>1. UNCHANGED <<incident, had, timeline, ticket, errand, tookBack>>
      BY <1>12
         DEF SubmitMessage, ArchiveMessage, SpamMessage, FileMessage,
             InboxSteps, CreateScheduled, ToggleScheduled, ReportSteps
    <2> QED
      BY <2>1, <1>still
  <1>13. ASSUME NEW m \in Staff,
                \/ InboxReply(m) \/ InboxReplied(m) \/ InboxPatch(m)
                \/ \E status \in {"NEW", "REPLIED"} : InboxPatched(m, status)
                \/ InboxDelete(m) \/ InboxDeleted(m)
         PROVE  CasesInv'
    <2>1. /\ \/ \E pc \in {"inbox_reply", "inbox_patch", "inbox_delete"} :
                   CaseBegins(m, pc, None)
             \/ CaseEnds(m)
          /\ UNCHANGED <<incident, had, timeline, ticket, tookBack>>
      BY <1>13
         DEF InboxReply, InboxReplied, InboxPatch, InboxPatched, InboxDelete,
             InboxDeleted, InboxUpdate, FindMessage, InboxSteps
    <2>2. /\ AreErrands(errand')
          /\ errand'[m].pc \in {"idle", "inbox_reply", "inbox_patch",
                                "inbox_delete"}
          /\ \A n \in Staff \ {m} : errand'[n] = errand[n]
      BY <2>1, ErrandSteps DEF ErrandPoints
    <2> QED
      BY <2>1, <2>2, <1>other, EventKinds
  <1>14. ASSUME NEW m \in Staff,
                \/ GenerateReport(m)
                \/ BuildReport(m) \/ MarkReady(m) \/ MarkFailed(m)
                \/ DeleteReport(m) \/ ReportDeleted(m) \/ RequestDies(m)
         PROVE  CasesInv'
    <2>1. /\ \/ \E pc \in {"build", "report_delete"} : CaseBegins(m, pc, None)
             \/ \E pc \in {"built", "failed"} : CaseGoes(m, pc)
             \/ CaseEnds(m)
          /\ UNCHANGED <<incident, had, timeline, ticket, tookBack>>
      BY <1>14
         DEF GenerateReport, BuildReport, MarkReady, MarkFailed, DeleteReport,
             FindReport, ReportDeleted, RequestDies, ReportSteps
    <2>2. /\ AreErrands(errand')
          /\ errand'[m].pc \in {"idle", "build", "built", "failed",
                                "report_delete"}
          /\ \A n \in Staff \ {m} : errand'[n] = errand[n]
      BY <2>1, ErrandSteps DEF ErrandPoints
    <2> QED
      BY <2>1, <2>2, <1>other, EventKinds
  <1> QED
    BY <1>1, <1>2, <1>3, <1>4, <1>5, <1>6, <1>7, <1>8, <1>9, <1>10, <1>11,
       <1>12, <1>13, <1>14
       DEF CasesNext, PatchIncident, IncidentUpdate, MoveIncident,
           CreateTicket, SubmitTicket, PatchTicket

\* What was closed or taken further stands, as the invariant has it.
LEMMA CasesSafe == CasesInv => NothingTakenBack
  BY DEF CasesInv, IncidentOK, TicketOK, Further, NothingTakenBack

-----------------------------------------------------------------------------
(* Prices: the calculation.                                                 *)

\* The rows validateConfig lets through.
Valid == {c \in Form : ValidateConfig(c)}

\* What ValidateConfig lets through.
LEMMA ValidFields ==
    ASSUME NEW c \in Valid
    PROVE  /\ c.base \in Int /\ c.baseKM \in Int /\ c.tier1 \in Nat
           /\ c.tier1Max \in Int
           /\ c.tier2 \in Nat /\ c.night \in Nat /\ c.perMin \in Nat
           /\ c.free \in Nat
           /\ c.min \in Nat /\ c.base > 0 /\ c.tier1Max > c.baseKM
           /\ c.from \in Int /\ c.until \in Int
  BY DEF Valid, Form, ValidateConfig

\* More of anything costs no less.
LEMMA Grows ==
    ASSUME NEW a \in Int, NEW b \in Int, NEW t \in Nat, a <= b
    PROVE  a * t <= b * t
  <1>1. (b - a) * t >= 0 /\ (b - a) * t = b * t - a * t
    OBVIOUS
  <1> QED
    BY <1>1

\* A longer way never costs less, across the two tiers.
LEMMA DistanceGrows ==
    ASSUME NEW c \in Valid, NEW k \in Int, NEW m \in Int, k <= m
    PROVE  /\ DistanceCharge(c, k) \in Nat
           /\ DistanceCharge(c, m) \in Nat
           /\ DistanceCharge(c, k) <= DistanceCharge(c, m)
  <1> DEFINE x == k - c.baseKM
             y == m - c.baseKM
             cap == c.tier1Max - c.baseKM
  <1>1. /\ x \in Int /\ y \in Int /\ cap \in Int /\ x <= y /\ cap > 0
        /\ c.tier1 \in Nat /\ c.tier2 \in Nat
    BY ValidFields
  <1> DEFINE f(n) == IF n <= 0 THEN 0
                     ELSE IF n <= cap THEN n * c.tier1
                     ELSE cap * c.tier1 + (n - cap) * c.tier2
  <1>2. DistanceCharge(c, k) = f(x) /\ DistanceCharge(c, m) = f(y)
    BY DEF DistanceCharge
  <1> HIDE DEF x, y, cap
  <1>3. \A n \in Int : 0 <= n => n * c.tier1 \in Nat
    BY <1>1, Grows
  <1>4. \A n \in Int : 0 <= n => n * c.tier2 \in Nat
    BY <1>1, Grows
  <1>5. \A n, l \in Int : n <= l => n * c.tier1 <= l * c.tier1
          /\ n * c.tier2 <= l * c.tier2
    BY <1>1, Grows
  <1>6. f(x) \in Nat /\ f(y) \in Nat
    BY <1>1, <1>3, <1>4
  <1>7. f(x) <= f(y)
    <2>1. CASE x <= 0
      BY <1>1, <1>6, <2>1
    <2>2. CASE 0 < x /\ y <= cap
      BY <1>1, <1>5, <2>2
    <2>3. CASE 0 < x /\ x <= cap /\ cap < y
      <3>1. x * c.tier1 <= cap * c.tier1 /\ (y - cap) * c.tier2 \in Nat
        BY <1>1, <1>4, <1>5, <2>3
      <3>2. cap * c.tier1 \in Nat /\ x * c.tier1 \in Nat
        BY <1>1, <1>3, <2>3
      <3> QED
        BY <1>1, <2>3, <3>1, <3>2
    <2>4. CASE cap < x
      <3>1. (x - cap) * c.tier2 <= (y - cap) * c.tier2
        BY <1>1, <1>5, <2>4
      <3>2. /\ cap * c.tier1 \in Nat /\ (x - cap) * c.tier2 \in Nat
            /\ (y - cap) * c.tier2 \in Nat
        BY <1>1, <1>3, <1>4, <2>4
      <3> QED
        BY <1>1, <2>4, <3>1, <3>2
    <2> QED
      BY <1>1, <2>1, <2>2, <2>3, <2>4
  <1> HIDE DEF f
  <1> QED
    BY <1>2, <1>6, <1>7

\* What the base and the distance come to with the night and the minimum.
Charged(c, subtotal, night) ==
    LET total == 100 * subtotal + (IF night THEN subtotal * c.night ELSE 0)
    IN  IF total < 100 * c.min THEN 100 * c.min ELSE total

\* It grows with the way, and with the night.
LEMMA ChargedGrows ==
    ASSUME NEW c \in Valid, NEW x \in Nat, NEW y \in Nat, x <= y,
           NEW d \in BOOLEAN, NEW n \in BOOLEAN, d => n
    PROVE  /\ Charged(c, x, d) \in Nat /\ Charged(c, y, n) \in Nat
           /\ Charged(c, x, d) <= Charged(c, y, n)
  <1>1. c.night \in Nat /\ c.min \in Nat
    BY ValidFields
  <1>2. x * c.night <= y * c.night /\ 0 * c.night <= x * c.night
    BY <1>1, Grows
  <1>3. x * c.night \in Nat /\ y * c.night \in Nat
    BY <1>1, <1>2
  <1> DEFINE p == x * c.night
             q == y * c.night
  <1> HIDE DEF p, q
  <1>4. /\ p \in Nat /\ q \in Nat /\ p <= q
        /\ \A z \in BOOLEAN :
                 /\ Charged(c, x, z) =
                       IF 100 * x + (IF z THEN p ELSE 0) < 100 * c.min
                       THEN 100 * c.min
                       ELSE 100 * x + (IF z THEN p ELSE 0)
                 /\ Charged(c, y, z) =
                       IF 100 * y + (IF z THEN q ELSE 0) < 100 * c.min
                       THEN 100 * c.min
                       ELSE 100 * y + (IF z THEN q ELSE 0)
    BY <1>2, <1>3 DEF p, q, Charged
  <1> QED
    BY <1>1, <1>4

\* A longer wait never costs less, and no wait costs nothing.
LEMMA WaitingGrows ==
    ASSUME NEW c \in Valid, NEW v \in Int, NEW w \in Int, v <= w
    PROVE  /\ WaitingCharge(c, v) \in Nat /\ WaitingCharge(c, w) \in Nat
           /\ WaitingCharge(c, v) <= WaitingCharge(c, w)
           /\ WaitingCharge(c, 0) = 0
  <1>1. c.perMin \in Nat /\ c.free \in Nat
    BY ValidFields
  <1>2. \A n, l \in Int : n <= l => n * c.perMin <= l * c.perMin
    BY <1>1, Grows
  <1>3. \A n \in Int : n >= 0 => n * c.perMin \in Nat
    BY <1>1, Grows
  <1>4. 100 * (v - c.free) <= 100 * (w - c.free)
        /\ 100 * (v - c.free) \in Int /\ 100 * (w - c.free) \in Int
    BY <1>1
  <1>5. /\ 100 * (v - c.free) * c.perMin <= 100 * (w - c.free) * c.perMin
        /\ v > c.free => 100 * (v - c.free) * c.perMin \in Nat
        /\ w > c.free => 100 * (w - c.free) * c.perMin \in Nat
    BY <1>1, <1>2, <1>3, <1>4
  <1> QED
    BY <1>1, <1>5 DEF WaitingCharge

\* The fare of a trip, in the terms of the lemmas above.
LEMMA TripIsCharged ==
    ASSUME NEW c, NEW km, NEW hour
    PROVE  TripCharge(c, km, hour)
              = Charged(c, c.base + DistanceCharge(c, km), IsNight(c, hour))
  BY DEF TripCharge, Charged

\* A longer way, a night for a day and a longer wait never make a ride cheaper.
LEMMA CalculateGrows ==
    ASSUME NEW c \in Valid, NEW k \in Nat, NEW m \in Nat, k <= m,
           NEW h \in Int, NEW i \in Int, IsNight(c, h) => IsNight(c, i),
           NEW v \in Nat, NEW w \in Nat, v <= w
    PROVE  Calculate(c, k, h, v) <= Calculate(c, m, i, w)
  <1> DEFINE x == c.base + DistanceCharge(c, k)
             y == c.base + DistanceCharge(c, m)
  <1>1. x \in Nat /\ y \in Nat /\ x <= y
    BY DistanceGrows, ValidFields
  <1>2. IsNight(c, h) \in BOOLEAN /\ IsNight(c, i) \in BOOLEAN
    BY ValidFields DEF IsNight
  <1> HIDE DEF x, y
  <1>3. /\ Charged(c, x, IsNight(c, h)) \in Nat
        /\ Charged(c, y, IsNight(c, i)) \in Nat
        /\ Charged(c, x, IsNight(c, h)) <= Charged(c, y, IsNight(c, i))
    BY <1>1, <1>2, ChargedGrows
  <1>4. /\ TripCharge(c, k, h) = Charged(c, x, IsNight(c, h))
        /\ TripCharge(c, m, i) = Charged(c, y, IsNight(c, i))
    BY TripIsCharged DEF x, y
  <1>5. /\ WaitingCharge(c, v) \in Nat /\ WaitingCharge(c, w) \in Nat
        /\ WaitingCharge(c, v) <= WaitingCharge(c, w)
    BY WaitingGrows
  <1> QED
    BY <1>3, <1>4, <1>5 DEF Calculate

-----------------------------------------------------------------------------
(* Prices: the rows and the ride.                                           *)

PriceRow == [config : Valid, active : BOOLEAN, effective : Nat]
\* A row that was ever made stays as it was made; one is always active; the
\* ride goes on with the one it was quoted by.
RowsOK ==
    /\ rows \in Seq(PriceRow) /\ began \in Nat
    /\ Active # {} /\ \A r \in DOMAIN rows : rows[r].effective <= began
EditorsOK ==
    /\ editor = [e \in Editors |-> editor[e]]
    /\ \A e \in Editors : editor[e] # None =>
          editor[e].config \in Valid /\ editor[e].at \in 0..began
\* While no two transactions overlapped, the last row is the one active, and
\* the transaction under way has seen it.
SoleOK ==
    ~overlapped =>
        /\ Active = {Len(rows)}
        /\ \A e \in Editors : editor[e] # None =>
              /\ editor[e].sees = {Len(rows)}
              /\ \A d \in Editors : editor[d] # None => d = e
RideOK ==
    ride # None =>
        /\ ride = [row |-> ride.row, terms |-> ride.terms, km |-> ride.km,
                   hour |-> ride.hour, estimate |-> ride.estimate,
                   agreed |-> ride.agreed, wait |-> ride.wait,
                   over |-> ride.over, final |-> ride.final]
        /\ ride.row \in DOMAIN rows /\ ride.terms = rows[ride.row].config
        /\ ride.km \in Distances \cup {None} /\ ride.hour \in Hours
        /\ ride.km # None =>
              ride.estimate = Calculate(ride.terms, ride.km, ride.hour, 0)
        /\ ride.agreed = None => ride.wait = None
        /\ ride.wait = None => ride.over = None
        /\ ride.over = None => ride.final = None
        /\ FareAsAgreed
PricingInv ==
    RowsOK /\ EditorsOK /\ overlapped \in BOOLEAN /\ SoleOK /\ RideOK

\* The seed is valid, and the only row.
LEMMA PricingInvInit == PricingInit => PricingInv
  <1> SUFFICES ASSUME PricingInit PROVE PricingInv
    OBVIOUS
  <1>1. Seed \in Valid
    BY PricingAssumption DEF Valid
  <1>2. /\ rows = <<[config |-> Seed, active |-> TRUE, effective |-> 0]>>
        /\ began = 0 /\ ride = None /\ editor = [e \in Editors |-> None]
        /\ overlapped = FALSE
    BY DEF PricingInit
  <1>3. [config |-> Seed, active |-> TRUE, effective |-> 0] \in PriceRow
    BY <1>1 DEF PriceRow
  <1>4. RowsOK
    <2>1. /\ rows \in Seq(PriceRow) /\ DOMAIN rows = {1}
          /\ rows[1].active /\ rows[1].effective = 0
      <3> HIDE DEF PriceRow
      <3> QED
        BY <1>2, <1>3
    <2> QED
      BY <1>2, <2>1 DEF RowsOK, Active
  <1>5. SoleOK
    <2>1. Active = {1} /\ Len(rows) = 1
      BY <1>2 DEF Active
    <2> QED
      BY <1>2, <2>1 DEF SoleOK
  <1> QED
    BY <1>2, <1>4, <1>5 DEF PricingInv, EditorsOK, RideOK

\* What a row consists of.
LEMMA RowFields ==
    ASSUME RowsOK, NEW r \in DOMAIN rows
    PROVE  /\ rows[r] \in PriceRow /\ rows[r].config \in Valid
           /\ rows[r].effective \in Nat /\ began - rows[r].effective \in Nat
  <1>1. rows[r] \in PriceRow /\ rows[r].effective <= began /\ began \in Nat
    BY DEF RowsOK
  <1> QED
    BY <1>1 DEF PriceRow

\* The row of the day is one of the active ones.
LEMMA RowOfTheDay == ASSUME RowsOK PROVE GetActiveConfig \in Active
  <1> DEFINE S == {began - rows[r].effective : r \in Active}
  <1>1. \A r \in Active : began - rows[r].effective \in Nat
          /\ rows[r].effective \in Nat
    BY RowFields DEF Active
  <1>2. S \in SUBSET Nat /\ S # {}
    BY <1>1 DEF RowsOK
  <1>3. \E m \in S : \A n \in S : m <= n
    <2> HIDE DEF S
    <2> QED
      BY <1>2, LeastThere
  <1>4. \E r \in Active : \A x \in Active :
           began - rows[r].effective <= began - rows[x].effective
    BY <1>3
  <1>5. \E r \in Active : \A x \in Active :
          rows[x].effective <= rows[r].effective
    <2>1. began \in Nat
      BY DEF RowsOK
    <2> QED
      BY <1>1, <1>4, <2>1
  <1> QED
    BY <1>5 DEF GetActiveConfig

\* One step per action: rows are added by their day, and a ride keeps its own.
LEMMA PricingKept == ASSUME PricingInv, PricingNext PROVE PricingInv'
  <1> USE DEF PricingInv
  <1>1. ASSUME NEW e \in Editors, NEW form \in Tariffs, CreatePricing(e, form)
        PROVE  PricingInv'
    <2>1. form \in Valid
      BY <1>1, PricingAssumption DEF CreatePricing, Valid
    <2>2. /\ began' = began + 1 /\ UNCHANGED <<rows, ride>>
          /\ editor' = [editor EXCEPT ![e] =
                [config |-> form, at |-> began + 1, sees |-> Active]]
      BY <1>1 DEF CreatePricing
    <2>3. RowsOK'
      <3>1. \A r \in DOMAIN rows : rows[r].effective \in Nat
        BY RowFields
      <3> QED
        BY <2>2, <3>1 DEF RowsOK, Active
    <2>4. EditorsOK'
      <3> HIDE DEF Valid
      <3> QED
        BY <2>1, <2>2 DEF EditorsOK, RowsOK
    <2>5. RideOK'
      BY <2>2 DEF RideOK, FareAsAgreed
    <2>6. overlapped' = (overlapped \/ \E d \in Editors : editor[d] # None)
          /\ overlapped' \in BOOLEAN
      BY <1>1 DEF CreatePricing
    <2>7. SoleOK'
      <3> SUFFICES ASSUME ~overlapped'
                   PROVE  /\ Active' = {Len(rows)'}
                          /\ \A f \in Editors : editor'[f] # None =>
                                /\ editor'[f].sees = {Len(rows)'}
                                /\ \A d \in Editors : editor'[d] # None => d = f
        BY DEF SoleOK
      <3>1. ~overlapped /\ \A d \in Editors : editor[d] = None
        BY <2>6
      <3>2. Active' = Active /\ Active = {Len(rows)} /\ rows' = rows
        BY <2>2, <3>1 DEF SoleOK, Active
      <3>3. /\ editor'[e].sees = Active
            /\ \A d \in Editors \ {e} : editor'[d] = editor[d]
        BY <2>2 DEF EditorsOK
      <3> QED
        BY <3>1, <3>2, <3>3
    <2> QED
      BY <2>3, <2>4, <2>5, <2>6, <2>7
  <1>2. ASSUME NEW e \in Editors, CreateConfig(e) PROVE PricingInv'
    <2> DEFINE tx == editor[e]
               entry == [config |-> tx.config, active |-> TRUE,
                 effective |-> tx.at]
               old == [r \in DOMAIN rows |->
                          IF r \in tx.sees
                          THEN [rows[r] EXCEPT !.active = FALSE]
                          ELSE rows[r]]
    <2>1. /\ tx # None /\ rows' = Append(old, entry)
          /\ editor' = [editor EXCEPT ![e] = None]
          /\ UNCHANGED <<began, overlapped, ride>>
      BY <1>2 DEF CreateConfig
    <2>2. entry \in PriceRow /\ entry.active /\ entry.effective <= began
      BY <2>1 DEF EditorsOK, PriceRow, RowsOK
    <2>3. \A r \in DOMAIN rows :
            /\ old[r] \in PriceRow /\ old[r].config = rows[r].config
            /\ old[r].effective = rows[r].effective
      <3>1. \A r \in DOMAIN rows : rows[r] \in PriceRow
        BY DEF RowsOK
      <3>2. \A x \in PriceRow : /\ [x EXCEPT !.active = FALSE] \in PriceRow
                                /\ [x EXCEPT !.active = FALSE].config
                                   = x.config
                                /\ [x EXCEPT !.active = FALSE].effective
                                   = x.effective
        BY DEF PriceRow
      <3> QED
        BY <3>1, <3>2
    <2>s. \A r \in DOMAIN rows : r \in tx.sees => ~old[r].active
      <3>1. \A x \in PriceRow : [x EXCEPT !.active = FALSE].active = FALSE
        BY DEF PriceRow
      <3>2. \A r \in DOMAIN rows : rows[r] \in PriceRow
        BY DEF RowsOK
      <3> QED
        BY <3>1, <3>2
    <2>4. old \in Seq(PriceRow) /\ Len(old) = Len(rows)
      <3> HIDE DEF PriceRow
      <3>1. rows \in Seq(PriceRow)
        BY DEF RowsOK
      <3>2. old \in [1..Len(rows) -> PriceRow]
        BY <2>3, <3>1
      <3> QED
        BY <3>1, <3>2
    <2> HIDE DEF entry, old, PriceRow
    <2>5. /\ rows' \in Seq(PriceRow) /\ DOMAIN rows' = 1..(Len(rows) + 1)
          /\ rows'[Len(rows) + 1] = entry
          /\ \A r \in DOMAIN rows : r \in DOMAIN rows' /\ rows'[r] = old[r]
      <3>1. rows \in Seq(PriceRow)
        BY DEF RowsOK
      <3> QED
        BY <2>1, <2>2, <2>4, <3>1
    <2>6. DOMAIN rows = 1..Len(rows) /\ Len(rows) \in Nat
      BY DEF RowsOK
    <2>7. RowsOK'
      <3>1. Len(rows) + 1 \in Active'
        BY <2>2, <2>5, <2>6 DEF Active
      <3>2. \A r \in DOMAIN rows' : rows'[r].effective <= began
        BY <2>2, <2>3, <2>5, <2>6 DEF RowsOK
      <3> QED
        BY <2>1, <2>5, <3>1, <3>2 DEF RowsOK
    <2>8. EditorsOK'
      BY <2>1 DEF EditorsOK
    <2>9. RideOK'
      BY <2>1, <2>3, <2>5 DEF RideOK, FareAsAgreed
    <2>10. SoleOK'
      <3> SUFFICES ASSUME ~overlapped
                   PROVE  /\ Active' = {Len(rows')}
                          /\ \A f \in Editors : editor'[f] = None
        BY <2>1 DEF SoleOK
      <3>1. /\ Active = {Len(rows)} /\ tx.sees = {Len(rows)}
            /\ \A d \in Editors : editor[d] # None => d = e
        BY <2>1 DEF SoleOK
      <3>2. \A f \in Editors : editor'[f] = None
        BY <2>1, <3>1 DEF EditorsOK
      <3>3. \A r \in DOMAIN rows : ~rows'[r].active
        <4>1. \A r \in DOMAIN rows : r \in tx.sees \/ ~rows[r].active
          BY <3>1 DEF Active
        <4>2. \A r \in DOMAIN rows : r \notin tx.sees => old[r] = rows[r]
          BY DEF old
        <4> QED
          BY <2>s, <2>5, <4>1, <4>2
      <3>4. Len(rows') = Len(rows) + 1
        BY <2>5, <2>6
      <3> QED
        BY <2>2, <2>5, <2>6, <3>2, <3>3, <3>4 DEF Active
    <2> QED
      BY <2>1, <2>7, <2>8, <2>9, <2>10
  <1>same. ASSUME RideSteps PROVE RowsOK' /\ EditorsOK' /\ SoleOK'
    BY <1>same DEF RideSteps, RowsOK, EditorsOK, SoleOK, Active
  <1>3. ASSUME NEW km \in Distances \cup {None}, NEW hour \in Hours,
               QuoteRide(km, hour)
        PROVE  PricingInv'
    <2> DEFINE terms == rows[GetActiveConfig].config
               estimate == IF km = None THEN None
                           ELSE Calculate(terms, km, hour, 0)
    <2>1. /\ RideSteps
          /\ ride' = [row |-> GetActiveConfig, terms |-> terms, km |-> km,
                      hour |-> hour, estimate |-> estimate, agreed |-> None,
                      wait |-> None, over |-> None, final |-> None]
      BY <1>3 DEF QuoteRide, FareEstimate, GetConfigByID
    <2>2. GetActiveConfig \in DOMAIN rows
      BY RowOfTheDay DEF Active
    <2> HIDE DEF estimate
    <2>3. RideOK'
      <3>1. /\ ride'.row = GetActiveConfig /\ ride'.terms = terms
            /\ ride'.km = km /\ ride'.hour = hour
            /\ ride'.estimate = estimate /\ ride'.final = None
            /\ ride'.wait = None /\ ride'.over = None
            /\ ride' = [row |-> ride'.row, terms |-> ride'.terms,
                        km |-> ride'.km, hour |-> ride'.hour,
                        estimate |-> ride'.estimate, agreed |-> ride'.agreed,
                        wait |-> ride'.wait, over |-> ride'.over,
                        final |-> ride'.final]
        BY <2>1
      <3>2. rows' = rows /\ (km # None =>
              estimate = Calculate(terms, km, hour, 0))
        BY <2>1 DEF RideSteps, estimate
      <3> QED
        BY <2>2, <3>1, <3>2 DEF RideOK, FareAsAgreed
    <2> QED
      BY <2>1, <2>3, <1>same DEF RideSteps
  <1>4. ASSUME NEW fare \in Fares, AgreeFare(fare) PROVE PricingInv'
    <2>1. /\ ride # None /\ ride.agreed = None
          /\ ride' = [ride EXCEPT !.agreed = fare] /\ RideSteps
      BY <1>4 DEF AgreeFare
    <2>2. ride' = [row |-> ride.row, terms |-> ride.terms, km |-> ride.km,
                   hour |-> ride.hour, estimate |-> ride.estimate,
                   agreed |-> fare, wait |-> ride.wait,
                   over |-> ride.over, final |-> ride.final]
      BY <2>1 DEF RideOK
    <2>3. ride.final = None
      BY <2>1 DEF RideOK
    <2>4. RideOK'
      BY <2>1, <2>2, <2>3 DEF RideOK, RideSteps, FareAsAgreed
    <2> QED
      BY <2>1, <2>4, <1>same DEF RideSteps
  <1>5. ASSUME NEW wait \in WaitTimes, StartRide(wait) PROVE PricingInv'
    <2>1. /\ ride # None /\ ride.wait = None /\ ride.agreed # None
          /\ ride' = [ride EXCEPT !.wait = wait] /\ RideSteps
      BY <1>5 DEF StartRide
    <2>2. ride' = [row |-> ride.row, terms |-> ride.terms, km |-> ride.km,
                   hour |-> ride.hour, estimate |-> ride.estimate,
                   agreed |-> ride.agreed, wait |-> wait,
                   over |-> ride.over, final |-> ride.final]
      BY <2>1 DEF RideOK
    <2>3. ride.final = None
      BY <2>1 DEF RideOK
    <2>4. RideOK'
      BY <2>1, <2>2, <2>3 DEF RideOK, RideSteps, FareAsAgreed
    <2> QED
      BY <2>1, <2>4, <1>same DEF RideSteps
  <1>6. ASSUME Charge \/ ChargeStale PROVE PricingInv'
    <2> DEFINE due(over) ==
                 IF over = "watchdog" THEN 100 * ride.agreed
                 ELSE 100 * ride.agreed
                         + WaitingCharge(ride.terms, Counted(ride.wait))
    <2>1. ride # None /\ RideSteps /\ ride.wait # None
      BY <1>6 DEF Charge, ChargeStale, Underway
    <2>a. \/ \E over \in {"driver", "watchdog"} : SetFinalFare(over, None)
          \/ \E over \in {"driver", "watchdog"} : SetFinalFare(over, due(over))
      <3>1. CASE Charge
        <4>1. \/ SetFinalFare("driver", None)
              \/ SetFinalFare("driver", 100 * ride.agreed
                    + WaitingCharge(rows[ride.row].config, Counted(ride.wait)))
          BY <3>1 DEF Charge, GetConfigByID
        <4>2. \/ SetFinalFare("driver", None)
              \/ SetFinalFare("driver", due("driver"))
          BY <2>1, <4>1 DEF RideOK
        <4> QED
          BY <4>2
      <3>2. CASE ChargeStale
        <4>1. \/ SetFinalFare("watchdog", None)
              \/ SetFinalFare("watchdog", due("watchdog"))
          BY <3>2 DEF ChargeStale
        <4> QED
          BY <4>1
      <3> QED
        BY <1>6, <3>1, <3>2
    <2> HIDE DEF due
    <2>2. PICK over \in {"driver", "watchdog"}, final \in {None, due("driver"),
                                                         due("watchdog")} :
            /\ final # None => final = due(over)
            /\ ride' = [ride EXCEPT !.over = over, !.final = final]
      BY <2>a DEF SetFinalFare
    <2>3. ride' = [row |-> ride.row, terms |-> ride.terms, km |-> ride.km,
                   hour |-> ride.hour, estimate |-> ride.estimate,
                   agreed |-> ride.agreed, wait |-> ride.wait,
                   over |-> over, final |-> final]
      BY <2>1, <2>2 DEF RideOK
    <2>4. RideOK'
      BY <2>1, <2>2, <2>3, PricingAssumption
         DEF RideOK, RideSteps, FareAsAgreed, due
    <2> QED
      BY <2>1, <2>4, <1>same DEF RideSteps
  <1>8. ASSUME NextRide PROVE PricingInv'
    BY <1>8, <1>same DEF NextRide, RideOK, RideSteps
  <1> QED
    BY <1>1, <1>2, <1>3, <1>4, <1>5, <1>6, <1>8 DEF PricingNext

\* The row a ride was booked under prices it, and more is never cheaper.
LEMMA PricingSafe == ASSUME PricingInv PROVE PricesHold
  <1>1. ASSUME ride # None
        PROVE  /\ ride.terms \in Valid /\ ride.hour \in Int
               /\ ride.km # None => ride.km \in Nat
    <2>1. rows[ride.row] \in PriceRow
      BY <1>1 DEF PricingInv, RowsOK, RideOK
    <2> QED
      BY <1>1, <2>1, PricingAssumption DEF PriceRow, PricingInv, RideOK
  <1>2. FareAsAgreed
    BY DEF PricingInv, RideOK, FareAsAgreed
  <1>3. LastPriceInForce
    <2>1. GetActiveConfig \in Active
      BY RowOfTheDay DEF PricingInv
    <2> QED
      BY <2>1 DEF PricingInv, SoleOK, LastPriceInForce
  <1>4. FareNeverShrinks
    <2> SUFFICES ASSUME ride # None PROVE FareNeverShrinks
      BY DEF FareNeverShrinks
    <2>1. ASSUME ride.km # None, NEW km \in Distances, NEW h \in Hours,
                 km <= ride.km,
                 IsNight(ride.terms, h) => IsNight(ride.terms, ride.hour)
          PROVE  Calculate(ride.terms, km, h, 0) <= ride.estimate
      <3>1. ride.estimate = Calculate(ride.terms, ride.km, ride.hour, 0)
        BY <2>1 DEF PricingInv, RideOK
      <3>2. /\ ride.terms \in Valid /\ ride.hour \in Int /\ ride.km \in Nat
            /\ km \in Nat /\ h \in Int
        BY <1>1, <2>1, PricingAssumption
      <3> QED
        BY <2>1, <3>1, <3>2, CalculateGrows
    <2>2. ASSUME NEW wait \in WaitTimes, NEW short \in WaitTimes, short <= wait
          PROVE  WaitingCharge(ride.terms, short)
                    <= WaitingCharge(ride.terms, wait)
      BY <1>1, <2>2, PricingAssumption, WaitingGrows
    <2> QED
      BY <2>1, <2>2 DEF FareNeverShrinks
  <1> QED
    BY <1>2, <1>3, <1>4 DEF PricesHold

-----------------------------------------------------------------------------
(* Settings.                                                                *)

DeskRow == [pc : {"idle", "create", "update", "delete"},
            id : Regions \cup {None}, status : Standing \cup {None},
            read : [Regions -> Standing \cup {None}] \cup {None}]
\* Unless two edits overlapped, one at most is under way, and what it read is
\* what there is.
SettingsInv ==
    /\ region \in [Regions -> Standing \cup {None}]
    /\ fate \in [Regions -> Standing \cup {None}]
    /\ desk \in [Secretaries -> DeskRow]
    /\ \A s \in Secretaries : desk[s].pc = "delete" => desk[s].status = None
    /\ \A s \in Secretaries : desk[s].pc # "idle" =>
          /\ desk[s].id \in Regions
          /\ desk[s].read \in [Regions -> Standing \cup {None}]
    /\ ~lossy => /\ region = fate
                 /\ \A s \in Secretaries : desk[s].pc # "idle" =>
                    desk[s].read = region
                 /\ \A s, t \in Secretaries :
                       desk[s].pc # "idle" /\ desk[t].pc # "idle" => s = t

\* No region, and nobody at the desk.
LEMMA SettingsInvInit == SettingsInit => SettingsInv
  BY DEF SettingsInit, SettingsInv, NoDesk, DeskRow

\* An edit that reads is alone, or what it loses is put down to the overlap.
LEMMA RegionsRead ==
    ASSUME SettingsInv, NEW s \in Secretaries, NEW r \in Regions,
           NEW pc \in {"create", "update", "delete"},
           NEW status \in Standing \cup {None},
           NEW read \in [Regions -> Standing \cup {None}],
           pc = "delete" => status = None,
           ReadRegions(s, pc, r, status, read)
    PROVE  SettingsInv'
  <1>1. [pc |-> pc, id |-> r, status |-> status, read |-> read] \in DeskRow
    BY DEF DeskRow
  <1>2. desk' = [desk EXCEPT ![s] = [pc |-> pc, id |-> r, status |-> status,
          read |-> read]]
    BY DEF ReadRegions
  <1>3. desk' \in [Secretaries -> DeskRow]
    BY <1>1, <1>2 DEF SettingsInv
  <1>4. ~lossy' => ~lossy /\ read = region
          /\ \A t \in Secretaries : desk[t].pc = "idle"
    BY DEF ReadRegions
  <1>5. UNCHANGED <<region, fate>>
    BY DEF ReadRegions
  <1>6. desk'[s] = [pc |-> pc, id |-> r, status |-> status, read |-> read]
        /\ \A t \in Secretaries \ {s} : desk'[t] = desk[t]
    BY <1>2 DEF SettingsInv
  <1> QED
    BY <1>3, <1>4, <1>5, <1>6 DEF SettingsInv

\* The one that writes back leaves what it was asked for.
LEMMA RegionsWritten ==
    ASSUME SettingsInv, NEW s \in Secretaries,
           AppendRegion(s) \/ MergeRegion(s) \/ FilterRegion(s)
    PROVE  SettingsInv'
  <1> DEFINE d == desk[s]
  <1>1. d \in DeskRow /\ d.pc # "idle" /\ d.id \in Regions
        /\ d.read \in [Regions -> Standing \cup {None}]
    BY DEF SettingsInv, AppendRegion, MergeRegion, FilterRegion
  <1>2. d.status \in Standing \cup {None}
    BY <1>1 DEF DeskRow
  <1> DEFINE writes == IF d.pc = "delete" THEN [d.read EXCEPT ![d.id] = None]
                       ELSE IF d.pc = "update"
                         /\ d.read[d.id] = None THEN d.read
                       ELSE [d.read EXCEPT ![d.id] = d.status]
  <1>3. WriteRegions(s, writes)
    BY DEF AppendRegion, MergeRegion, FilterRegion
  <1>4. /\ region' = writes
        /\ fate' = [fate EXCEPT ![d.id] =
                       IF d.pc = "update" /\ fate[d.id] = None THEN None
                         ELSE d.status]
        /\ desk' = [desk EXCEPT ![s] = NoDesk]
        /\ lossy' = lossy
    BY <1>3 DEF WriteRegions
  <1>5. writes \in [Regions -> Standing \cup {None}]
    BY <1>1, <1>2
  <1>6. fate' \in [Regions -> Standing \cup {None}]
    BY <1>1, <1>2, <1>4 DEF SettingsInv
  <1>7. NoDesk \in DeskRow /\ NoDesk.pc = "idle"
    BY DEF NoDesk, DeskRow
  <1>8. desk' \in [Secretaries -> DeskRow]
        /\ \A t \in Secretaries : desk'[t].pc # "idle" => t # s
           /\ desk'[t] = desk[t]
    BY <1>4, <1>7 DEF SettingsInv
  <1>9. d.pc = "delete" => d.status = None
    BY DEF SettingsInv
  <1>10. ~lossy => region' = fate'
    <2>1. ~lossy => d.read = region /\ region = fate
      BY <1>1 DEF SettingsInv
    <2> QED
      BY <1>1, <1>2, <1>4, <1>9, <2>1 DEF SettingsInv
  <1>11. ~lossy => \A t \in Secretaries : desk'[t].pc = "idle"
    BY <1>1, <1>8 DEF SettingsInv
  <1> HIDE DEF writes, d
  <1> QED
    BY <1>4, <1>5, <1>6, <1>8, <1>10, <1>11 DEF SettingsInv

\* One step per statement of an edit.
LEMMA SettingsKept == ASSUME SettingsInv, SettingsNext PROVE SettingsInv'
  <1>1. ASSUME NEW s \in Secretaries, UpdateKey(s) PROVE SettingsInv'
    BY <1>1 DEF UpdateKey, SettingsInv
  <1>2. ASSUME NEW s \in Secretaries, NEW r \in Regions,
                 NEW status \in Standing,
               CreateRegion(s, r, status) \/ UpdateRegion(s, r, status)
        PROVE  SettingsInv'
    <2>1. \E read \in [Regions -> Standing \cup {None}],
            pc \in {"create", "update"} :
             ReadRegions(s, pc, r, status, read)
      <3>1. region \in [Regions -> Standing \cup {None}]
            /\ [x \in Regions |-> None] \in [Regions -> Standing \cup {None}]
        BY DEF SettingsInv
      <3> QED
        BY <1>2, <3>1 DEF CreateRegion, UpdateRegion
    <2> QED
      BY <2>1, RegionsRead
  <1>3. ASSUME NEW s \in Secretaries, NEW r \in Regions, DeleteRegion(s, r)
        PROVE  SettingsInv'
    <2>1. region \in [Regions -> Standing \cup {None}]
      BY DEF SettingsInv
    <2> QED
      BY <1>3, <2>1, RegionsRead DEF DeleteRegion
  <1> QED
    BY <1>1, <1>2, <1>3, RegionsWritten DEF SettingsNext

-----------------------------------------------------------------------------
(* Adverts.                                                                 *)

IsRow(entry) ==
    entry = [f \in Fields |-> entry[f]] /\ entry["partner"] \in Partners
\* What each request of the console has in hand.
BannersOK ==
    /\ banner = [e \in AdEditors |-> banner[e]]
    /\ \A e \in AdEditors :
          LET b == banner[e] IN
          /\ b.pc = "partner" =>
                b.id \in Partners /\ b.input \in {"active", "inactive"}
          /\ b.pc = "create" => b.id \in Adverts /\ b.input \in Partners
          /\ b.pc = "advert" => /\ b.id \in Adverts /\ IsRow(b.read)
                                /\ b.input["partner"] \in Partners \cup {None}
\* Nobody edits an advert that is being made.
MadeAlone ==
    \A e, x \in AdEditors :
        banner[e].pc = "create" =>
            /\ advert[banner[e].id] = None
            /\ x # e /\ banner[x].pc \in {"create", "advert"} =>
               banner[x].id # banner[e].id
\* Unless edits crossed, an advert is as ordered, and one that is being edited
\* is as it was read or gone.
AdvertsInv ==
    /\ partner = [p \in Partners |-> partner[p]]
    /\ advert = [a \in Adverts |-> advert[a]]
    /\ named = [a \in Adverts |-> named[a]]
    /\ \A a \in Adverts : advert[a] # None =>
          IsRow(advert[a]) /\ partner[advert[a]["partner"]] # None
    /\ BannersOK /\ MadeAlone
    /\ ~crossed =>
          /\ named = advert
          /\ \A e \in AdEditors : banner[e].pc = "advert" =>
                advert[banner[e].id] \in {None, banner[e].read}
          /\ \A e, x \in AdEditors :
                /\ banner[e].pc = "advert" /\ banner[x].pc = "advert"
                /\ banner[e].id = banner[x].id
                => e = x

\* No partner, no advert, and nobody at the desk.
LEMMA AdvertsInvInit == AdvertsInit => AdvertsInv
  BY DEF AdvertsInit, AdvertsInv, BannersOK, MadeAlone, NoBanner

\* A request that has been answered has nothing in hand.
LEMMA BannerAnswered ==
    ASSUME AdvertsInv, NEW e \in AdEditors, Answered(e)
    PROVE  /\ BannersOK' /\ banner'[e].pc = "idle"
           /\ \A x \in AdEditors \ {e} : banner'[x] = banner[x]
  BY DEF AdvertsInv, Answered, BannersOK, NoBanner

\* What an edit of partner or advert does to the rows: they are gone.
LEMMA AdvertsGone ==
    ASSUME AdvertsInv, NEW Gone \in SUBSET Adverts,
           advert' = [a \in Adverts |-> IF a \in Gone THEN None
             ELSE advert[a]],
           named' = [a \in Adverts |-> IF a \in Gone THEN None ELSE named[a]],
           partner' = [p \in Partners |-> partner'[p]],
           \A a \in Adverts \ Gone : advert[a] # None =>
               partner'[advert[a]["partner"]] # None,
           UNCHANGED <<banner, crossed>>
    PROVE  AdvertsInv'
  <1>1. BannersOK' /\ MadeAlone'
    BY DEF AdvertsInv, BannersOK, MadeAlone
  <1> QED
    BY <1>1 DEF AdvertsInv, BannersOK

\* What a request has in hand when it begins.
LEMMA BannerAsked ==
    ASSUME AdvertsInv, NEW e \in AdEditors, AdCall(e),
           NEW pc, NEW id, NEW input, NEW read, Asked(e, pc, id, input, read)
    PROVE  /\ banner[e].pc = "idle"
           /\ banner' = [x \in AdEditors |-> banner'[x]]
           /\ banner'[e] = [pc |-> pc, id |-> id, input |-> input,
              read |-> read]
           /\ \A x \in AdEditors \ {e} : banner'[x] = banner[x]
  BY DEF AdvertsInv, BannersOK, AdCall, Asked

\* One step per action.
LEMMA AdvertsKept == ASSUME AdvertsInv, AdvertsNext PROVE AdvertsInv'
  <1>1. ASSUME NEW e \in AdEditors, NEW p \in Partners, CreatePartner(e, p)
        PROVE  AdvertsInv'
    <2>1. /\ partner' = [partner EXCEPT ![p] = "active"]
          /\ UNCHANGED <<advert, banner, named, crossed>>
      BY <1>1 DEF CreatePartner
    <2>2. \A a \in Adverts : advert[a] # None =>
            partner'[advert[a]["partner"]] # None
      BY <2>1, AdvertsAssumption DEF AdvertsInv, IsRow
    <2> QED
      BY <2>1, <2>2 DEF AdvertsInv, BannersOK, MadeAlone
  <1>2. ASSUME NEW e \in AdEditors, NEW p \in Partners, DeletePartner(e, p)
        PROVE  AdvertsInv'
    <2> DEFINE Theirs ==
               {a \in Adverts : advert[a] # None /\ advert[a]["partner"] = p}
    <2>1. /\ partner' = [partner EXCEPT ![p] = None]
          /\ advert' = [a \in Adverts |-> IF a \in Theirs THEN None
             ELSE advert[a]]
          /\ named' = [a \in Adverts |-> IF a \in Theirs THEN None
             ELSE named[a]]
          /\ UNCHANGED <<banner, crossed>>
      BY <1>2 DEF DeletePartner, DropPartner
    <2>2. \A a \in Adverts \ Theirs : advert[a] # None =>
            partner'[advert[a]["partner"]] # None
      BY <2>1 DEF AdvertsInv, IsRow
    <2>3. partner' = [x \in Partners |-> partner'[x]]
      BY <2>1 DEF AdvertsInv
    <2> HIDE DEF Theirs
    <2> QED
      BY <2>1, <2>2, <2>3, AdvertsGone DEF Theirs
  <1>3. ASSUME NEW e \in AdEditors, NEW p \in Partners, FindPartner(e, p)
        PROVE  AdvertsInv'
    <2>1. PICK status \in {"active", "inactive"} :
            Asked(e, "partner", p, status, partner[p])
      BY <1>3 DEF FindPartner
    <2>0. AdCall(e) /\ UNCHANGED <<partner, advert, named, crossed>>
      BY <1>3 DEF FindPartner
    <2>2. /\ banner[e].pc = "idle"
          /\ banner' = [x \in AdEditors |-> banner'[x]]
          /\ banner'[e] = [pc |-> "partner", id |-> p, input |-> status,
                           read |-> partner[p]]
          /\ \A x \in AdEditors \ {e} : banner'[x] = banner[x]
      BY <2>0, <2>1, BannerAsked
    <2>3. BannersOK' /\ MadeAlone'
      BY <2>0, <2>2 DEF AdvertsInv, BannersOK, MadeAlone
    <2> QED
      BY <2>0, <2>2, <2>3 DEF AdvertsInv
  <1>4. ASSUME NEW e \in AdEditors, UpdatePartner(e) PROVE AdvertsInv'
    <2>1. /\ BannersOK' /\ banner'[e].pc = "idle"
          /\ \A x \in AdEditors \ {e} : banner'[x] = banner[x]
      BY <1>4, BannerAnswered DEF UpdatePartner
    <2>2. /\ banner[e].id \in Partners /\ banner[e].input # None
      BY <1>4, AdvertsAssumption DEF UpdatePartner, AdvertsInv, BannersOK
    <2>3. /\ partner' = [partner EXCEPT ![banner[e].id] =
                           IF partner[banner[e].id] = None THEN None
                             ELSE banner[e].input]
          /\ UNCHANGED <<advert, named, crossed>>
      BY <1>4 DEF UpdatePartner
    <2>4. \A a \in Adverts : advert[a] # None =>
            partner'[advert[a]["partner"]] # None
      BY <2>2, <2>3 DEF AdvertsInv, IsRow
    <2>5. MadeAlone'
      BY <2>1, <2>3 DEF AdvertsInv, MadeAlone
    <2>6. partner' = [x \in Partners |-> partner'[x]]
      BY <2>3 DEF AdvertsInv
    <2> QED
      BY <2>1, <2>3, <2>4, <2>5, <2>6 DEF AdvertsInv
  <1>5. ASSUME NEW e \in AdEditors, NEW a \in Adverts, NEW p \in Partners,
               VerifyPartner(e, a, p)
        PROVE  AdvertsInv'
    <2>0. /\ AdCall(e) /\ UNCHANGED <<partner, advert, named, crossed>>
          /\ Asked(e, "create", a, p, None)
      BY <1>5 DEF VerifyPartner
    <2>1. /\ banner[e].pc = "idle"
          /\ banner' = [x \in AdEditors |-> banner'[x]]
          /\ banner'[e] = [pc |-> "create", id |-> a, input |-> p,
             read |-> None]
          /\ \A x \in AdEditors \ {e} : banner'[x] = banner[x]
      BY <2>0, BannerAsked
    <2>2. advert[a] = None /\ \A x \in AdEditors : banner[x].id # a
      BY <1>5 DEF VerifyPartner
    <2>3. BannersOK' /\ MadeAlone'
      BY <2>0, <2>1, <2>2 DEF AdvertsInv, BannersOK, MadeAlone
    <2> QED
      BY <2>0, <2>1, <2>3 DEF AdvertsInv
  <1>6. ASSUME NEW e \in AdEditors, CreateAdvert(e) PROVE AdvertsInv'
    <2> DEFINE b == banner[e]
               entry == [f \in Fields |->
                         CASE f = "partner" -> b.input [] f = "active" -> TRUE
                           [] f = "copy" -> "old" [] f = "window" -> "during"]
               new == IF partner[entry["partner"]] = None THEN None ELSE entry
    <2>1. /\ BannersOK' /\ banner'[e].pc = "idle"
          /\ \A x \in AdEditors \ {e} : banner'[x] = banner[x]
      BY <1>6, BannerAnswered DEF CreateAdvert
    <2>2. b.pc = "create" /\ b.id \in Adverts /\ b.input \in Partners
      BY <1>6 DEF CreateAdvert, AdvertsInv, BannersOK
    <2>3. /\ advert' = [advert EXCEPT ![b.id] = new]
          /\ named' = [named EXCEPT ![b.id] = advert'[b.id]]
          /\ UNCHANGED <<partner, crossed>>
      BY <1>6 DEF CreateAdvert, InsertAdvert
    <2>4. IsRow(entry)
      BY <2>2 DEF IsRow, Fields
    <2> HIDE DEF entry
    <2>5. new # None => IsRow(new) /\ partner[new["partner"]] # None
      BY <2>4
    <2>6. \A x \in AdEditors \ {e} : banner[x].pc \in {"create", "advert"} =>
            banner[x].id # b.id
      BY <2>2 DEF AdvertsInv, MadeAlone
    <2> HIDE DEF new, b
    <2>7. advert' = [a \in Adverts |-> advert'[a]] /\ advert'[b.id] = new
          /\ \A a \in Adverts : a # b.id => advert'[a] = advert[a]
      BY <2>2, <2>3 DEF AdvertsInv
    <2>8. MadeAlone'
      BY <2>1, <2>6, <2>7 DEF AdvertsInv, MadeAlone, BannersOK
    <2>9. ~crossed => named' = advert'
      BY <2>2, <2>3, <2>7 DEF AdvertsInv
    <2>10. named' = [a \in Adverts |-> named'[a]]
      BY <2>2, <2>3 DEF AdvertsInv
    <2>11. ~crossed => \A x \in AdEditors : banner'[x].pc = "advert" =>
              advert'[banner'[x].id] \in {None, banner'[x].read}
      BY <2>1, <2>6, <2>7 DEF AdvertsInv, BannersOK
    <2> QED
      BY <2>1, <2>3, <2>5, <2>7, <2>8, <2>9, <2>10, <2>11 DEF AdvertsInv
  <1>7. ASSUME NEW e \in AdEditors, NEW a \in Adverts, NEW f \in Fields, NEW v,
               f = "partner" => v \in Partners, FindAdvert(e, a, f, v)
        PROVE  AdvertsInv'
    <2>1. /\ UNCHANGED <<partner, advert, named>>
          /\ banner[e].pc = "idle"
          /\ banner' = [x \in AdEditors |-> banner'[x]]
          /\ banner'[e] = [pc |-> "advert", id |-> a, input |-> EditOf(f, v),
             read |-> advert[a]]
          /\ \A x \in AdEditors \ {e} : banner'[x] = banner[x]
      BY <1>7, BannerAsked DEF FindAdvert
    <2>2. /\ banner'[e].pc = "advert" /\ banner'[e].id = a
          /\ banner'[e].input = EditOf(f, v) /\ banner'[e].read = advert[a]
      BY <2>1
    <2>3. advert[a] # None /\ IsRow(advert[a])
      BY <1>7 DEF FindAdvert, AdvertsInv
    <2>4. EditOf(f, v)["partner"] \in Partners \cup {None}
      BY <1>7 DEF EditOf, Fields
    <2>5. BannersOK'
      BY <2>1, <2>2, <2>3, <2>4 DEF AdvertsInv, BannersOK
    <2>6. MadeAlone'
      BY <2>1, <2>2, <2>3 DEF AdvertsInv, MadeAlone
    <2>7. ~crossed' => ~crossed /\ \A x \in AdEditors :
             ~(banner[x].pc = "advert" /\ banner[x].id = a)
      BY <1>7 DEF FindAdvert
    <2> HIDE DEF AdvertsInv
    <2>8. ~crossed' => /\ \A x \in AdEditors : banner'[x].pc = "advert" =>
                             advert[banner'[x].id] \in {None, banner'[x].read}
                       /\ \A x, y \in AdEditors :
                             /\ banner'[x].pc = "advert"
                             /\ banner'[y].pc = "advert"
                             /\ banner'[x].id = banner'[y].id
                             => x = y
      BY <2>1, <2>2, <2>7 DEF AdvertsInv
    <2> QED
      BY <2>1, <2>5, <2>6, <2>7, <2>8 DEF AdvertsInv
  <1>8. ASSUME NEW e \in AdEditors, UpdateAdvert(e) PROVE AdvertsInv'
    <2> DEFINE b == banner[e]
               entry == MergeAdvert(b.read, b.input)
               Lands == advert[b.id] # None /\ partner[entry["partner"]] # None
               ordered == [f \in Fields |->
                             IF b.input[f] # None THEN b.input[f]
                             ELSE named[b.id][f]]
    <2>1. /\ BannersOK' /\ banner'[e].pc = "idle"
          /\ \A x \in AdEditors \ {e} : banner'[x] = banner[x]
      BY <1>8, BannerAnswered DEF UpdateAdvert
    <2>2. /\ b.pc = "advert" /\ b.id \in Adverts /\ IsRow(b.read)
          /\ b.input["partner"] \in Partners \cup {None}
      BY <1>8 DEF UpdateAdvert, AdvertsInv, BannersOK
    <2>3. /\ advert' = [advert EXCEPT ![b.id] = IF Lands THEN entry
             ELSE advert[b.id]]
          /\ named' = [named EXCEPT ![b.id] = IF Lands THEN ordered
             ELSE named[b.id]]
          /\ UNCHANGED <<partner, crossed>>
      BY <1>8, <2>2 DEF UpdateAdvert, AdvertsInv
    <2>4. IsRow(entry)
      BY <2>2, AdvertsAssumption DEF IsRow, MergeAdvert, Fields
    <2>5. ~crossed /\ Lands => entry = ordered
      BY <2>2 DEF AdvertsInv, MergeAdvert
    <2>6. ~crossed => \A x \in AdEditors \ {e} : banner[x].pc = "advert" =>
            banner[x].id # b.id
      BY <2>2 DEF AdvertsInv
    <2>7. \A x \in AdEditors : banner[x].pc = "create" => banner[x].id # b.id
      BY <2>2 DEF AdvertsInv, MadeAlone
    <2> HIDE DEF entry, ordered, b
    <2>8. /\ advert' = [a \in Adverts |-> advert'[a]]
          /\ advert'[b.id] = IF Lands THEN entry ELSE advert[b.id]
          /\ \A a \in Adverts : a # b.id => advert'[a] = advert[a]
      BY <2>2, <2>3 DEF AdvertsInv
    <2>9. named' = [a \in Adverts |-> named'[a]]
            /\ (~crossed => named' = advert')
      BY <2>2, <2>3, <2>5 DEF AdvertsInv
    <2>10. \A a \in Adverts : advert'[a] # None =>
              IsRow(advert'[a]) /\ partner[advert'[a]["partner"]] # None
      BY <2>4, <2>8 DEF AdvertsInv
    <2>11. MadeAlone'
      BY <2>1, <2>7, <2>8 DEF AdvertsInv, MadeAlone, BannersOK
    <2>12. ~crossed => \A x \in AdEditors : banner'[x].pc = "advert" =>
              advert'[banner'[x].id] \in {None, banner'[x].read}
      BY <2>1, <2>6, <2>8 DEF AdvertsInv, BannersOK
    <2> QED
      BY <2>1, <2>3, <2>8, <2>9, <2>10, <2>11, <2>12 DEF AdvertsInv
  <1>9. ASSUME NEW e \in AdEditors, NEW a \in Adverts, DeleteAdvert(e, a)
        PROVE  AdvertsInv'
    <2>1. /\ advert' = [advert EXCEPT ![a] = None]
          /\ named' = [named EXCEPT ![a] = None]
          /\ UNCHANGED <<partner, banner, crossed>>
      BY <1>9 DEF DeleteAdvert, RemoveAdvert
    <2>2. /\ advert' = [x \in Adverts |-> IF x \in {a} THEN None
             ELSE advert[x]]
          /\ named' = [x \in Adverts |-> IF x \in {a} THEN None ELSE named[x]]
      BY <2>1 DEF AdvertsInv
    <2> QED
      BY <2>1, <2>2, AdvertsGone DEF AdvertsInv
  <1> QED
    BY <1>1, <1>2, <1>3, <1>4, <1>5, <1>6, <1>7, <1>8, <1>9
       DEF AdvertsNext, Fields

\* What is shown is what there is, and that is what was ordered.
LEMMA EditsSafe ==
    SettingsInv /\ AdvertsInv => RegionsAsEdited /\ ShownAsOrdered
  <1>1. AdvertsInv => ShownAsOrdered
    BY DEF AdvertsInv, ShownAsOrdered, ListActiveAdverts
  <1> QED
    BY <1>1 DEF SettingsInv, RegionsAsEdited

-----------------------------------------------------------------------------
(* The daily jobs.                                                          *)

\* Every paper at a mark today has been announced, has failed, or is in hand.
AllTold ==
    \A d \in Documents :
        dated[d] # None /\ shouldNotifyExpiry(DaysLeft(d)) =>
            d \in told \cup failed \cup left

\* Where in its day a slot is, and the digest slot that comes after it.
SlotOf(n) == n % SlotsPerDay
DigestAfter(n) ==
    n - SlotOf(n) + DigestSlot
      + (IF DigestSlot > SlotOf(n) THEN 0 ELSE SlotsPerDay)

\* Did the pass in hand begin today?  Is the next one tomorrow at the earliest?
BeganToday == passBegan >= now - SlotOf(now)
PassTomorrow == nextPass >= now - SlotOf(now) + SlotsPerDay

\* The timer of the passes: the delay's, or the ticker's, which is a day off at
\* most; a pass in hand began less than a day ago.
PassTimerOK ==
    /\ passing => passBegan <= now /\ now < passBegan + SlotsPerDay
    /\ passing /\ ticking => nextPass = passBegan + SlotsPerDay
    /\ ~passing /\ ticking => nextPass \in now..now + SlotsPerDay
    /\ ~passing /\ ~ticking => nextPass \in now..now + 1

\* A pass that began today has come to its papers or holds them; and so it was
\* if the ticker's next one is tomorrow's, unless the first pass came overnight.
PassDone ==
    /\ passing /\ BeganToday => AllTold
    /\ passing /\ ~ticking /\ ~BeganToday => overnight
    /\ ~passing /\ ticking /\ PassTomorrow => AllTold \/ overnight

\* A timer that is set is not past; the digest's is that of the next digest
\* slot, unless it is due now.
JobsInv ==
    /\ now \in Nat /\ nextPass \in Nat /\ nextDigest \in Nat /\ passBegan \in Nat
    /\ digests \in {0, 1}
    /\ digests = 1 => SlotOf(now) >= DigestSlot
    /\ ~running => ~passing
    /\ running =>
          /\ \/ nextDigest = DigestAfter(now)
             \/ nextDigest = now /\ SlotOf(now) = DigestSlot /\ digests = 0
          /\ PassTimerOK /\ PassDone

\* A slot is on its day.
LEMMA SlotOfDay ==
    ASSUME NEW n \in Nat
    PROVE  /\ SlotsPerDay \in Nat \ {0} /\ SlotOf(n) \in 0..SlotsPerDay - 1
           /\ n - SlotOf(n) \in Nat /\ SlotOf(0) = 0
           /\ (n \div SlotsPerDay) * SlotsPerDay = n - SlotOf(n)
           /\ (n + 1) % SlotsPerDay = 0 <=> SlotOf(n + 1) = 0
           /\ SlotOf(n + 1) = 0 => SlotOf(n) = SlotsPerDay - 1
           /\ SlotOf(n + 1) # 0 =>
              /\ (n + 1) \div SlotsPerDay = n \div SlotsPerDay
              /\ SlotOf(n + 1) = SlotOf(n) + 1
  <1> DEFINE S == SlotsPerDay
  <1>0. S \in Nat \ {0}
    BY JobsAssumption
  <1> HIDE DEF S
  <1>1. n \div S \in Nat /\ n % S \in 0..S - 1 /\ 0 % S = 0
    BY <1>0
  <1>2. \A m \in Nat : m % S = m - S * (m \div S)
    BY <1>0
  <1>6. S * (n \div S) \in Nat /\ (n \div S) * S \in Nat
    BY <1>0, <1>1
  <1>7. (n \div S) * S = n - (n % S)
    BY <1>0, <1>2
  <1>8. (n + 1) % S = 0 => (n + 1) \div S = (n \div S) + 1 /\ n % S = S - 1
    BY <1>0
  <1>9. (n + 1) % S # 0 => (n + 1) \div S = n \div S
    BY <1>0
  <1>10. (n + 1) % S # 0 => (n + 1) % S = (n % S) + 1
    <2>1. (n + 1) % S = (n + 1) - S * ((n + 1) \div S)
            /\ n % S = n - S * (n \div S)
      BY <1>2
    <2>2. \A p \in Nat, a, b \in Int : a = (n + 1) - p
            /\ b = n - p => a = b + 1
      OBVIOUS
    <2>3. (n + 1) % S \in Int /\ n % S \in Int
      BY <1>0
    <2> QED
      BY <1>6, <1>9, <2>1, <2>2, <2>3
  <1>11. n - (n % S) \in Nat
    BY <1>6, <1>7
  <1> QED
    BY <1>0, <1>1, <1>7, <1>8, <1>9, <1>10, <1>11 DEF S, SlotOf

\* What the timer of the digest is set to.
LEMMA DigestAhead ==
    /\ now \in Nat => UntilNextRun = DigestAfter(now)
    /\ now' \in Nat => UntilNextRun' = DigestAfter(now')
    /\ \A n \in Nat : DigestAfter(n) \in Nat /\ DigestAfter(n) > n
  <1>1. ASSUME NEW n \in Nat
        PROVE  LET next == (n \div SlotsPerDay) * SlotsPerDay + DigestSlot
               IN  (IF next > n THEN next
                 ELSE next + SlotsPerDay) = DigestAfter(n)
    <2> DEFINE q == (n \div SlotsPerDay) * SlotsPerDay
    <2>1. q = n - SlotOf(n) /\ SlotOf(n) \in 0..SlotsPerDay - 1
      BY SlotOfDay
    <2> HIDE DEF q
    <2>2. (IF q + DigestSlot > n THEN q + DigestSlot
            ELSE q + DigestSlot + SlotsPerDay)
             = DigestAfter(n)
      BY <2>1, JobsAssumption DEF DigestAfter
    <2> QED
      BY <2>2, Zenon DEF q
  <1>2. ASSUME NEW n \in Nat PROVE DigestAfter(n) \in Nat /\ DigestAfter(n) > n
    <2>1. SlotOf(n) \in 0..SlotsPerDay - 1 /\ n - SlotOf(n) \in Nat
      BY SlotOfDay
    <2> QED
      BY <2>1, JobsAssumption DEF DigestAfter
  <1> QED
    BY <1>1, <1>2 DEF UntilNextRun, Today, DayOf

\* The first midnight: a pass is due soon, the digest is ahead.
LEMMA JobsInvInit == JobsInit => JobsInv
  <1> SUFFICES ASSUME JobsInit PROVE JobsInv
    OBVIOUS
  <1>1. /\ now = 0 /\ running = TRUE /\ nextPass \in {0, 1}
        /\ ticking = FALSE /\ passing = FALSE /\ passBegan = 0
        /\ nextDigest = UntilNextRun
        /\ digests = 0
    BY DEF JobsInit, FirstPass
  <1>2. /\ nextDigest = DigestAfter(now) /\ nextDigest \in Nat
        /\ SlotOf(now) = 0
        /\ SlotsPerDay \in Nat \ {0}
    BY <1>1, DigestAhead, SlotOfDay
  <1>3. PassTimerOK /\ PassDone
    BY <1>1 DEF PassTimerOK, PassDone
  <1> QED
    BY <1>1, <1>2, <1>3 DEF JobsInv

\* What has been announced depends on the day only.
LEMMA SameDay ==
    ASSUME UNCHANGED <<dated, told, failed, left>>, Today' = Today
    PROVE  AllTold' <=> AllTold
  BY DEF AllTold, DaysLeft, shouldNotifyExpiry

\* Two slots are of one day when neither is before the other's midnight.
LEMMA SameDayOf ==
    ASSUME NEW m \in Nat, NEW n \in Nat, m <= n, DayOf(m) # DayOf(n)
    PROVE  m < n - SlotOf(n)
  <1> DEFINE S == SlotsPerDay
  <1>1. /\ S \in Nat \ {0} /\ n - SlotOf(n) = (n \div S) * S
        /\ m - SlotOf(m) = (m \div S) * S
        /\ SlotOf(m) \in 0..S - 1 /\ SlotOf(n) \in 0..S - 1
    BY SlotOfDay
  <1> DEFINE p == m \div S  q == n \div S
  <1>2. p \in Nat /\ q \in Nat /\ p # q
    BY <1>1 DEF DayOf
  <1> HIDE DEF p, q, S
  <1>3. p * S <= m /\ m < p * S + S /\ q * S <= n /\ n < q * S + S
    BY <1>1 DEF p, q
  <1>4. p < q
    <2>1. SUFFICES ASSUME q + 1 <= p PROVE FALSE
      BY <1>2
    <2>2. (q + 1) * S <= p * S
      BY <1>1, <1>2, <2>1
    <2>3. (q + 1) * S = q * S + S
      BY <1>1, <1>2
    <2>4. p * S \in Int /\ q * S \in Int
      BY <1>1, <1>2
    <2> QED
      BY <1>1, <1>3, <2>2, <2>3, <2>4
  <1>5. (p + 1) * S <= q * S /\ (p + 1) * S = p * S + S
    BY <1>1, <1>2, <1>4
  <1>6. p * S \in Int /\ q * S \in Int
    BY <1>1, <1>2
  <1> QED
    BY <1>1, <1>3, <1>5, <1>6 DEF q

\* One step per job, and the clock, within a day and over midnight.
LEMMA JobsKept == ASSUME JobsInv, JobsNext PROVE JobsInv'
  <1>0. /\ now \in Nat /\ SlotsPerDay \in Nat \ {0}
        /\ DigestSlot \in 0..SlotsPerDay - 1
        /\ SlotOf(now) \in 0..SlotsPerDay - 1
        /\ UntilNextRun = DigestAfter(now) /\ DigestAfter(now) \in Nat
        /\ DigestAfter(now) > now
    BY SlotOfDay, DigestAhead, JobsAssumption DEF JobsInv
  <1>1. ASSUME notifyExpiringDocuments PROVE JobsInv'
    <2>1. /\ running /\ ~passing /\ nextPass = now /\ passing' = TRUE
          /\ passBegan' = now
          /\ nextPass' = IF ticking THEN now + SlotsPerDay ELSE nextPass
          /\ UNCHANGED <<dated, now, running, nextDigest, ticking, overnight,
                         told, digests>>
      BY <1>1 DEF notifyExpiringDocuments
    <2>2. AllTold'
      <3>1. CASE left' = {} /\ failed' = Documents
        BY <3>1 DEF AllTold
      <3>2. CASE left' = IF ListProfilesWithExpiringDocs
                         THEN {d \in alertsFromDates :
                                   shouldNotifyExpiry(DaysLeft(d))} ELSE {}
        <4>1. ASSUME NEW d \in Documents, dated[d] # None,
                       shouldNotifyExpiry(DaysLeft(d))
              PROVE  ListProfilesWithExpiringDocs /\ d \in alertsFromDates
          <5>1. DaysLeft(d) \in -1..documentAlertWindowDays
            BY <4>1, JobsAssumption DEF shouldNotifyExpiry
          <5> QED
            BY <4>1, <5>1, JobsAssumption
               DEF ListProfilesWithExpiringDocs, alertsFromDates
        <4> QED
          BY <2>1, <3>2, <4>1 DEF AllTold, DaysLeft, Today, shouldNotifyExpiry
      <3> QED
        BY <1>1, <3>1, <3>2 DEF notifyExpiringDocuments
    <2>3. PassTimerOK' /\ PassDone'
      BY <1>0, <2>1, <2>2 DEF PassTimerOK, PassDone, BeganToday, SlotOf
    <2> QED
      BY <1>0, <2>1, <2>3 DEF JobsInv
  <1>2. ASSUME NEW d \in Documents, SendToUser(d) PROVE JobsInv'
    <2>1. /\ passing /\ d \in left /\ left' = left \ {d}
          /\ UNCHANGED <<dated, now, running, nextPass, nextDigest, ticking,
                         passing, passBegan, overnight, digests>>
      BY <1>2 DEF SendToUser
    <2>2. running /\ PassTimerOK /\ PassDone
      BY <2>1 DEF JobsInv
    <2>3. PassTimerOK'
      BY <2>1, <2>2 DEF PassTimerOK
    <2>4. ASSUME BeganToday PROVE AllTold'
      <3>1. DayOf(passBegan) = Today
        <4>1. passBegan \in Nat /\ passBegan <= now
          BY <2>1, <2>2 DEF JobsInv, PassTimerOK
        <4> QED
          BY <1>0, <2>4, <4>1, SameDayOf DEF BeganToday, Today
      <3>2. AllTold
        BY <2>1, <2>2, <2>4 DEF PassDone
      <3>3. told \cup failed \cup left \subseteq told' \cup failed' \cup left'
        BY <1>2, <2>1, <3>1 DEF SendToUser
      <3> QED
        BY <2>1, <3>2, <3>3 DEF AllTold, DaysLeft, Today, shouldNotifyExpiry
    <2>5. PassDone'
      BY <2>1, <2>2, <2>4 DEF PassDone, BeganToday
    <2> QED
      BY <2>1, <2>3, <2>5 DEF JobsInv
  <1>3. ASSUME RunDocumentExpiryNotifier PROVE JobsInv'
    <2>1. /\ passing /\ passing' = FALSE /\ ticking' = TRUE
          /\ nextPass' = IF ticking THEN nextPass ELSE now + SlotsPerDay
          /\ UNCHANGED <<dated, now, running, nextDigest, passBegan, left,
                         overnight, told, failed, digests>>
      BY <1>3 DEF RunDocumentExpiryNotifier
    <2>2. running /\ PassTimerOK /\ PassDone
      BY <2>1 DEF JobsInv
    <2>3. passBegan \in Nat /\ nextPass \in Nat
      BY DEF JobsInv
    <2>4. PassTimerOK' /\ nextPass' \in Nat
      BY <1>0, <2>1, <2>2, <2>3 DEF PassTimerOK
    <2>5. AllTold' <=> AllTold
      BY <2>1, SameDay DEF Today
    <2>6. ASSUME PassTomorrow' PROVE AllTold \/ overnight
      <3>1. CASE BeganToday
        BY <2>1, <2>2, <3>1 DEF PassDone
      <3>2. CASE ~BeganToday /\ ~ticking
        BY <2>1, <2>2, <3>2 DEF PassDone
      <3>3. CASE ~BeganToday /\ ticking
        BY <1>0, <2>1, <2>2, <2>3, <2>6, <3>3
           DEF PassTimerOK, BeganToday, PassTomorrow
      <3> QED
        BY <3>1, <3>2, <3>3
    <2>7. PassDone'
      BY <2>1, <2>5, <2>6 DEF PassDone
    <2> QED
      BY <2>1, <2>4, <2>7 DEF JobsInv
  <1>4. ASSUME SendDaily PROVE JobsInv'
    <2>1. /\ running /\ nextDigest = now /\ nextDigest' = UntilNextRun
          /\ digests' \in {digests, digests + 1}
          /\ UNCHANGED <<dated, now, running, nextPass, passVars, overnight, told,
                         failed>>
      BY <1>4 DEF SendDaily
    <2>2. digests = 0 /\ SlotOf(now) = DigestSlot
      BY <1>0, <2>1 DEF JobsInv
    <2>3. AllTold' <=> AllTold
      BY <2>1, SameDay DEF Today, passVars
    <2>4. PassTimerOK' /\ PassDone'
      BY <2>1, <2>3
         DEF JobsInv, PassTimerOK, PassDone, BeganToday, PassTomorrow, passVars
    <2> QED
      BY <1>0, <2>1, <2>2, <2>4 DEF JobsInv, passVars
  <1>5. ASSUME ServerStops PROVE JobsInv'
    BY <1>5 DEF ServerStops, JobsInv
  <1>6. ASSUME ServerStarts PROVE JobsInv'
    <2>1. /\ ~running /\ running' = TRUE /\ ticking' = FALSE
          /\ nextPass' \in now..now + 1 /\ nextDigest' = UntilNextRun
          /\ UNCHANGED <<now, passing, passBegan, digests>>
      BY <1>0, <1>6 DEF ServerStarts, FirstPass
    <2>2. ~passing
      BY <2>1 DEF JobsInv
    <2>3. PassTimerOK' /\ PassDone'
      BY <2>1, <2>2 DEF PassTimerOK, PassDone
    <2> QED
      BY <1>0, <2>1, <2>2, <2>3 DEF JobsInv
  <1>7. ASSUME ClockMoves PROVE JobsInv'
    <2>1. /\ ~JobsDue /\ now' = now + 1
          /\ passing => now + 1 < passBegan + SlotsPerDay
          /\ UNCHANGED <<dated, running, nextPass, nextDigest, passVars>>
          /\ IF (now + 1) % SlotsPerDay = 0
             THEN digests' = 0 /\ overnight' = (passing /\ ~ticking)
             ELSE UNCHANGED <<told, failed, digests, overnight>>
      BY <1>7 DEF ClockMoves
    <2>2. /\ nextPass \in Nat /\ passBegan \in Nat
          /\ UNCHANGED <<ticking, passing, passBegan, left>>
      BY <2>1 DEF JobsInv, passVars
    <2>3. running => nextDigest = DigestAfter(now) /\ PassTimerOK /\ PassDone
      BY <2>1 DEF JobsDue, JobsInv
    <2>4. running => PassTimerOK'
      BY <1>0, <2>1, <2>2, <2>3 DEF JobsDue, PassTimerOK
    <2>5. CASE SlotOf(now + 1) = 0
      <3>1. SlotOf(now) = SlotsPerDay - 1 /\ (now + 1) % SlotsPerDay = 0
        BY <1>0, <2>5, SlotOfDay
      <3>2. SlotOf(now') = 0 /\ digests' = 0 /\ now' \in Nat
        BY <1>0, <2>1, <2>5, <3>1
      <3>3. running => PassDone'
        <4>1. running /\ passing => ~BeganToday'
          BY <1>0, <2>1, <2>2, <2>3, <3>2 DEF PassTimerOK, BeganToday
        <4>2. running /\ ~passing /\ ticking => ~PassTomorrow'
          BY <1>0, <2>1, <2>2, <2>3, <3>2 DEF PassTimerOK, PassTomorrow
        <4> QED
          BY <2>1, <2>2, <3>1, <4>1, <4>2 DEF PassDone
      <3>4. running => \/ nextDigest = DigestAfter(now')
                       \/ nextDigest = now' /\ DigestSlot = 0
        <4>1. SlotOf(now') = 0 /\ now' = now + 1
          BY <2>1, <3>2
        <4>2. running => nextDigest = now + 1 + DigestSlot
          BY <1>0, <2>3, <3>1 DEF DigestAfter
        <4>3. DigestAfter(now') = IF DigestSlot > 0 THEN now + 1 + DigestSlot
                                  ELSE now + 1 + SlotsPerDay
          BY <1>0, <4>1 DEF DigestAfter
        <4> QED
          BY <1>0, <4>1, <4>2, <4>3
      <3> QED
        BY <1>0, <2>1, <2>2, <2>4, <3>2, <3>3, <3>4 DEF JobsInv
    <2>6. CASE SlotOf(now + 1) # 0
      <3>1. /\ SlotOf(now') = SlotOf(now) + 1 /\ Today' = Today
            /\ UNCHANGED <<told, failed, digests, overnight>>
        BY <1>0, <2>1, <2>6, SlotOfDay DEF Today, DayOf
      <3>2. AllTold' <=> AllTold
        BY <2>1, <2>2, <3>1, SameDay
      <3>3. (BeganToday' <=> BeganToday) /\ (PassTomorrow' <=> PassTomorrow)
        BY <1>0, <2>1, <2>2, <3>1 DEF BeganToday, PassTomorrow
      <3>4. running => PassDone'
        BY <2>2, <2>3, <3>1, <3>2, <3>3 DEF PassDone
      <3>5. running => \/ nextDigest = DigestAfter(now')
                       \/ nextDigest = now' /\ SlotOf(now') = DigestSlot
                          /\ digests = 0
        BY <1>0, <2>1, <2>3, <3>1 DEF DigestAfter, JobsInv
      <3> QED
        BY <1>0, <2>1, <2>2, <2>4, <3>1, <3>4, <3>5 DEF JobsInv
    <2> QED
      BY <2>5, <2>6
  <1> QED
    BY <1>1, <1>2, <1>3, <1>4, <1>5, <1>6, <1>7 DEF JobsNext

\* A process that is up at the end of the day has begun its pass today.
LEMMA JobsSafe == JobsInv => RestartsLoseNothing
  <1> SUFFICES ASSUME JobsInv PROVE RestartsLoseNothing
    OBVIOUS
  <1>1. digests <= 1
    BY DEF JobsInv
  <1>2. ASSUME running, ~JobsDue, (now + 1) % SlotsPerDay = 0
        PROVE  PassAhead \/ overnight \/ AllTold
    <2>1. /\ SlotOf(now) = SlotsPerDay - 1 /\ SlotsPerDay \in Nat \ {0}
          /\ now \in Nat /\ nextPass \in Nat /\ passBegan \in Nat
          /\ PassTimerOK /\ PassDone
      BY <1>2, SlotOfDay DEF JobsInv
    <2>2. CASE passing
      BY <2>1, <2>2 DEF PassTimerOK, PassDone, BeganToday
    <2>3. CASE ~passing /\ ticking
      BY <1>2, <2>1, <2>3 DEF JobsDue, PassTimerOK, PassDone, PassTomorrow
    <2>4. CASE ~passing /\ ~ticking
      BY <1>2, <2>1, <2>4 DEF JobsDue, PassTimerOK, PassAhead
    <2> QED
      BY <2>2, <2>3, <2>4
  <1> QED
    BY <1>1, <1>2 DEF RestartsLoseNothing, AllTold

-----------------------------------------------------------------------------
(* The events.                                                              *)

Events == 1..MaxEvents

\* An entry comes once in the stream, and what the worker holds comes from
\* what the group has read, each entry once.
StreamOK ==
    /\ published \in 0..MaxEvents /\ stream \in Seq(1..published)
    /\ delivered \in 0..Len(stream)
    /\ \A i, j \in 1..Len(stream) : stream[i] = stream[j] => i = j
GivenOK ==
    /\ given \in Seq(Events)
    /\ \A j \in 1..Len(given) : \E i \in 1..delivered : given[j] = stream[i]
    /\ \A j, k \in 1..Len(given) : given[j] = given[k] => j = k
\* An entry is processed when it is the first in hand and marked so, and one
\* that the group has not read is not.
ProcessedOK ==
    /\ processed \in [Events -> Nat]
    /\ done \in BOOLEAN /\ (done => given # <<>>)
    /\ \A j \in 1..Len(given) :
          processed[given[j]] = IF done /\ j = 1 THEN 1 ELSE 0
    /\ \A i \in delivered + 1..Len(stream) : processed[stream[i]] = 0
    /\ \A e \in published + 1..MaxEvents : processed[e] = 0
EventsInv == StreamOK /\ GivenOK /\ ProcessedOK /\ EventsProcessed

\* Nothing is published, and the worker holds nothing.
LEMMA EventsInvInit == EventsInit => EventsInv
  <1> SUFFICES ASSUME EventsInit PROVE EventsInv
    OBVIOUS
  <1>1. /\ published = 0 /\ stream = <<>> /\ delivered = 0 /\ given = <<>>
        /\ done = FALSE /\ processed = [e \in Events |-> 0]
    BY DEF EventsInit, Events
  <1>2. /\ Len(stream) = 0 /\ Len(given) = 0 /\ \A i \in 1..0 : FALSE
        /\ stream \in Seq(1..published) /\ given \in Seq(Events)
    BY <1>1
  <1>3. StreamOK /\ EventsProcessed
    BY <1>1, <1>2, EventsAssumption DEF StreamOK, EventsProcessed
  <1>4. GivenOK
    BY <1>1, <1>2 DEF GivenOK
  <1>5. ProcessedOK
    <2>1. \A i \in delivered + 1..Len(stream) : FALSE
      BY <1>1, <1>2
    <2>2. \A e \in published + 1..MaxEvents : e \in Events
      BY <1>1 DEF Events
    <2> QED
      BY <1>1, <1>2, <2>1, <2>2 DEF ProcessedOK
  <1> QED
    BY <1>3, <1>4, <1>5 DEF EventsInv

\* A sequence that is not empty has a first element, and its tail the others.
LEMMA HeadAndTail ==
    ASSUME NEW S, NEW s \in Seq(S), s # <<>>
    PROVE  /\ Len(s) \in Nat \ {0} /\ Head(s) = s[1] /\ Head(s) \in S
           /\ Tail(s) \in Seq(S) /\ Len(Tail(s)) = Len(s) - 1
           /\ \A j \in 1..Len(Tail(s)) : Tail(s)[j] = s[j + 1]
  BY HeadTailProperties, EmptySeq

\* An event is written to the stream, or not.
LEMMA PublishKeeps == ASSUME EventsInv, Publish PROVE EventsInv'
  <1>1. /\ published < MaxEvents /\ published' = published + 1
        /\ stream' \in {stream, Append(stream, published + 1)}
        /\ UNCHANGED <<delivered, given, done, processed, unacked, stops,
           lost>>
    BY DEF Publish
  <1>2. /\ published \in Nat /\ published' \in 0..MaxEvents
        /\ stream \in Seq(1..published') /\ published + 1 \in 1..published'
    BY <1>1, EventsAssumption DEF EventsInv, StreamOK
  <1>3. /\ stream' \in Seq(1..published')
        /\ Len(stream') \in Len(stream)..Len(stream) + 1
        /\ \A i \in 1..Len(stream) : stream'[i] = stream[i]
        /\ \A i \in Len(stream) + 1..Len(stream') : stream'[i] = published + 1
    <2>1. CASE stream' = stream
      BY <1>2, <2>1
    <2>2. CASE stream' = Append(stream, published + 1)
      BY <1>2, <2>2, AppendProperties
    <2> QED
      BY <1>1, <2>1, <2>2
  <1>4. /\ Len(stream) \in Nat
        /\ \A i \in 1..Len(stream) : stream[i] \in 1..published
        /\ delivered \in 0..Len(stream)
    BY DEF EventsInv, StreamOK
  <1>5. StreamOK'
    <2>1. ASSUME NEW i \in 1..Len(stream'), NEW j \in 1..Len(stream'),
                 stream'[i] = stream'[j]
          PROVE  i = j
      <3>1. /\ i \in 1..Len(stream) \/ i = Len(stream) + 1
            /\ j \in 1..Len(stream) \/ j = Len(stream) + 1
        BY <1>3, <1>4
      <3>2. \A k \in 1..Len(stream) : stream'[k] = stream[k]
              /\ stream[k] # published + 1
        BY <1>2, <1>3, <1>4
      <3>3. Len(stream) + 1 \in 1..Len(stream') =>
              stream'[Len(stream) + 1] = published + 1
        BY <1>3, <1>4
      <3> QED
        BY <2>1, <3>1, <3>2, <3>3 DEF EventsInv, StreamOK
    <2>2. delivered' \in 0..Len(stream')
      BY <1>1, <1>3, <1>4
    <2> QED
      BY <1>2, <1>3, <2>1, <2>2 DEF StreamOK
  <1>6. GivenOK'
    BY <1>1, <1>3, <1>4 DEF EventsInv, GivenOK
  <1>7. ProcessedOK'
    <2>1. published + 1 \in Events /\ processed[published + 1] = 0
      BY <1>1, <1>2, EventsAssumption DEF EventsInv, ProcessedOK, Events
    <2>2. ASSUME NEW i \in delivered' + 1..Len(stream')
          PROVE processed'[stream'[i]] = 0
      <3>1. CASE i \in 1..Len(stream)
        BY <1>1, <1>3, <1>4, <3>1 DEF EventsInv, ProcessedOK
      <3>2. CASE i \in Len(stream) + 1..Len(stream')
        BY <1>1, <1>3, <2>1, <3>2
      <3> QED
        BY <1>1, <1>3, <1>4, <3>1, <3>2
    <2>3. \A e \in published' + 1..MaxEvents : e \in published + 1..MaxEvents
      BY <1>1, <1>2, EventsAssumption
    <2> QED
      BY <1>1, <2>2, <2>3 DEF EventsInv, ProcessedOK
  <1>8. EventsProcessed'
    <2>1. \A i \in 1..delivered : i \in 1..Len(stream)
            /\ stream'[i] = stream[i]
      BY <1>3, <1>4
    <2>2. UNCHANGED <<delivered, given, processed, unacked, lost>>
      BY <1>1
    <2> QED
      BY <2>1, <2>2 DEF EventsInv, EventsProcessed
  <1> QED
    BY <1>5, <1>6, <1>7, <1>8 DEF EventsInv

\* A batch goes to the worker, or is lost on the way.
LEMMA ReadKeeps == ASSUME EventsInv, Read PROVE EventsInv'
  <1> DEFINE to == IF delivered + batchSize < Len(stream)
                   THEN delivered + batchSize ELSE Len(stream)
             got == SubSeq(stream, delivered + 1, to)
             ids == {got[i] : i \in DOMAIN got}
  <1>1. /\ given = <<>> /\ delivered < to /\ delivered' = to
        /\ unacked' = unacked \cup ids
        /\ \/ given' = got /\ UNCHANGED lost
           \/ lost' = lost \cup ids /\ UNCHANGED given
        /\ UNCHANGED <<published, stream, done, processed>>
    BY DEF Read
  <1>2. /\ Len(stream) \in Nat
        /\ \A i \in 1..Len(stream) : stream[i] \in 1..published
        /\ delivered \in 0..Len(stream) /\ published \in 0..MaxEvents
    BY DEF EventsInv, StreamOK
  <1>3. to \in delivered + 1..Len(stream)
    BY <1>1, <1>2, EventsAssumption
  <1> HIDE DEF to
  <1>4. \A i \in delivered + 1..to : stream[i] \in Events
    BY <1>2, <1>3, EventsAssumption DEF Events
  <1>5. /\ got \in Seq(Events) /\ Len(got) = to - delivered
        /\ \A j \in 1..to - delivered : got[j] = stream[delivered + j]
    <2>1. /\ got \in Seq(Events)
          /\ Len(got) = IF delivered + 1 <= to THEN to - (delivered + 1) + 1
             ELSE 0
          /\ \A j \in 1..to - (delivered + 1) + 1 :
             got[j] = stream[delivered + 1 + j - 1]
      BY <1>2, <1>3, <1>4, SubSeqProperties
    <2>2. to - (delivered + 1) + 1 = to - delivered /\ delivered + 1 <= to
      BY <1>2, <1>3
    <2>3. \A j \in 1..to - delivered : delivered + 1 + j - 1 = delivered + j
      BY <1>2, <1>3
    <2> HIDE DEF got
    <2> QED
      BY <2>1, <2>2, <2>3
  <1> HIDE DEF got
  <1>6. /\ Len(got) \in Nat /\ DOMAIN got = 1..Len(got)
        /\ \A i \in delivered + 1..to : /\ i - delivered \in 1..Len(got)
                                        /\ stream[i] = got[i - delivered]
    BY <1>2, <1>3, <1>5
  <1>7. \A i \in delivered + 1..to : stream[i] \in ids
    BY <1>6
  <1> HIDE DEF ids
  <1>8. StreamOK'
    BY <1>1, <1>2, <1>3 DEF EventsInv, StreamOK
  <1>9. \A i \in delivered + 1..to : i \in 1..Len(stream)
          /\ processed[stream[i]] = 0
    BY <1>2, <1>3 DEF EventsInv, ProcessedOK
  <1>10. /\ Len(given) = 0 /\ ~done
    BY <1>1 DEF EventsInv, ProcessedOK
  <1>11. GivenOK'
    <2>1. CASE given' = given
      BY <1>1, <1>10, <2>1 DEF EventsInv, GivenOK
    <2>2. CASE given' = got
      <3>1. ASSUME NEW j \in 1..Len(got),
                     NEW k \in 1..Len(got), got[j] = got[k]
            PROVE  j = k
        <4>1. /\ delivered + j \in 1..Len(stream)
              /\ delivered + k \in 1..Len(stream)
              /\ stream[delivered + j] = stream[delivered + k]
          BY <1>2, <1>3, <1>5, <3>1
        <4> QED
          BY <1>2, <1>5, <4>1 DEF EventsInv, StreamOK
      <3>2. \A j \in 1..Len(got) : delivered + j \in 1..to
              /\ got[j] = stream[delivered + j]
        BY <1>2, <1>3, <1>5
      <3> QED
        BY <1>1, <1>5, <2>2, <3>1, <3>2 DEF GivenOK
    <2> QED
      BY <1>1, <2>1, <2>2
  <1>12. ProcessedOK'
    <2>1. \A j \in 1..Len(given') : processed[given'[j]] = 0
      <3>1. \A j \in 1..Len(got) : processed[got[j]] = 0
        BY <1>2, <1>3, <1>5, <1>9
      <3> QED
        BY <1>1, <1>10, <3>1
    <2>2. \A i \in to + 1..Len(stream) : i \in delivered + 1..Len(stream)
      BY <1>2, <1>3
    <2> QED
      BY <1>1, <1>10, <2>1, <2>2 DEF EventsInv, ProcessedOK
  <1>13. EventsProcessed'
    <2>1. ASSUME NEW i \in 1..to
          PROVE  /\ processed[stream[i]] = 0 => stream[i] \in unacked'
                 /\ \/ processed[stream[i]] = 1
                    \/ stream[i] \in lost'
                    \/ \E j \in DOMAIN given' : given'[j] = stream[i]
      <3>1. CASE i \in 1..delivered
        <4>1. ~ \E j \in DOMAIN given : given[j] = stream[i]
          BY <1>1
        <4> QED
          BY <1>1, <3>1, <4>1 DEF EventsInv, EventsProcessed
      <3>2. CASE i \in delivered + 1..to
        <4>1. CASE given' = got
          BY <1>1, <1>6, <1>7, <3>2, <4>1
        <4>2. CASE lost' = lost \cup ids
          BY <1>1, <1>7, <3>2, <4>2
        <4> QED
          BY <1>1, <4>1, <4>2
      <3> QED
        BY <1>2, <1>3, <3>1, <3>2
    <2> QED
      BY <1>1, <2>1 DEF EventsProcessed
  <1> QED
    BY <1>8, <1>11, <1>12, <1>13 DEF EventsInv

\* The worker processes the first of those it holds.
LEMMA ProcessKeeps == ASSUME EventsInv, process PROVE EventsInv'
  <1> DEFINE h == given[1]
  <1>1. /\ given # <<>> /\ ~done /\ done' = TRUE
        /\ processed' = [processed EXCEPT ![Head(given)] = @ + 1]
        /\ UNCHANGED <<published, stream, delivered, given, unacked, lost>>
    BY DEF process
  <1>2. Len(given) \in Nat \ {0} /\ Head(given) = h /\ h \in Events
    BY <1>1, HeadAndTail DEF EventsInv, GivenOK
  <1>3. processed[h] = 0
    BY <1>1, <1>2 DEF EventsInv, ProcessedOK
  <1>4. /\ processed' \in [Events -> Nat] /\ processed'[h] = 1
        /\ \A e \in Events : e # h => processed'[e] = processed[e]
    BY <1>1, <1>2, <1>3 DEF EventsInv, ProcessedOK
  <1>5. PICK k \in 1..delivered : h = stream[k]
    BY <1>2 DEF EventsInv, GivenOK
  <1>6. /\ Len(stream) \in Nat
        /\ \A i \in 1..Len(stream) : stream[i] \in 1..published
        /\ delivered \in 0..Len(stream) /\ published \in 0..MaxEvents
        /\ \A i \in 1..Len(stream) : stream[i] \in Events
    BY EventsAssumption DEF EventsInv, StreamOK, Events
  <1>7. \A i \in delivered + 1..Len(stream) : stream[i] # h
    BY <1>5, <1>6 DEF EventsInv, StreamOK
  <1>8. \A j \in 2..Len(given) : given[j] # h /\ given[j] \in Events
    BY <1>2 DEF EventsInv, GivenOK
  <1>9. StreamOK' /\ GivenOK'
    BY <1>1 DEF EventsInv, StreamOK, GivenOK
  <1>10. ProcessedOK'
    <2>1. \A j \in 1..Len(given) : j = 1 \/ j \in 2..Len(given)
      BY <1>2
    <2>2. \A j \in 1..Len(given) : processed'[given[j]] = IF j = 1 THEN 1
            ELSE 0
      BY <1>1, <1>4, <1>8, <2>1 DEF EventsInv, ProcessedOK
    <2>3. \A i \in delivered + 1..Len(stream) : processed'[stream[i]] = 0
      BY <1>4, <1>6, <1>7 DEF EventsInv, ProcessedOK
    <2>4. \A e \in published + 1..MaxEvents : e \in Events /\ e # h
            /\ processed'[e] = 0
      BY <1>4, <1>5, <1>6 DEF EventsInv, ProcessedOK, Events
    <2> QED
      BY <1>1, <1>4, <2>2, <2>3, <2>4 DEF ProcessedOK
  <1>11. EventsProcessed'
    <2>1. \A i \in 1..delivered : stream[i] \in Events
      BY <1>6
    <2> HIDE DEF h
    <2> QED
      BY <1>1, <1>4, <2>1 DEF EventsInv, EventsProcessed
  <1> QED
    BY <1>9, <1>10, <1>11 DEF EventsInv

\* It acknowledges it, and goes on to the next.
LEMMA AckKeeps == ASSUME EventsInv, Ack PROVE EventsInv'
  <1>1. /\ given # <<>> /\ done /\ done' = FALSE
        /\ unacked' \in {unacked, unacked \ {Head(given)}}
        /\ given' = Tail(given)
        /\ UNCHANGED <<published, stream, delivered, processed, lost>>
    BY DEF Ack
  <1>2. /\ Len(given) \in Nat \ {0} /\ Head(given) = given[1]
        /\ given[1] \in Events
        /\ given' \in Seq(Events) /\ Len(given') = Len(given) - 1
        /\ \A j \in 1..Len(given') : given'[j] = given[j + 1]
    BY <1>1, HeadAndTail DEF EventsInv, GivenOK
  <1>3. \A j \in 1..Len(given') : j + 1 \in 2..Len(given)
    BY <1>2
  <1>4. processed[given[1]] = 1
    BY <1>1, <1>2 DEF EventsInv, ProcessedOK
  <1>5. StreamOK'
    BY <1>1 DEF EventsInv, StreamOK
  <1>6. GivenOK'
    BY <1>1, <1>2, <1>3 DEF EventsInv, GivenOK
  <1>7. ProcessedOK'
    <2>1. \A j \in 1..Len(given') : processed'[given'[j]] = 0
      <3>1. ASSUME NEW j \in 1..Len(given') PROVE processed[given'[j]] = 0
        <4>1. j + 1 \in 1..Len(given) /\ j + 1 # 1 /\ given'[j] = given[j + 1]
          BY <1>2
        <4> QED
          BY <4>1 DEF EventsInv, ProcessedOK
      <3> QED
        BY <1>1, <3>1
    <2> QED
      BY <1>1, <2>1 DEF EventsInv, ProcessedOK
  <1>8. EventsProcessed'
    <2>1. \A e : (\E j \in DOMAIN given : given[j] = e) =>
                    e = given[1] \/ \E j \in DOMAIN given' : given'[j] = e
      <3>1. /\ DOMAIN given = 1..Len(given) /\ DOMAIN given' = 1..Len(given')
        BY <1>2 DEF EventsInv, GivenOK
      <3>2. ASSUME NEW j \in 1..Len(given), j # 1
            PROVE  j - 1 \in 1..Len(given') /\ given'[j - 1] = given[j]
        <4>1. j - 1 \in 1..Len(given') /\ j - 1 + 1 = j
          BY <1>2, <3>2
        <4> QED
          BY <1>2, <4>1
      <3> QED
        BY <3>1, <3>2
    <2>2. ASSUME NEW i \in 1..delivered
          PROVE  /\ processed[stream[i]] = 0 => stream[i] \in unacked'
                 /\ \/ processed[stream[i]] = 1
                    \/ stream[i] \in lost
                    \/ \E j \in DOMAIN given' : given'[j] = stream[i]
      <3> DEFINE e == stream[i]
      <3>1. /\ processed[e] = 0 => e \in unacked
            /\ processed[e] = 1 \/ e \in lost
               \/ \E j \in DOMAIN given : given[j] = e
        BY DEF EventsInv, EventsProcessed
      <3> HIDE DEF e
      <3>2. processed[e] = 0 => e \in unacked'
        BY <1>1, <1>2, <1>4, <3>1
      <3> QED
        BY <1>4, <2>1, <3>1, <3>2 DEF e
    <2> QED
      BY <1>1, <2>2 DEF EventsProcessed
  <1> QED
    BY <1>5, <1>6, <1>7, <1>8 DEF EventsInv

\* One step per action; a restart takes what is in hand.
LEMMA EventsKept == ASSUME EventsInv, EventsNext PROVE EventsInv'
  <1>1. ASSUME Stop PROVE EventsInv'
    <2>1. /\ lost' = lost \cup {given[i] : i \in DOMAIN given}
          /\ given' = <<>> /\ done' = FALSE
          /\ UNCHANGED <<published, stream, delivered, processed, unacked>>
      BY <1>1 DEF Stop
    <2>2. EventsProcessed'
      BY <2>1 DEF EventsInv, EventsProcessed
    <2>3. Len(given') = 0 /\ given' \in Seq(Events) /\ \A j \in 1..0 : FALSE
      BY <2>1
    <2>4. StreamOK' /\ GivenOK'
      BY <2>1, <2>3 DEF EventsInv, StreamOK, GivenOK
    <2>5. ProcessedOK'
      BY <2>1, <2>3 DEF EventsInv, ProcessedOK
    <2> QED
      BY <2>2, <2>4, <2>5 DEF EventsInv
  <1> QED
    BY <1>1, PublishKeeps, ReadKeeps, ProcessKeeps, AckKeeps DEF EventsNext

-----------------------------------------------------------------------------
(* The alerts.                                                              *)

\* Those of the hour before now.
Recent == {a \in admitted : a[2] + AlertHour > ticks}

\* The notifier keeps those of the last hour; a message's last time is that of
\* the latest alert for it.
AlertTypes ==
    /\ ticks \in Nat /\ admitted \subseteq Errors \X Nat \X Nat
    /\ IsFiniteSet(admitted)
    /\ lastKey \in [Errors -> Nat \cup {None}]
    /\ \A a \in admitted : a[2] <= ticks /\ a[3] < Cardinality(admitted)
LogKept ==
    /\ sentLog \subseteq admitted
    /\ \A a \in admitted \ sentLog : a[2] + AlertHour <= ticks
LastTimes ==
    \A m \in Errors :
        /\ \A a \in admitted :
              a[1] = m => lastKey[m] # None /\ a[2] <= lastKey[m]
        /\ lastKey[m] # None =>
              \E a \in admitted : a[1] = m /\ a[2] = lastKey[m]
AlertsInv == AlertTypes /\ LogKept /\ LastTimes /\ AlertsPaced

\* Nothing was logged.
LEMMA AlertsInvInit == AlertsInit => AlertsInv
  BY FS_EmptySet, AlertsAssumption
     DEF AlertsInit, AlertsInv, AlertTypes, LogKept, LastTimes, AlertsPaced

\* What is kept is the last hour's.
LEMMA KeptIsRecent == AlertsInv => KeptLog(sentLog, ticks) = Recent
  <1> SUFFICES ASSUME AlertsInv PROVE KeptLog(sentLog, ticks) = Recent
    OBVIOUS
  <1>1. \A a \in admitted : a[2] \in Nat
    BY DEF AlertsInv, AlertTypes
  <1> QED
    BY <1>1, AlertsAssumption
       DEF AlertsInv, AlertTypes, LogKept, KeptLog, Recent

\* An alert is admitted only past its cooldown and below the cap.
LEMMA AdmitKeeps ==
    ASSUME AlertsInv, NEW m \in Errors,
           lastKey[m] = None \/ ~(ticks < lastKey[m] + perKeyCooldown),
           Cardinality(Recent) < globalHourlyCap,
           lastKey' = [lastKey EXCEPT ![m] = ticks],
           sentLog' = Recent \cup {<<m, ticks, Cardinality(admitted)>>},
           admitted' = admitted \cup {<<m, ticks, Cardinality(admitted)>>},
           UNCHANGED <<refused, ticks>>
    PROVE  AlertsInv'
  <1> DEFINE n == Cardinality(admitted)
             new == <<m, ticks, n>>
  <1>0. /\ {perKeyCooldown, AlertHour, globalHourlyCap} \subseteq Nat \ {0}
        /\ None \notin Nat
        /\ ticks \in Nat /\ IsFiniteSet(admitted)
        /\ lastKey \in [Errors -> Nat \cup {None}]
    BY AlertsAssumption DEF AlertsInv, AlertTypes
  <1>1. n \in Nat
    BY <1>0, FS_CardinalityType
  <1>2. \A a \in admitted : /\ a[1] \in Errors /\ a[2] \in Nat /\ a[3] \in Nat
                            /\ a[2] <= ticks /\ a[3] < n
    BY DEF AlertsInv, AlertTypes
  <1>3. /\ new[1] = m /\ new[2] = ticks /\ new[3] = n
        /\ new \in Errors \X Nat \X Nat
    BY <1>0, <1>1
  <1> HIDE DEF n, new
  <1>4. new \notin admitted
    BY <1>1, <1>2, <1>3
  <1>5. admitted' = admitted \cup {new} /\ sentLog' = Recent \cup {new}
    BY DEF new, n
  <1>6. IsFiniteSet(admitted') /\ Cardinality(admitted') = n + 1
    <2>1. /\ IsFiniteSet(admitted \cup {new})
          /\ Cardinality(admitted \cup {new}) = Cardinality(admitted) + 1
      BY <1>0, <1>4, FS_AddElement
    <2> QED
      BY <1>5, <2>1 DEF n
  <1>7. AlertTypes'
    <2>1. lastKey' \in [Errors -> Nat \cup {None}]
      BY <1>0
    <2>2. \A a \in admitted' : a[2] <= ticks /\ a[3] < n + 1
      BY <1>0, <1>1, <1>2, <1>3, <1>5
    <2>3. admitted' \subseteq Errors \X Nat \X Nat
      BY <1>3, <1>5 DEF AlertsInv, AlertTypes
    <2> QED
      BY <1>0, <1>6, <2>1, <2>2, <2>3 DEF AlertTypes
  <1>8. LogKept'
    BY <1>0, <1>2, <1>5 DEF LogKept, Recent
  <1>9. LastTimes'
    <2>1. lastKey'[m] = ticks /\ ticks # None
          /\ \A k \in Errors \ {m} : lastKey'[k] = lastKey[k]
      BY <1>0
    <2>2. ASSUME NEW k \in Errors
          PROVE  /\ \A a \in admitted' : a[1] = k => lastKey'[k] # None
                    /\ a[2] <= lastKey'[k]
                 /\ lastKey'[k] # None => \E a \in admitted' : a[1] = k
                    /\ a[2] = lastKey'[k]
      <3>1. CASE k = m
        BY <1>0, <1>2, <1>3, <1>5, <2>1, <3>1
      <3>2. CASE k # m
        BY <1>3, <1>5, <2>1, <3>2 DEF AlertsInv, LastTimes
      <3> QED
        BY <3>1, <3>2
    <2> QED
      BY <2>2 DEF LastTimes
  <1>10. \A a \in admitted : a[1] = m => a[2] + perKeyCooldown <= ticks
    <2>1. ASSUME NEW a \in admitted, a[1] = m
          PROVE a[2] + perKeyCooldown <= ticks
      <3>1. lastKey[m] # None /\ a[2] <= lastKey[m] /\ lastKey[m] \in Nat
        BY <1>0, <2>1 DEF AlertsInv, LastTimes
      <3>2. ~(ticks < lastKey[m] + perKeyCooldown)
        BY <3>1
      <3> QED
        BY <1>0, <1>2, <3>1, <3>2
    <2> QED
      BY <2>1
  <1> DEFINE Hour(s, a) == {b \in s : b[2] \in a[2]..(a[2] + AlertHour - 1)}
  <1>11. /\ IsFiniteSet(Recent) /\ new \notin Recent
         /\ IsFiniteSet(Recent \cup {new})
         /\ Cardinality(Recent \cup {new}) <= globalHourlyCap
    <2>1. Recent \subseteq admitted
      BY DEF Recent
    <2>2. IsFiniteSet(Recent) /\ new \notin Recent
      BY <1>0, <1>4, <2>1, FS_Subset
    <2>3. /\ Cardinality(Recent \cup {new}) = Cardinality(Recent) + 1
          /\ IsFiniteSet(Recent \cup {new}) /\ Cardinality(Recent) \in Nat
      BY <2>2, FS_AddElement, FS_CardinalityType
    <2> QED
      BY <1>0, <2>2, <2>3
  <1>12. ASSUME NEW a \in admitted'
         PROVE Cardinality(Hour(admitted', a)) <= globalHourlyCap
    <2>1. a[2] \in Nat /\ a[2] <= ticks
      BY <1>0, <1>2, <1>3, <1>5
    <2>2. CASE ticks < a[2] + AlertHour
      <3>1. Hour(admitted', a) \subseteq Recent \cup {new}
        BY <1>0, <1>2, <1>5, <2>1, <2>2 DEF Recent
      <3>2. Cardinality(Hour(admitted', a)) <= Cardinality(Recent \cup {new})
        BY <1>11, <3>1, FS_Subset
      <3>3. /\ Cardinality(Hour(admitted', a)) \in Nat
            /\ Cardinality(Recent \cup {new}) \in Nat
        BY <1>11, <3>1, FS_Subset, FS_CardinalityType
      <3> QED
        BY <1>0, <1>11, <3>2, <3>3
    <2>3. CASE ~(ticks < a[2] + AlertHour)
      <3>1. a # new
        BY <1>0, <1>3, <2>3
      <3>2. Hour(admitted', a) = Hour(admitted, a)
        BY <1>0, <1>3, <1>5, <2>1, <2>3
      <3> QED
        BY <1>5, <3>1, <3>2 DEF AlertsInv, AlertsPaced
    <2> QED
      BY <2>2, <2>3
  <1>13. ASSUME NEW a \in admitted', NEW b \in admitted', a[1] = b[1], a # b
         PROVE  a[2] + perKeyCooldown <= b[2] \/ b[2] + perKeyCooldown <= a[2]
    BY <1>3, <1>5, <1>10, <1>13 DEF AlertsInv, AlertsPaced
  <1>14. AlertsPaced'
    <2>1. ~refused'
      BY DEF AlertsInv, AlertsPaced
    <2> QED
      BY <1>12, <1>13, <2>1 DEF AlertsPaced
  <1> QED
    BY <1>7, <1>8, <1>9, <1>14 DEF AlertsInv

\* An alert that is refused is cooling, or the hour is full.
LEMMA RefuseKeeps ==
    ASSUME AlertsInv, NEW m \in Errors, NEW cooling \in BOOLEAN,
           cooling <=> lastKey[m] # None
             /\ ticks < lastKey[m] + perKeyCooldown,
           cooling \/ ~(Cardinality(Recent) < globalHourlyCap),
           sentLog' = IF cooling THEN sentLog ELSE Recent,
           refused' = (refused \/
                     /\ Cardinality(Recent) < globalHourlyCap
                     /\ \A a \in admitted : a[1] = m =>
                        a[2] + perKeyCooldown <= ticks),
           UNCHANGED <<lastKey, admitted, ticks>>
    PROVE  AlertsInv'
  <1>0. /\ {perKeyCooldown, AlertHour, globalHourlyCap} \subseteq Nat \ {0}
        /\ None \notin Nat
        /\ ticks \in Nat /\ lastKey \in [Errors -> Nat \cup {None}]
    BY AlertsAssumption DEF AlertsInv, AlertTypes
  <1>1. \A a \in admitted : a[2] \in Nat
    BY DEF AlertsInv, AlertTypes
  <1>2. ~refused'
    <2>1. ASSUME cooling
          PROVE  ~ \A a \in admitted : a[1] = m =>
                   a[2] + perKeyCooldown <= ticks
      <3>1. PICK a \in admitted : a[1] = m /\ a[2] = lastKey[m]
        BY <2>1 DEF AlertsInv, LastTimes
      <3>2. ~(a[2] + perKeyCooldown <= ticks)
        BY <1>0, <1>1, <2>1, <3>1
      <3> QED
        BY <3>1, <3>2
    <2> QED
      BY <2>1 DEF AlertsInv, AlertsPaced
  <1>3. LogKept'
    BY <1>0, <1>1 DEF AlertsInv, LogKept, Recent
  <1>4. AlertTypes' /\ LastTimes'
    BY DEF AlertsInv, AlertTypes, LastTimes
  <1>5. AlertsPaced'
    BY <1>2 DEF AlertsInv, AlertsPaced
  <1> QED
    BY <1>3, <1>4, <1>5 DEF AlertsInv

\* One step per action.
LEMMA AlertsKept == ASSUME AlertsInv, AlertsNext PROVE AlertsInv'
  <1>1. ASSUME NEW m \in Errors, Log(m) PROVE AlertsInv'
    <2> DEFINE cooling == lastKey[m] # None
          /\ ticks < lastKey[m] + perKeyCooldown
    <2>1. KeptLog(sentLog, ticks) = Recent
      BY KeptIsRecent
    <2>2. IF ~cooling /\ Cardinality(Recent) < globalHourlyCap
          THEN /\ lastKey' = [lastKey EXCEPT ![m] = ticks]
               /\ sentLog' = Recent \cup {<<m, ticks, Cardinality(admitted)>>}
               /\ admitted' =
                     admitted \cup {<<m, ticks, Cardinality(admitted)>>}
               /\ UNCHANGED <<refused, ticks>>
          ELSE /\ sentLog' = IF cooling THEN sentLog ELSE Recent
               /\ refused' = (refused \/
                     /\ Cardinality(Recent) < globalHourlyCap
                     /\ \A a \in admitted : a[1] = m =>
                        a[2] + perKeyCooldown <= ticks)
               /\ UNCHANGED <<lastKey, admitted, ticks>>
      BY <1>1, <2>1 DEF Log, Recent
    <2>3. CASE ~cooling /\ Cardinality(Recent) < globalHourlyCap
      BY <2>2, <2>3, AdmitKeeps
    <2>4. CASE ~(~cooling /\ Cardinality(Recent) < globalHourlyCap)
      BY <2>2, <2>4, RefuseKeeps
    <2> QED
      BY <2>3, <2>4
  <1>2. ASSUME Post PROVE AlertsInv'
    BY <1>2 DEF Post, AlertsInv, AlertTypes, LogKept, LastTimes, AlertsPaced
  <1>3. ASSUME AlertTick PROVE AlertsInv'
    <2>1. ticks \in Nat /\ ticks' = ticks + 1 /\ AlertHour \in Nat
          /\ UNCHANGED <<lastKey, sentLog, admitted, refused>>
          /\ \A a \in admitted : a[2] \in Nat
      BY <1>3, AlertsAssumption DEF AlertTick, AlertsInv, AlertTypes
    <2>2. AlertTypes' /\ LogKept'
      BY <2>1 DEF AlertsInv, AlertTypes, LogKept
    <2> QED
      BY <2>1, <2>2 DEF AlertsInv, LastTimes, AlertsPaced
  <1>4. ASSUME NotifierRestarts PROVE AlertsInv'
    <2>1. /\ admitted' = {} /\ lastKey' = [m \in Errors |-> None]
          /\ sentLog' = {}
          /\ UNCHANGED <<ticks, refused>>
      BY <1>4 DEF NotifierRestarts
    <2> QED
      BY <2>1, FS_EmptySet
         DEF AlertsInv, AlertTypes, LogKept, LastTimes, AlertsPaced
  <1> QED
    BY <1>1, <1>2, <1>3, <1>4 DEF AlertsNext

-----------------------------------------------------------------------------
(* The chat.                                                                *)

\* Where the loop is: the first update that it has not handled since it began.
Position == offset - Len(batch)

\* What is in hand is what comes before the offset.  What Telegram was told to
\* forget, and what the loop has behind it, is handled; what it has before it
\* is not, but by a process that was restarted.
ChatTypes ==
    /\ typed \in 0..Commands /\ reboots \in Nat
    /\ offset \in Nat /\ seenBelow \in Nat
    /\ batch \in Seq(1..typed) /\ handled \in [1..Commands -> Nat]
    /\ \A j \in 1..Len(batch) : batch[j] = Position + j - 1
    /\ Position \in Nat
ChatInv ==
    /\ ChatTypes
    /\ \A u \in 1..Commands :
          /\ u < Position => handled[u] > 0
          /\ u >= Position => handled[u] <= reboots
    /\ CommandsHandled

\* Nothing was typed.
LEMMA ChatInvInit == ChatInit => ChatInv
  <1> SUFFICES ASSUME ChatInit PROVE ChatInv
    OBVIOUS
  <1>1. /\ typed = 0 /\ offset = 0 /\ seenBelow = 0 /\ batch = <<>>
        /\ handled = [u \in 1..Commands |-> 0] /\ reboots = 0
    BY DEF ChatInit
  <1>2. Len(batch) = 0 /\ batch \in Seq(1..typed)
    BY <1>1, EmptySeq
  <1>3. Position = 0
    <2>1. offset = 0 /\ Len(batch) = 0
      BY <1>1, <1>2
    <2> QED
      BY <2>1 DEF Position
  <1> QED
    BY <1>1, <1>2, <1>3, ChatAssumption DEF ChatInv, ChatTypes, CommandsHandled

\* What Telegram hands out.
LEMMA UpdatesGiven ==
    ASSUME NEW n \in Nat, NEW first \in Nat \ {0}
    PROVE  LET ids == SubSeq([u \in 1..n |-> u], first, n) IN
           IF first <= n
           THEN /\ ids \in Seq(1..n) /\ Len(ids) = n + 1 - first
                /\ \A j \in 1..Len(ids) : ids[j] = first + j - 1
                /\ ids # <<>> /\ ids[Len(ids)] = n
           ELSE ids = <<>>
  <1> DEFINE all == [u \in 1..n |-> u]
             ids == SubSeq(all, first, n)
  <1>1. CASE first <= n
    <2>1. \A i \in first..n : all[i] = i /\ all[i] \in 1..n
      BY <1>1
    <2> HIDE DEF all
    <2>2. /\ ids \in Seq(1..n) /\ Len(ids) = n - first + 1
          /\ \A j \in 1..n - first + 1 : ids[j] = all[first + j - 1]
      BY <1>1, <2>1, SubSeqProperties
    <2>3. \A j \in 1..n - first + 1 : first + j - 1 \in first..n
      BY <1>1
    <2> HIDE DEF ids
    <2>4. \A j \in 1..Len(ids) : ids[j] = first + j - 1
      BY <2>1, <2>2, <2>3
    <2>5. Len(ids) = n + 1 - first /\ Len(ids) \in 1..Len(ids)
      BY <1>1, <2>2
    <2>6. ids # <<>> /\ ids[Len(ids)] = n
      BY <1>1, <2>4, <2>5
    <2> QED
      BY <1>1, <2>2, <2>4, <2>5, <2>6 DEF ids, all
  <1>2. CASE ~(first <= n)
    BY <1>2, SubSeqEmpty
  <1> QED
    BY <1>1, <1>2

\* One step per action.
LEMMA ChatKept == ASSUME ChatInv, ChatNext PROVE ChatInv'
  <1>0. /\ ChatTypes /\ Len(batch) \in Nat
    BY DEF ChatInv, ChatTypes
  <1>1. ASSUME TypeCommand PROVE ChatInv'
    <2>1. /\ typed < Commands /\ typed' = typed + 1
          /\ UNCHANGED <<offset, seenBelow, batch, handled, reboots>>
      BY <1>1 DEF TypeCommand
    <2>2. typed' \in 0..Commands /\ batch \in Seq(1..typed')
      BY <2>1, ChatAssumption DEF ChatInv, ChatTypes
    <2> QED
      BY <2>1, <2>2 DEF ChatInv, ChatTypes, Position, CommandsHandled
  <1>2. ASSUME getUpdates PROVE ChatInv'
    <2> DEFINE below == IF offset > seenBelow THEN offset ELSE seenBelow
               first == IF below > 1 THEN below ELSE 1
               ids == SubSeq([u \in 1..typed |-> u], first, typed)
    <2>1. /\ batch = <<>> /\ seenBelow' = below
          /\ \/ batch' = ids /\ offset' = NextOffset(ids, offset)
             \/ UNCHANGED <<batch, offset>>
          /\ UNCHANGED <<typed, handled, reboots>>
      BY <1>2 DEF getUpdates
    <2>2. /\ below \in Nat /\ below >= offset /\ first \in Nat \ {0}
          /\ first >= below
          /\ \A u \in 1..Commands : u < first => u < below
          /\ below \in {offset, seenBelow} /\ typed \in Nat
      BY <1>0 DEF ChatTypes
    <2>3. Position = offset /\ Len(batch) = 0
      BY <1>0, <2>1 DEF Position, ChatTypes
    <2>4. \A u \in 1..Commands : u < below => handled[u] > 0
      BY <2>2, <2>3 DEF ChatInv, CommandsHandled
    <2> HIDE DEF below, first
    <2>5. CASE UNCHANGED <<batch, offset>>
      BY <1>0, <2>1, <2>2, <2>3, <2>4, <2>5
         DEF ChatInv, ChatTypes, CommandsHandled, Position
    <2>6. CASE batch' = ids /\ offset' = NextOffset(ids, offset)
      <3>1. CASE first <= typed
        <4>1. /\ ids \in Seq(1..typed) /\ Len(ids) = typed + 1 - first
              /\ \A j \in 1..Len(ids) : ids[j] = first + j - 1
              /\ ids # <<>> /\ ids[Len(ids)] = typed
          BY <2>2, <3>1, UpdatesGiven
        <4> HIDE DEF ids
        <4>2. /\ offset' = typed + 1 /\ Position' = first
              /\ batch' \in Seq(1..typed)
              /\ \A j \in 1..Len(batch') : batch'[j] = first + j - 1
          BY <2>2, <2>6, <4>1 DEF NextOffset, Position
        <4>3. ChatTypes'
          BY <1>0, <2>1, <2>2, <4>2 DEF ChatTypes
        <4>4. \A u \in 1..Commands : /\ u < first => handled[u] > 0
                                     /\ u >= first => handled[u] <= reboots
          BY <2>2, <2>3, <2>4 DEF ChatInv
        <4>5. CommandsHandled'
          BY <2>1, <2>4 DEF ChatInv, CommandsHandled
        <4> QED
          BY <2>1, <4>2, <4>3, <4>4, <4>5 DEF ChatInv
      <3>2. CASE ~(first <= typed)
        <4>1. ids = <<>>
          BY <2>2, <3>2, UpdatesGiven
        <4>2. UNCHANGED <<batch, offset>>
          BY <2>1, <2>6, <4>1 DEF NextOffset
        <4> QED
          BY <2>5, <4>2
      <3> QED
        BY <3>1, <3>2
    <2> QED
      BY <2>1, <2>5, <2>6
  <1>3. ASSUME handleUpdate PROVE ChatInv'
    <2> DEFINE h == batch[1]
    <2>1. /\ batch # <<>> /\ batch' = Tail(batch)
          /\ handled' = [handled EXCEPT ![Head(batch)] = @ + 1]
          /\ UNCHANGED <<typed, offset, seenBelow, reboots>>
      BY <1>3 DEF handleUpdate
    <2>2. /\ Head(batch) = h /\ h \in 1..typed /\ Len(batch) \in Nat \ {0}
          /\ batch' \in Seq(1..typed) /\ Len(batch') = Len(batch) - 1
          /\ \A j \in 1..Len(batch') : batch'[j] = batch[j + 1]
      BY <1>0, <2>1, HeadTailProperties, EmptySeq DEF ChatTypes
    <2>3. h = Position /\ h \in 1..Commands
      BY <1>0, <2>2, ChatAssumption DEF ChatTypes
    <2> HIDE DEF h
    <2>4. Position' = Position + 1
      BY <1>0, <2>1, <2>2 DEF Position, ChatTypes
    <2>5. \A j \in 1..Len(batch') : batch'[j] = Position' + j - 1
      <3>1. ASSUME NEW j \in 1..Len(batch') PROVE batch'[j] = Position' + j - 1
        <4>1. j + 1 \in 1..Len(batch) /\ j \in Nat
          BY <2>2
        <4>2. batch[j + 1] = Position + (j + 1) - 1
          BY <1>0, <4>1 DEF ChatTypes
        <4> QED
          BY <1>0, <2>2, <2>4, <4>1, <4>2 DEF ChatTypes
      <3> QED
        BY <3>1
    <2>6. /\ handled' \in [1..Commands -> Nat] /\ handled'[h] = handled[h] + 1
          /\ \A u \in 1..Commands : u # h => handled'[u] = handled[u]
      BY <1>0, <2>1, <2>2, <2>3 DEF ChatTypes
    <2>7. ChatTypes'
      BY <1>0, <2>1, <2>2, <2>4, <2>5, <2>6 DEF ChatTypes
    <2>8. /\ handled[h] <= reboots /\ handled[h] \in Nat /\ reboots \in Nat
          /\ Position \in Nat
      BY <1>0, <2>3 DEF ChatInv, ChatTypes
    <2>9. \A u \in 1..Commands : /\ u < Position + 1 => handled'[u] > 0
                                 /\ u >= Position + 1 => handled'[u] <= reboots
      BY <2>3, <2>6, <2>8 DEF ChatInv
    <2>10. CommandsHandled'
      BY <2>1, <2>3, <2>6, <2>8 DEF ChatInv, CommandsHandled
    <2> QED
      BY <2>1, <2>4, <2>7, <2>9, <2>10 DEF ChatInv
  <1>4. ASSUME Reboot PROVE ChatInv'
    <2>1. /\ reboots' = reboots + 1 /\ offset' = 0 /\ batch' = <<>>
          /\ UNCHANGED <<typed, seenBelow, handled>>
      BY <1>4 DEF Reboot
    <2>2. Len(batch') = 0 /\ Position' = 0 /\ batch' \in Seq(1..typed)
      <3>1. Len(batch') = 0 /\ batch' \in Seq(1..typed)
        BY <2>1, EmptySeq
      <3>2. Position' = offset' - Len(batch')
        BY DEF Position
      <3>3. offset' = 0 /\ Len(batch') = 0
        BY <2>1, <3>1
      <3> QED
        BY <3>1, <3>2, <3>3
    <2>3. ChatTypes'
      BY <1>0, <2>1, <2>2 DEF ChatTypes
    <2>4. \A u \in 1..Commands : handled[u] \in Nat
            /\ handled[u] <= 1 + reboots
      BY <1>0 DEF ChatInv, ChatTypes, CommandsHandled
    <2>5. CommandsHandled'
      BY <1>0, <2>1, <2>4 DEF ChatInv, ChatTypes, CommandsHandled
    <2> QED
      BY <1>0, <2>1, <2>2, <2>3, <2>4, <2>5 DEF ChatInv, ChatTypes
  <1> QED
    BY <1>1, <1>2, <1>3, <1>4 DEF ChatNext

-----------------------------------------------------------------------------
(* The office.                                                              *)

OfficeInv ==
    /\ ClaimsInv /\ CatalogueInv /\ BonusInv /\ CasesInv /\ PricingInv
    /\ SettingsInv /\ AdvertsInv
    /\ JobsInv /\ EventsInv /\ AlertsInv /\ ChatInv

\* Every part begins well, whichever the behaviour is of.
LEMMA OfficeBegins == OfficeInit => OfficeInv
  BY ClaimsInvInit, CatalogueInvInit, BonusInvInit, CasesInvInit,
     PricingInvInit, SettingsInvInit, AdvertsInvInit, JobsInvInit,
     EventsInvInit, AlertsInvInit, ChatInvInit
     DEF OfficeInit, OfficeInv

\* A part that stands still stays well.
LEMMA FirstPartsStand ==
    ASSUME OfficeInv
    PROVE  /\ UNCHANGED <<vars, claimVars>> => ClaimsInv'
           /\ UNCHANGED catalogueVars => CatalogueInv'
           /\ UNCHANGED bonusVars => BonusInv'
           /\ UNCHANGED casesVars => CasesInv'
  <1>0. ClaimsInv /\ CatalogueInv /\ BonusInv /\ CasesInv
    BY DEF OfficeInv
  <1>1. ASSUME UNCHANGED <<vars, claimVars>> PROVE ClaimsInv'
    <2>1. [Next]_vars /\ UNCHANGED claimVars
      BY <1>1
    <2>2. IInv' /\ SalesOK' /\ \A s \in Claimed : Granted(s) => Granted(s)'
      BY <1>0, <2>1, IInvStep, SaleStep DEF ClaimsInv
    <2> QED
      BY <1>0, <2>1, <2>2, ClaimsStand DEF ClaimsInv
  <1>2. ASSUME UNCHANGED catalogueVars PROVE CatalogueInv'
    <2>1. CatalogueType' /\ order' = order /\ package' = package
          /\ campaigns' = campaigns
      BY <1>0, <1>2 DEF catalogueVars, CatalogueInv, CatalogueType
    <2>2. \A listed, g, price : Shows(listed, g, price)' <=> Shows(listed, g, price)
      BY <2>1 DEF Shows, IsBest, Fits, Before, Applies, Override
    <2>3. \A b \in Orders : OrderOK(b)'
      BY <1>0, <2>1, <2>2 DEF CatalogueInv, OrderOK
    <2> QED
      BY <2>1, <2>3 DEF CatalogueInv
  <1>3. ASSUME UNCHANGED bonusVars PROVE BonusInv'
    BY <1>0, <1>3 DEF bonusVars, BonusInv, IsRegistration
  <1>4. ASSUME UNCHANGED casesVars PROVE CasesInv'
    BY <1>0, <1>4
       DEF casesVars, CasesInv, AreErrands, IncidentOK, Informed, Further,
           TicketOK, IsTicket, RepliesOK, Replies
  <1> QED
    BY <1>1, <1>2, <1>3, <1>4

\* The same of prices, regions and adverts.
LEMMA NextPartsStand ==
    ASSUME OfficeInv
    PROVE  /\ UNCHANGED pricingVars => PricingInv'
           /\ UNCHANGED settingsVars => SettingsInv'
           /\ UNCHANGED advertVars => AdvertsInv'
  <1>0. PricingInv /\ SettingsInv /\ AdvertsInv
    BY DEF OfficeInv
  <1>1. ASSUME UNCHANGED pricingVars PROVE PricingInv'
    BY <1>0, <1>1
       DEF pricingVars, PricingInv, RowsOK, EditorsOK, SoleOK, RideOK,
           FareAsAgreed, Active
  <1>2. ASSUME UNCHANGED settingsVars PROVE SettingsInv'
    BY <1>0, <1>2 DEF settingsVars, SettingsInv
  <1>3. ASSUME UNCHANGED advertVars PROVE AdvertsInv'
    BY <1>0, <1>3 DEF advertVars, AdvertsInv, BannersOK, MadeAlone
  <1> QED
    BY <1>1, <1>2, <1>3

\* The same of those that run beside the requests.
LEMMA OtherPartsStand ==
    ASSUME OfficeInv
    PROVE  /\ UNCHANGED jobVars => JobsInv'
           /\ UNCHANGED alertVars => AlertsInv'
           /\ UNCHANGED chatVars => ChatInv'
           /\ UNCHANGED eventVars => EventsInv'
  <1>0. JobsInv /\ AlertsInv /\ ChatInv /\ EventsInv
    BY DEF OfficeInv
  <1>1. ASSUME UNCHANGED jobVars PROVE JobsInv'
    <2>1. UNCHANGED <<dated, now, running, nextPass, nextDigest, ticking, passing,
                      passBegan, left, overnight, told, failed, digests>>
      BY <1>1 DEF jobVars, passVars
    <2>2. AllTold' <=> AllTold
      BY <2>1, SameDay DEF Today
    <2>3. (BeganToday' <=> BeganToday) /\ (PassTomorrow' <=> PassTomorrow)
      BY <2>1 DEF BeganToday, PassTomorrow
    <2>4. PassTimerOK' <=> PassTimerOK
      BY <2>1 DEF PassTimerOK
    <2>5. PassDone' <=> PassDone
      BY <2>1, <2>2, <2>3 DEF PassDone
    <2> QED
      BY <1>0, <2>1, <2>4, <2>5 DEF JobsInv
  <1>2. ASSUME UNCHANGED alertVars PROVE AlertsInv'
    BY <1>0, <1>2
       DEF alertVars, AlertsInv, AlertTypes, LogKept, LastTimes, AlertsPaced
  <1>3. ASSUME UNCHANGED chatVars PROVE ChatInv'
    BY <1>0, <1>3 DEF chatVars, ChatInv, ChatTypes, Position, CommandsHandled
  <1>4. ASSUME UNCHANGED eventVars PROVE EventsInv'
    BY <1>0, <1>4
       DEF eventVars, EventsInv, StreamOK, GivenOK, ProcessedOK,
           EventsProcessed
  <1> QED
    BY <1>1, <1>2, <1>3, <1>4

\* A step is of one part, and leaves the others.
LEMMA OfficeSteps == OfficeInv /\ [OfficeNext]_officeVars => OfficeInv'
  <1> SUFFICES ASSUME OfficeInv, [OfficeNext]_officeVars PROVE OfficeInv'
    OBVIOUS
  <1>1. /\ \/ ClaimsNext \/ UNCHANGED <<vars, claimVars>>
        /\ \/ CatalogueNext \/ UNCHANGED catalogueVars
        /\ \/ BonusNext \/ UNCHANGED bonusVars
        /\ \/ CasesNext \/ UNCHANGED casesVars
        /\ \/ PricingNext \/ UNCHANGED pricingVars
        /\ \/ SettingsNext \/ UNCHANGED settingsVars
        /\ \/ AdvertsNext \/ UNCHANGED advertVars
        /\ \/ JobsNext \/ UNCHANGED jobVars
        /\ \/ AlertsNext \/ UNCHANGED alertVars
        /\ \/ ChatNext \/ UNCHANGED chatVars
        /\ \/ EventsNext \/ UNCHANGED eventVars
    BY DEF OfficeNext, officeVars
  <1> QED
    BY <1>1, FirstPartsStand, NextPartsStand, OtherPartsStand, ClaimsKept,
       CatalogueKept, BonusKept, CasesKept, PricingKept, SettingsKept,
       AdvertsKept, JobsKept, AlertsKept, ChatKept, EventsKept
       DEF OfficeInv

\* Every part of the office keeps to its invariant, whatever the others do.
LEMMA OfficeInvariance == OfficeSpec => []OfficeInv
  BY OfficeBegins, OfficeSteps, PTL DEF OfficeSpec

\* An approval that dies between grant and mark, a second admin and a driver
\* who cancels leave no approved claim without its purchase or its top-up.
THEOREM ApprovedClaimsAreGranted == OfficeSpec => []ApprovedIsGranted
  <1>1. OfficeInv => ApprovedIsGranted
    BY DEF OfficeInv, ClaimsInv
  <1> QED
    BY <1>1, OfficeInvariance, PTL

\* An order is charged what the catalogue showed, or a price of its driver's;
\* two of a driver's orders get the first-purchase price only if neither was
\* paid when the other's offer was resolved, or the query for it failed
\* (resolveOffer, InitiatePurchase).
THEOREM PurchasesArePriced == OfficeSpec => []PurchasePriced
  <1>1. OfficeInv => PurchasePriced
    BY CatalogueSafe DEF OfficeInv
  <1> QED
    BY <1>1, OfficeInvariance, PTL

\* However approvals of a driver cross, two registration bonuses of one driver
\* are of two tiers, and neither approval could see the other's.
THEOREM RegistrationBonusIsOnce == OfficeSpec => []RegistrationBonusOnce
  <1>1. OfficeInv => RegistrationBonusOnce
    BY BonusSafe DEF OfficeInv
  <1> QED
    BY <1>1, OfficeInvariance, PTL

\* An acknowledgement does not take back an escalation or a resolution, nor a
\* reply the closing of a ticket, unless it had read the case before; and the
\* timeline tells of no status the incident never had, whichever of the writes
\* failed (Acknowledge, SetIncidentStatus, AddTicketMessage).
THEOREM CasesStand == OfficeSpec => []NothingTakenBack
  <1>1. OfficeInv => NothingTakenBack
    BY CasesSafe DEF OfficeInv
  <1> QED
    BY <1>1, OfficeInvariance, PTL

\* A ride costs the fare both sides agreed to and the waiting by the terms in
\* force when it was booked, whatever tariffs are made meanwhile, or has no
\* final fare because its tariff could not be read; and a fare never shrinks
\* with the way, the night or the wait (CompleteRide, CreateConfig, Calculate).
THEOREM PricesAreHeld == OfficeSpec => []PricesHold
  <1>1. OfficeInv => PricesHold
    BY PricingSafe DEF OfficeInv
  <1> QED
    BY <1>1, OfficeInvariance, PTL

\* Regions and adverts stay as edited, unless edits overlapped.
THEOREM EditsAreKept == OfficeSpec => []EditsStand
  <1>1. OfficeInv => EditsStand
    BY EditsSafe DEF OfficeInv, EditsStand
  <1> QED
    BY <1>1, OfficeInvariance, PTL

\* With the process up when a day ends, the papers due have been announced,
\* unless it started in the two minutes before, its first pass ran over
\* midnight or is still under way, or the notice itself failed; no digest goes
\* out twice; commands and events survive a restart as far as their own records
\* go; and the chat hears of errors at its pace (expiry_notifier.go, digest,
\* commandbot.go, streams.go, alerting.go).
THEOREM BackgroundIsKeptUp == OfficeSpec => []BackgroundKeepsUp
  <1>1. OfficeInv => BackgroundKeepsUp
    BY JobsSafe
       DEF OfficeInv, BackgroundKeepsUp, EventsInv, AlertsInv, ChatInv
  <1> QED
    BY <1>1, OfficeInvariance, PTL

=============================================================================
