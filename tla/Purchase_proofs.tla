-------------------------- MODULE Purchase_proofs --------------------------
(***************************************************************************)
(* Proofs about Purchase, for any sales, paths, offers, keys and           *)
(* transaction numbers: that it implements module Sale, and the invariants *)
(* this takes.  IInv adds to the properties what the calls in flight and   *)
(* the requests under way may assume of the row.                           *)
(***************************************************************************)
EXTENDS Purchase, TLAPS

\* Nobody charges before the prompt; what is written statement by statement
\* is a row inserted as PAID.
RequestOK ==
    \A s \in Sales :
        /\ request[s] \in {"idle", "insert", "prompt"} => charge[s] = "none"
        /\ request[s] \in Writing => AtOnce(s) /\ row[s].status = "PAID"

\* Only a PAID row has a transaction, and an admin's is the sale's own.
RowOK ==
    \A s \in Sales :
        /\ row[s].status \in {"PENDING", "FAILED"} => ~AtOnce(s)
        /\ row[s].status # "PAID" => row[s].txn = None
        /\ row[s].txn # None /\ row[s].txn.by = "manual" =>
              row[s].txn = Manual(s)

\* Every call in flight has the reason SettledForAReason asks for.
CallOK ==
    \A c \in calls :
        /\ c.success => charge[c.sale] = "paid" \/ c.txn = Manual(c.sale)
        /\ ~c.success => \/ charge[c.sale] = "refused"
                         \/ row[c.sale].lapsed \/ c.sale \in Reviewed
        /\ c.txn # None /\ c.txn.by = "manual" => c.txn = Manual(c.sale)

\* A settled sale that is PAID has been delivered and booked in full.
DeliveredOK ==
    \A s \in Settled : row[s].status = "PAID" =>
        credits[s] = AllCredits /\ (HasPrice(s) => journal[s] = Balanced)

IInv ==
    /\ TypeOK /\ RequestOK /\ RowOK /\ CallOK /\ DeliveredOK
    /\ OneSalePerKey /\ OneTransactionOneSale /\ OnlyPaidDelivers
    /\ SettledForAReason

-----------------------------------------------------------------------------
(* Types.                                                                  *)

LEMMA ConstantsType ==
    /\ Path \in [Sales -> Paths] /\ Offer \in [Sales -> Offers]
    /\ Reviewed \subseteq Sales /\ None \notin Transactions
    /\ None \notin {"PENDING", "PAID", "FAILED"}
    /\ Reports \in [Sales -> SUBSET (ProviderTxns \cup {None})]
  BY PurchaseAssumption DEF Transactions

\* The transactions a call may carry, and that an admin's differ from the rest.
LEMMA TransactionType ==
    ASSUME NEW s \in Sales
    PROVE  /\ Momo(s) \in Transactions /\ Momo(s).by = "momo"
           /\ Manual(s) \in Transactions /\ Manual(s).by = "manual"
           /\ Manual(s).id = s
           /\ Momo(s) # None /\ Manual(s) # None
  BY ConstantsType DEF Transactions, Momo, Manual

LEMMA CallbackType ==
    ASSUME NEW n \in ProviderTxns \cup {None}
    PROVE  /\ Callback(n) \in Transactions \cup {None}
           /\ Callback(n) # None => Callback(n).by = "callback"
  BY DEF Transactions, Callback

\* The calls that are made are calls, and say what they should.
LEMMA PaidType ==
    ASSUME NEW s \in Sales, NEW t \in Transactions \cup {None}
    PROVE  /\ Paid(s, t) \in Call /\ Paid(s, t).sale = s
           /\ Paid(s, t).txn = t /\ Paid(s, t).success = TRUE
  BY DEF Paid, Call

LEMMA UnpaidType ==
    ASSUME NEW s \in Sales
    PROVE  /\ Unpaid(s) \in Call /\ Unpaid(s).sale = s
           /\ Unpaid(s).txn = None /\ Unpaid(s).success = FALSE
  BY DEF Unpaid, Call

LEMMA RowType ==
    ASSUME TypeOK, NEW s \in Sales
    PROVE  /\ row[s] \in Row
           /\ row[s].txn \in Transactions \cup {None}
           /\ row[s].status \in {None, "PENDING", "PAID", "FAILED"}
  BY DEF TypeOK, Row, Transactions


\* Editing a row's columns leaves a row.
LEMMA RowFlags ==
    ASSUME NEW r \in Row
    PROVE  /\ [r EXCEPT !.granted = TRUE] \in Row
           /\ [r EXCEPT !.lapsed = TRUE] \in Row
           /\ [r EXCEPT !.proof = TRUE] \in Row
  BY DEF Row

LEMMA RowStatus ==
    ASSUME NEW r \in Row, NEW st \in {None, "PENDING", "PAID", "FAILED"}
    PROVE  [r EXCEPT !.status = st] \in Row
  BY DEF Row

LEMMA RowTxn ==
    ASSUME NEW r \in Row, NEW t \in Transactions \cup {None}
    PROVE  /\ [r EXCEPT !.txn = t] \in Row
           /\ [r EXCEPT !.status = "PAID", !.granted = TRUE, !.txn = t] \in Row
  BY DEF Row, Transactions

LEMMA RowStore ==
    ASSUME TypeOK, NEW s \in Sales, NEW r \in Row
    PROVE  [row EXCEPT ![s] = r] \in [Sales -> Row]
  BY DEF TypeOK

\* The first state is a good one.
LEMMA InitIInv == Init => IInv
  <1> SUFFICES ASSUME Init PROVE IInv
    OBVIOUS
  <1> USE DEF Init
  <1>1. TypeOK
    BY DEF TypeOK, Row, NoRow, Steps
  <1>2. RequestOK /\ RowOK /\ CallOK /\ DeliveredOK
    BY ConstantsType
       DEF RequestOK, RowOK, CallOK, DeliveredOK, NoRow, Writing, Settled
  <1>3. OneSalePerKey /\ OneTransactionOneSale
    BY DEF OneSalePerKey, OneTransactionOneSale, NoRow
  <1>4. OnlyPaidDelivers /\ SettledForAReason
    BY ConstantsType DEF OnlyPaidDelivers, SettledForAReason, NoRow,
       Settled
  <1> QED
    BY <1>1, <1>2, <1>3, <1>4 DEF IInv

-----------------------------------------------------------------------------
(* Type correctness.                                                       *)

LEMMA TypeStep == ASSUME TypeOK, [Next]_vars PROVE TypeOK'
  <1> USE DEF TypeOK
  <1>1. ASSUME NEW s \in Sales, Create(s) PROVE TypeOK'
    <2> USE <1>1 DEF GoTo, Steps, Writing
    <2>1. CASE Begin(s) \/ Abort(s) \/ PostFails(s)
      BY <2>1 DEF Begin, Abort, PostFails
    <2>2. CASE Insert(s)
      <3>1. [row[s] EXCEPT !.status = Opened(s)] \in Row
        BY RowType, RowStatus DEF Opened
      <3>2. row' \in [Sales -> Row]
        BY <2>2, <3>1 DEF Insert
      <3> QED
        BY <2>2, <3>2 DEF Insert
    <2>3. CASE Prompt(s)
      BY <2>3 DEF Prompt
    <2>4. CASE MarkPaid(s)
      <3>1. IF Path[s] = "office" THEN Manual(s) \in Transactions ELSE TRUE
        BY TransactionType
      <3> QED
        BY <2>4, <3>1, RowType, RowTxn, RowStore DEF MarkPaid
    <2>5. CASE GrantRides(s) \/ GrantBonus(s)
      BY <2>5 DEF GrantRides, GrantBonus, AllCredits
    <2>6. CASE MarkGranted(s)
      <3>1. [row[s] EXCEPT !.granted = TRUE] \in Row
        BY RowType, RowFlags
      <3>2. row' \in [Sales -> Row]
        BY <2>6, <3>1 DEF MarkGranted
      <3> QED
        BY <2>6, <3>2 DEF MarkGranted
    <2>7. CASE PostEntry(s) \/ PostLine(s)
      BY <2>7 DEF PostEntry, PostLine, Balanced
    <2> QED
      BY <2>1, <2>2, <2>3, <2>4, <2>5, <2>6, <2>7 DEF Create
  <1>2. ASSUME NEW s \in Sales, Others(s) PROVE TypeOK'
    <2> USE <1>2
    <2>1. CASE Backfill(s)
      BY <2>1 DEF Backfill, Balanced
    <2>2. CASE Answer(s)
      BY <2>2 DEF Answer
    <2>3. CASE Webhook(s)
      <3>1. \A n \in Reports[s] : Callback(n) \in Transactions \cup {None}
        BY ConstantsType, CallbackType
      <3>2. \A n \in Reports[s] : Paid(s, Callback(n)) \in Call
        BY <3>1, PaidType
      <3>3. calls' \subseteq Call
        BY <2>3, <3>2, UnpaidType DEF Webhook
      <3> QED
        BY <2>3, <3>3 DEF Webhook
    <2>4. CASE Sweep(s) \/ Poll(s) \/ AdminConfirm(s)
      <3>0. /\ Paid(s, Momo(s)) \in Call /\ Paid(s, Manual(s)) \in Call
            /\ Unpaid(s) \in Call
        BY TransactionType, PaidType, UnpaidType
      <3>1. calls' \subseteq Call
        BY <2>4, <3>0 DEF Sweep, Poll, AdminConfirm
      <3> QED
        BY <2>4, <3>1 DEF Sweep, Poll, AdminConfirm
    <2>5. CASE WindowLapses(s) \/ SubmitProof(s)
      <3>1. /\ [row[s] EXCEPT !.lapsed = TRUE] \in Row
            /\ [row[s] EXCEPT !.proof = TRUE] \in Row
        BY RowType, RowFlags
      <3>2. row' \in [Sales -> Row]
        BY <2>5, <3>1 DEF WindowLapses, SubmitProof
      <3> QED
        BY <2>5, <3>2 DEF WindowLapses, SubmitProof
    <2> QED
      BY <2>1, <2>2, <2>3, <2>4, <2>5 DEF Others
  <1>3. ASSUME NEW c \in calls, Settle(c) PROVE TypeOK'
    <2>1. c.sale \in Sales /\ c.txn \in Transactions \cup {None}
      BY DEF Call
    <2>2. row' \in [Sales -> Row]
      <3>1. CASE c.success
        <4> DEFINE t == IF c.txn = None THEN row[c.sale].txn ELSE c.txn
        <4>1. t \in Transactions \cup {None}
          BY <2>1, RowType
        <4>2. row' = [row EXCEPT ![c.sale] =
                  [row[c.sale] EXCEPT !.status = "PAID", !.granted = TRUE,
                                      !.txn = t]]
          BY <1>3, <3>1, <2>1 DEF Settle, SettlePaid
        <4> HIDE DEF t
        <4> QED
          BY <2>1, <4>1, <4>2, RowType, RowTxn, RowStore
      <3>2. CASE ~c.success
        <4>1. [row[c.sale] EXCEPT !.status = "FAILED"] \in Row
          BY <2>1, RowType, RowStatus
        <4> QED
          BY <1>3, <2>1, <3>2, <4>1 DEF Settle, SettleUnpaid
      <3> QED
        BY <3>1, <3>2
    <2> QED
      BY <1>3, <2>1, <2>2
         DEF Settle, SettlePaid, SettleUnpaid, AllCredits, Balanced
  <1>4. CASE UNCHANGED vars
    BY <1>4 DEF vars
  <1> QED
    BY <1>1, <1>2, <1>3, <1>4 DEF Next

-----------------------------------------------------------------------------
(* The invariant.                                                          *)

\* What a purchase must keep as long as no status or transaction changes.
RowsKept ==
    \A s \in Sales :
        /\ row'[s].status = row[s].status /\ row'[s].txn = row[s].txn
        /\ row[s].lapsed => row'[s].lapsed

\* Neither does a charge that was answered change.
ChargesKept ==
    \A s \in Sales :
        charge[s] \in {"paid", "refused"} => charge'[s] = charge[s]

LEMMA KeptRows ==
    ASSUME IInv, RowsKept
    PROVE  RowOK' /\ OneSalePerKey' /\ OneTransactionOneSale'
  BY DEF IInv, RowsKept, RowOK, OneSalePerKey, OneTransactionOneSale

LEMMA KeptReasons ==
    ASSUME IInv, RowsKept, ChargesKept, UNCHANGED calls
    PROVE  CallOK' /\ SettledForAReason'
  <1>1. \A c \in calls : c.sale \in Sales
    BY DEF IInv, TypeOK, Call
  <1>2. CallOK'
    BY <1>1 DEF IInv, RowsKept, ChargesKept, CallOK
  <1>3. SettledForAReason'
    BY DEF IInv, RowsKept, ChargesKept, SettledForAReason, Settled
  <1> QED
    BY <1>2, <1>3

\* Credits and lines are only added, and only to a purchase granted at once.
LEMMA KeptDeliveries ==
    ASSUME IInv, RowsKept,
           \A s \in Sales : \/ credits'[s] = credits[s] /\ journal'[s] = journal[s]
                            \/ row[s].status = "PAID" /\ AtOnce(s)
    PROVE  DeliveredOK' /\ OnlyPaidDelivers'
  BY DEF IInv, RowsKept, DeliveredOK, OnlyPaidDelivers, Settled

\* The request of an admin or of a driver's free package, step by step.
LEMMA CreateStep ==
    ASSUME IInv, NEW s \in Sales, Create(s), TypeOK'
    PROVE  IInv'
  <1>0. TypeOK /\ RequestOK /\ RowOK
    BY DEF IInv
  <1>1. CASE Begin(s) \/ Abort(s) \/ PostFails(s)
    <2> USE <1>1 DEF Begin, Abort, PostFails, GoTo
    <2>1. RowsKept /\ ChargesKept /\ UNCHANGED calls
      BY DEF RowsKept, ChargesKept
    <2>2. RequestOK'
      BY <1>0 DEF RequestOK, TypeOK, Writing, Posting
    <2> QED
      BY <2>1, <2>2, KeptRows, KeptReasons, KeptDeliveries DEF IInv
  <1>2. CASE Insert(s)
    <2>1. CASE KeyTaken(s)
      <3> USE <1>2, <2>1 DEF Insert, GoTo
      <3>1. RowsKept /\ ChargesKept /\ UNCHANGED calls
        BY DEF RowsKept, ChargesKept
      <3>2. RequestOK'
        BY <1>0 DEF RequestOK, TypeOK, Writing
      <3> QED
        BY <3>1, <3>2, KeptRows, KeptReasons, KeptDeliveries DEF IInv
    <2>2. CASE ~KeyTaken(s)
      <3> USE <1>2, <2>2 DEF Insert, GoTo
      <3>1. /\ row[s].status = None /\ row[s].txn = None
            /\ credits[s] = {} /\ journal[s] = {}
        BY ConstantsType DEF IInv, KeyTaken, RowOK, OnlyPaidDelivers
      <3>2. /\ row'[s].status = Opened(s) /\ row'[s].txn = None
            /\ row'[s].lapsed = row[s].lapsed
            /\ \A u \in Sales \ {s} : row'[u] = row[u]
        BY <1>0, <3>1, RowType DEF TypeOK, Row
      <3>3. RequestOK'
        BY <1>0, <3>2 DEF RequestOK, TypeOK, Writing, Opened
      <3>4. RowOK'
        BY <1>0, <3>2 DEF RowOK, Opened
      <3>5. CallOK'
        <4>1. \A c \in calls : c.sale \in Sales
          BY <1>0 DEF TypeOK, Call
        <4> QED
          BY <3>2, <4>1 DEF IInv, CallOK
      <3>6. OneSalePerKey'
        BY <3>2 DEF IInv, OneSalePerKey, KeyTaken
      <3>7. OneTransactionOneSale'
        BY <3>2 DEF IInv, OneTransactionOneSale
      <3>8. DeliveredOK' /\ OnlyPaidDelivers'
        BY <3>1, <3>2 DEF IInv, DeliveredOK, OnlyPaidDelivers, Settled, Opened
      <3>9. SettledForAReason'
        BY <3>2 DEF IInv, SettledForAReason, Settled, Opened
      <3> QED
        BY <3>3, <3>4, <3>5, <3>6, <3>7, <3>8, <3>9 DEF IInv
    <2> QED
      BY <2>1, <2>2
  <1>3. CASE Prompt(s)
    <2> USE <1>3 DEF Prompt, GoTo
    <2>1. charge[s] = "none"
      BY <1>0 DEF RequestOK
    <2>2. RowsKept /\ ChargesKept /\ UNCHANGED calls
      BY <1>0, <2>1 DEF RowsKept, ChargesKept, TypeOK
    <2>3. RequestOK'
      BY <1>0 DEF RequestOK, TypeOK, Writing
    <2> QED
      BY <2>2, <2>3, KeptRows, KeptReasons, KeptDeliveries DEF IInv
  <1>4. CASE MarkPaid(s)
    <2> USE <1>4 DEF MarkPaid, GoTo
    <2>1. row[s].status = "PAID" /\ AtOnce(s)
      BY <1>0 DEF RequestOK, Writing
    <2>2. /\ row'[s].status = "PAID" /\ row'[s].lapsed = row[s].lapsed
          /\ row'[s].txn \in {row[s].txn, Manual(s)}
          /\ \A u \in Sales \ {s} : row'[u] = row[u]
      BY <1>0, <2>1, RowType DEF TypeOK, Row
    <2>3. RequestOK'
      BY <1>0, <2>1, <2>2 DEF RequestOK, TypeOK, Writing
    <2>4. RowOK'
      BY <1>0, <2>1, <2>2, TransactionType DEF RowOK
    <2>5. CallOK'
      <3>1. \A c \in calls : c.sale \in Sales
        BY <1>0 DEF TypeOK, Call
      <3> QED
        BY <2>2, <3>1 DEF IInv, CallOK
    <2>6. OneSalePerKey' /\ DeliveredOK' /\ OnlyPaidDelivers'
      BY <2>1, <2>2
         DEF IInv, OneSalePerKey, DeliveredOK, OnlyPaidDelivers, Settled
    <2>7. OneTransactionOneSale'
      <3>1. \A u \in Sales \ {s} : row[u].txn # Manual(s)
        <4> SUFFICES ASSUME NEW u \in Sales \ {s}, row[u].txn = Manual(s)
                     PROVE  FALSE
          OBVIOUS
        <4>1. Manual(s) # None /\ Manual(s).by = "manual" /\ Manual(s).id = s
          BY TransactionType
        <4>2. Manual(s) = Manual(u)
          BY <1>0, <4>1 DEF RowOK
        <4>3. Manual(u).id = u
          BY TransactionType
        <4> QED
          BY <4>1, <4>2, <4>3
      <3> QED
        BY <2>1, <2>2, <3>1 DEF IInv, OneTransactionOneSale
    <2>8. SettledForAReason'
      BY <2>1, <2>2 DEF IInv, SettledForAReason, Settled
    <2> QED
      BY <2>3, <2>4, <2>5, <2>6, <2>7, <2>8 DEF IInv
  <1>5. CASE GrantRides(s) \/ GrantBonus(s) \/ PostEntry(s) \/ PostLine(s)
    <2> USE <1>5 DEF GrantRides, GrantBonus, PostEntry, PostLine, GoTo
    <2>1. row[s].status = "PAID" /\ AtOnce(s)
      BY <1>0 DEF RequestOK, Writing
    <2>2. RowsKept /\ ChargesKept /\ UNCHANGED calls
      BY DEF RowsKept, ChargesKept
    <2>3. \A u \in Sales : \/ credits'[u] = credits[u] /\ journal'[u] = journal[u]
                           \/ row[u].status = "PAID" /\ AtOnce(u)
      BY <1>0, <2>1 DEF TypeOK
    <2>4. RequestOK'
      BY <1>0, <2>1 DEF RequestOK, TypeOK, Writing
    <2> QED
      BY <2>2, <2>3, <2>4, KeptRows, KeptReasons, KeptDeliveries DEF IInv
  <1>6. CASE MarkGranted(s)
    <2> USE <1>6 DEF MarkGranted, GoTo
    <2>1. RowsKept /\ ChargesKept /\ UNCHANGED calls
      BY <1>0, RowType DEF RowsKept, ChargesKept, TypeOK, Row
    <2>2. RequestOK'
      BY <1>0, <2>1 DEF RequestOK, RowsKept, TypeOK, Writing
    <2> QED
      BY <2>1, <2>2, KeptRows, KeptReasons, KeptDeliveries DEF IInv
  <1> QED
    BY <1>1, <1>2, <1>3, <1>4, <1>5, <1>6 DEF Create

\* A call made for a reason keeps the calls in order.
LEMMA AddedPaid ==
    ASSUME IInv, NEW s \in Sales, NEW t \in Transactions \cup {None},
           calls' = calls \cup {Paid(s, t)}, UNCHANGED <<row, charge>>,
           charge[s] = "paid" \/ t = Manual(s),
           t # None /\ t.by = "manual" => t = Manual(s)
    PROVE  CallOK'
  <1> DEFINE p == Paid(s, t)
  <1>1. p.sale = s /\ p.txn = t /\ p.success = TRUE
    BY PaidType
  <1> HIDE DEF p
  <1>2. \A c \in calls' : c \in calls \/ c = p
    BY DEF p
  <1> QED
    BY <1>1, <1>2 DEF IInv, CallOK

LEMMA AddedUnpaid ==
    ASSUME IInv, NEW s \in Sales,
           calls' = calls \cup {Unpaid(s)}, UNCHANGED <<row, charge>>,
           charge[s] = "refused" \/ row[s].lapsed \/ s \in Reviewed
    PROVE  CallOK'
  <1> DEFINE p == Unpaid(s)
  <1>1. p.sale = s /\ p.txn = None /\ p.success = FALSE
    BY UnpaidType
  <1> HIDE DEF p
  <1>2. \A c \in calls' : c \in calls \/ c = p
    BY DEF p
  <1> QED
    BY <1>1, <1>2 DEF IInv, CallOK

\* The provider, those who ask it, the admin, the clock and the backfill.
LEMMA OthersStep ==
    ASSUME IInv, NEW s \in Sales, Others(s), TypeOK'
    PROVE  IInv'
  <1>0. TypeOK /\ RequestOK /\ RowOK
    BY DEF IInv
  <1>1. CASE Backfill(s)
    <2> USE <1>1 DEF Backfill
    <2>1. RowsKept /\ ChargesKept /\ UNCHANGED <<calls, request, charge, row>>
      BY DEF RowsKept, ChargesKept
    <2>2. \A u \in Sales : u # s => journal'[u] = journal[u]
      BY <1>0 DEF TypeOK
    <2>3. ~(s \in Settled)
      BY DEF IInv, DeliveredOK, Balanced
    <2>4. DeliveredOK' /\ OnlyPaidDelivers'
      BY <2>2, <2>3, KeptDeliveries, <2>1 DEF Settled
    <2>5. RequestOK'
      BY <1>0 DEF RequestOK
    <2> QED
      BY <2>1, <2>4, <2>5, KeptRows, KeptReasons DEF IInv
  <1>2. CASE Answer(s)
    <2> USE <1>2 DEF Answer
    <2>1. RowsKept /\ ChargesKept /\ UNCHANGED calls
      BY <1>0 DEF RowsKept, ChargesKept, TypeOK
    <2>2. RequestOK'
      BY <1>0 DEF RequestOK, TypeOK
    <2> QED
      BY <2>1, <2>2, KeptRows, KeptReasons, KeptDeliveries DEF IInv
  <1>3. CASE Webhook(s) \/ Sweep(s) \/ Poll(s) \/ AdminConfirm(s)
    <2>1. UNCHANGED <<request, row, credits, journal, charge>>
      BY <1>3 DEF Webhook, Sweep, Poll, AdminConfirm
    <2>2. RowsKept /\ RequestOK'
      BY <1>0, <2>1 DEF RowsKept, RequestOK
    <2>3. SettledForAReason'
      BY <2>1 DEF IInv, SettledForAReason
    <2>4. CallOK'
      <3>1. CASE Webhook(s)
        <4>1. CASE charge[s] = "refused"
          BY <3>1, <4>1, <2>1, AddedUnpaid DEF Webhook
        <4>2. CASE charge[s] = "paid"
          <5>1. PICK n \in Reports[s] : calls' = calls \cup {Paid(s, Callback(n))}
            BY <3>1, <4>2 DEF Webhook
          <5>2. n \in ProviderTxns \cup {None}
            BY ConstantsType
          <5>3. /\ Callback(n) \in Transactions \cup {None}
                /\ Callback(n) # None => Callback(n).by = "callback"
            BY <5>2, CallbackType
          <5> QED
            BY <4>2, <5>1, <5>3, <2>1, AddedPaid
        <4> QED
          BY <3>1, <4>1, <4>2 DEF Webhook
      <3>2. CASE Sweep(s) \/ Poll(s)
        <4>1. /\ Reported(s) = "paid" => charge[s] = "paid"
              /\ Reported(s) = "refused" => charge[s] = "refused"
          BY DEF Reported
        <4>2. \/ charge[s] = "paid" /\ calls' = calls \cup {Paid(s, Momo(s))}
              \/ /\ charge[s] = "refused" \/ row[s].lapsed
                 /\ calls' = calls \cup {Unpaid(s)}
          BY <3>2, <4>1 DEF Sweep, Poll
        <4> QED
          BY <4>2, <2>1, TransactionType, AddedPaid, AddedUnpaid
      <3>3. CASE AdminConfirm(s)
        <4>1. /\ s \in Reviewed
              /\ \/ calls' = calls \cup {Paid(s, Manual(s))}
                 \/ calls' = calls \cup {Unpaid(s)}
          BY <3>3 DEF AdminConfirm
        <4> QED
          BY <4>1, <2>1, TransactionType, AddedPaid, AddedUnpaid
      <3> QED
        BY <1>3, <3>1, <3>2, <3>3
    <2> QED
      BY <2>1, <2>2, <2>3, <2>4, KeptRows, KeptDeliveries DEF IInv
  <1>4. CASE WindowLapses(s) \/ SubmitProof(s)
    <2> USE <1>4 DEF WindowLapses, SubmitProof
    <2>1. RowsKept /\ ChargesKept /\ UNCHANGED <<calls, request, charge>>
      BY <1>0, RowType DEF RowsKept, ChargesKept, TypeOK, Row
    <2>2. RequestOK'
      BY <1>0, <2>1 DEF RequestOK, RowsKept
    <2> QED
      BY <2>1, <2>2, KeptRows, KeptReasons, KeptDeliveries DEF IInv
  <1> QED
    BY <1>1, <1>2, <1>3, <1>4 DEF Others

\* confirm.
LEMMA SettleStep ==
    ASSUME IInv, NEW c \in calls, Settle(c), TypeOK'
    PROVE  IInv'
  <1> DEFINE s == c.sale
  <1>0. TypeOK /\ RequestOK /\ RowOK /\ CallOK
    BY DEF IInv
  <1>1. /\ s \in Sales /\ c.txn \in Transactions \cup {None}
        /\ \A d \in calls : d.sale \in Sales
    BY <1>0 DEF TypeOK, Call
  <1>2. /\ row[s].status = "PENDING" /\ ~AtOnce(s) /\ row[s].txn = None
        /\ credits[s] = {} /\ journal[s] = {}
    BY <1>0, <1>1 DEF Settle, OpenRow, IInv, RowOK, OnlyPaidDelivers
  <1>3. UNCHANGED <<request, charge, calls>>
    BY DEF Settle
  <1>4. CASE c.success
    <2>1. /\ row'[s].status = "PAID" /\ row'[s].txn = c.txn
          /\ row'[s].lapsed = row[s].lapsed
          /\ \A u \in Sales \ {s} : row'[u] = row[u]
      BY <1>0, <1>1, <1>2, <1>4, RowType DEF Settle, SettlePaid, TypeOK, Row
    <2>2. /\ credits'[s] = AllCredits
          /\ HasPrice(s) => journal'[s] = Balanced
          /\ \A u \in Sales \ {s} :
                credits'[u] = credits[u] /\ journal'[u] = journal[u]
      BY <1>0, <1>1, <1>4 DEF Settle, SettlePaid, TypeOK
    <2>3. c.txn # None => ~Duplicate(s, c.txn)
      BY <1>4 DEF Settle, SettlePaid
    <2>4. charge[s] = "paid" \/ c.txn = Manual(s)
      BY <1>0, <1>4 DEF CallOK
    <2>5. c.txn # None /\ c.txn.by = "manual" => c.txn = Manual(s)
      BY <1>0 DEF CallOK
    <2> HIDE DEF s
    <2>6. RequestOK'
      BY <1>0, <1>1, <1>2, <1>3, <2>1 DEF RequestOK
    <2>7. RowOK'
      BY <1>0, <1>1, <1>2, <2>1, <2>5 DEF RowOK
    <2>8. CallOK'
      BY <1>0, <1>1, <1>3, <2>1 DEF CallOK
    <2>9. DeliveredOK' /\ OnlyPaidDelivers'
      BY <1>1, <2>1, <2>2 DEF IInv, DeliveredOK, OnlyPaidDelivers, Settled
    <2>10. OneSalePerKey'
      BY <1>1, <1>2, <2>1, ConstantsType DEF IInv, OneSalePerKey
    <2>11. OneTransactionOneSale'
      BY <1>1, <2>1, <2>3 DEF IInv, OneTransactionOneSale, Duplicate
    <2>12. SettledForAReason'
      BY <1>1, <1>3, <2>1, <2>4 DEF IInv, SettledForAReason, Settled
    <2> QED
      BY <2>6, <2>7, <2>8, <2>9, <2>10, <2>11, <2>12 DEF IInv
  <1>5. CASE ~c.success
    <2>1. /\ row'[s].status = "FAILED" /\ row'[s].txn = None
          /\ row'[s].lapsed = row[s].lapsed
          /\ \A u \in Sales \ {s} : row'[u] = row[u]
          /\ UNCHANGED <<credits, journal>>
      BY <1>0, <1>1, <1>2, <1>5, RowType DEF Settle, SettleUnpaid, TypeOK, Row
    <2>2. charge[s] = "refused" \/ row[s].lapsed \/ s \in Reviewed
      BY <1>0, <1>5 DEF CallOK
    <2> HIDE DEF s
    <2>3. RequestOK'
      BY <1>0, <1>1, <1>2, <1>3, <2>1 DEF RequestOK
    <2>4. RowOK'
      BY <1>0, <1>1, <1>2, <2>1 DEF RowOK
    <2>5. CallOK'
      BY <1>0, <1>1, <1>3, <2>1 DEF CallOK
    <2>6. DeliveredOK' /\ OnlyPaidDelivers'
      BY <1>1, <1>2, <2>1 DEF IInv, DeliveredOK, OnlyPaidDelivers, Settled
    <2>7. OneSalePerKey'
      BY <1>1, <1>2, <2>1, ConstantsType DEF IInv, OneSalePerKey
    <2>8. OneTransactionOneSale'
      BY <1>1, <2>1 DEF IInv, OneTransactionOneSale
    <2>9. SettledForAReason'
      BY <1>1, <1>3, <2>1, <2>2 DEF IInv, SettledForAReason, Settled
    <2> QED
      BY <2>3, <2>4, <2>5, <2>6, <2>7, <2>8, <2>9 DEF IInv
  <1> QED
    BY <1>4, <1>5

LEMMA IInvStep == IInv /\ [Next]_vars => IInv'
  <1> SUFFICES ASSUME IInv, [Next]_vars PROVE IInv'
    OBVIOUS
  <1>1. TypeOK'
    BY TypeStep DEF IInv
  <1>2. CASE UNCHANGED vars
    BY <1>2 DEF vars, IInv, TypeOK, RequestOK, RowOK, CallOK, DeliveredOK,
         OneSalePerKey, OneTransactionOneSale, OnlyPaidDelivers,
         SettledForAReason
  <1> QED
    BY <1>1, <1>2, CreateStep, OthersStep, SettleStep DEF Next

THEOREM Invariance == Spec => []IInv
  BY InitIInv, IInvStep, PTL DEF Spec

\* The rows, credits, journals, charges and calls are always what TypeOK says.
THEOREM TypeCorrect == Spec => []TypeOK
  <1>1. IInv => TypeOK
    BY DEF IInv
  <1> QED
    BY <1>1, Invariance, PTL

\* However many attempts carry a key, one of them makes a purchase (Create).
THEOREM KeysAreSpentOnce == Spec => []OneSalePerKey
  <1>1. IInv => OneSalePerKey
    BY DEF IInv
  <1> QED
    BY <1>1, Invariance, PTL

\* No provider's or admin's transaction pays for two purchases (confirm).
THEOREM TransactionsAreSpentOnce == Spec => []OneTransactionOneSale
  <1>1. IInv => OneTransactionOneSale
    BY DEF IInv
  <1> QED
    BY <1>1, Invariance, PTL

\* Nothing is credited or posted for a purchase that is not PAID, on any path.
THEOREM DeliveriesArePaid == Spec => []OnlyPaidDelivers
  <1>1. IInv => OnlyPaidDelivers
    BY DEF IInv
  <1> QED
    BY <1>1, Invariance, PTL

\* A purchase is PAID because its payer or an admin paid, and FAILED because
\* somebody refused or its window ended (confirm and all its callers).
THEOREM SettlementsHaveReasons == Spec => []SettledForAReason
  <1>1. IInv => SettledForAReason
    BY DEF IInv
  <1> QED
    BY <1>1, Invariance, PTL

-----------------------------------------------------------------------------
(* The refinement: Purchase implements Sale.                               *)

StageOf == [s \in Settled |-> Stage(s)]
DeliveredOf == {s \in Settled : credits[s] = AllCredits}
BookedOf == {s \in Settled : journal[s] = Balanced}
TransactionOf == [s \in Settled |-> row[s].txn]

\* What module Sale sees depends on the settled sales alone.
LEMMA Unseen ==
    ASSUME \A s \in Settled :
              /\ row'[s].status = row[s].status /\ row'[s].txn = row[s].txn
              /\ credits'[s] = credits[s]
              /\ journal'[s] = journal[s]
    PROVE  UNCHANGED Promise!vars
  <1>1. StageOf' = StageOf
    BY DEF StageOf, Stage
  <1>2. DeliveredOf' = DeliveredOf /\ BookedOf' = BookedOf
    BY DEF DeliveredOf, BookedOf
  <1>3. TransactionOf' = TransactionOf
    BY DEF TransactionOf
  <1> QED
    BY <1>1, <1>2, <1>3
       DEF Promise!vars, StageOf, DeliveredOf, BookedOf, TransactionOf

LEMMA InitPromise == Init => Promise!Init
  <1> SUFFICES ASSUME Init PROVE Promise!Init
    OBVIOUS
  <1>1. \A s \in Sales : row[s] = NoRow /\ credits[s] = {} /\ journal[s] = {}
    BY DEF Init
  <1>2. StageOf = [s \in Settled |-> "none"]
    BY <1>1, ConstantsType DEF StageOf, Stage, NoRow, Settled
  <1>3. DeliveredOf = {} /\ BookedOf = {}
    BY <1>1 DEF DeliveredOf, BookedOf, Settled, AllCredits, Balanced
  <1>4. TransactionOf = [s \in Settled |-> None]
    BY <1>1 DEF TransactionOf, NoRow, Settled
  <1> QED
    BY <1>2, <1>3, <1>4
       DEF Promise!Init, StageOf, DeliveredOf, BookedOf, TransactionOf

\* Creating a PENDING purchase opens the sale; nothing else of Create shows.
LEMMA CreatePromise ==
    ASSUME IInv, NEW s \in Sales, Create(s)
    PROVE  [Promise!Next]_Promise!vars
  <1>0. TypeOK /\ RequestOK /\ \A u \in Settled : u \in Sales /\ ~AtOnce(u)
    BY DEF IInv, Settled
  <1>1. CASE Insert(s) /\ ~KeyTaken(s) /\ s \in Settled
    <2>1. row[s].status = None /\ row[s].txn = None
      BY <1>1, ConstantsType DEF IInv, KeyTaken, RowOK
    <2>2. /\ row'[s].status = "PENDING" /\ row'[s].txn = None
          /\ \A u \in Sales \ {s} : row'[u] = row[u]
          /\ UNCHANGED <<credits, journal>>
      BY <1>0, <1>1, <2>1, RowType DEF Insert, Opened, TypeOK, Row
    <2>3. StageOf' = [StageOf EXCEPT ![s] = "open"]
      BY <1>0, <1>1, <2>2 DEF StageOf, Stage
    <2>4. StageOf[s] = "none"
      BY <1>1, <2>1, ConstantsType DEF StageOf, Stage
    <2>5. DeliveredOf' = DeliveredOf /\ BookedOf' = BookedOf
      BY <2>2 DEF DeliveredOf, BookedOf
    <2>6. TransactionOf' = TransactionOf
      BY <1>0, <2>1, <2>2 DEF TransactionOf
    <2>7. Promise!Open(s)
      BY <2>3, <2>4, <2>5, <2>6
         DEF Promise!Open, StageOf, DeliveredOf, BookedOf, TransactionOf
    <2> QED
      BY <1>1, <2>7 DEF Promise!Next
  <1>2. CASE ~(Insert(s) /\ ~KeyTaken(s) /\ s \in Settled)
    <2>1. \A u \in Settled :
              /\ row'[u].status = row[u].status /\ row'[u].txn = row[u].txn
              /\ credits'[u] = credits[u] /\ journal'[u] = journal[u]
      <3>1. CASE s \in Settled
        <4>1. request[s] \notin Writing
          BY <1>0, <3>1 DEF RequestOK
        <4>2. UNCHANGED <<row, credits, journal>>
          BY <1>2, <3>1, <4>1
             DEF Create, Begin, Insert, Prompt, Abort, MarkPaid, GrantRides,
                 GrantBonus, MarkGranted, PostEntry, PostLine, PostFails,
                 Writing, Posting
        <4> QED
          BY <4>2
      <3>2. CASE s \notin Settled
        <4>1. \A u \in Sales \ {s} : row'[u] = row[u]
          BY <1>0 DEF TypeOK, Create, Begin, Insert, Prompt, Abort, MarkPaid,
               GrantRides, GrantBonus, MarkGranted, PostEntry, PostLine,
               PostFails
        <4>2. \A u \in Sales \ {s} :
                  credits'[u] = credits[u] /\ journal'[u] = journal[u]
          BY <1>0 DEF TypeOK, Create, Begin, Insert, Prompt, Abort, MarkPaid,
               GrantRides, GrantBonus, MarkGranted, PostEntry, PostLine,
               PostFails
        <4> QED
          BY <1>0, <3>2, <4>1, <4>2
      <3> QED
        BY <3>1, <3>2
    <2> QED
      BY <2>1, Unseen
  <1> QED
    BY <1>1, <1>2

\* What the others do becomes visible only when confirm settles.
LEMMA OthersPromise ==
    ASSUME IInv, NEW s \in Sales, Others(s)
    PROVE  [Promise!Next]_Promise!vars
  <1>0. TypeOK /\ \A u \in Settled : u \in Sales
    BY DEF IInv, Settled
  <1>1. \A u \in Sales :
            row'[u].status = row[u].status /\ row'[u].txn = row[u].txn
    BY <1>0, RowType DEF Others, Backfill, Answer, Webhook, Sweep, Poll,
       AdminConfirm, WindowLapses, SubmitProof, TypeOK, Row
  <1>2. \A u \in Settled : credits'[u] = credits[u] /\ journal'[u] = journal[u]
    <2>1. CASE Backfill(s)
      <3>1. s \notin Settled
        BY <2>1 DEF Backfill, IInv, DeliveredOK, Balanced
      <3> QED
        BY <1>0, <2>1, <3>1 DEF Backfill, TypeOK
    <2>2. CASE ~Backfill(s)
      BY <2>2 DEF Others, Answer, Webhook, Sweep, Poll, AdminConfirm,
         WindowLapses, SubmitProof
    <2> QED
      BY <2>1, <2>2
  <1> QED
    BY <1>0, <1>1, <1>2, Unseen

\* confirm sells the sale, with all that belongs to it, or lets it lapse.
LEMMA SettlePromise ==
    ASSUME IInv, NEW c \in calls, Settle(c)
    PROVE  [Promise!Next]_Promise!vars
  <1> DEFINE s == c.sale
  <1>0. TypeOK /\ \A u \in Settled : u \in Sales
    BY DEF IInv, Settled
  <1>1. s \in Sales /\ c.txn \in Transactions \cup {None}
    BY <1>0 DEF TypeOK, Call
  <1>2. /\ row[s].status = "PENDING" /\ s \in Settled /\ row[s].txn = None
        /\ credits[s] = {} /\ journal[s] = {}
    BY <1>0, <1>1
       DEF Settle, OpenRow, IInv, RowOK, OnlyPaidDelivers, Settled
  <1>3. StageOf[s] = "open"
    BY <1>2 DEF StageOf, Stage
  <1>4. CASE c.success
    <2>1. /\ row'[s].status = "PAID" /\ row'[s].txn = c.txn
          /\ \A u \in Sales \ {s} : row'[u] = row[u]
      BY <1>0, <1>1, <1>2, <1>4, RowType DEF Settle, SettlePaid, TypeOK, Row
    <2>2. /\ credits'[s] = AllCredits
          /\ journal'[s] = IF HasPrice(s) THEN Balanced ELSE {}
          /\ \A u \in Sales \ {s} :
                credits'[u] = credits[u] /\ journal'[u] = journal[u]
      BY <1>0, <1>1, <1>2, <1>4 DEF Settle, SettlePaid, TypeOK
    <2>3. c.txn # None => \A u \in Settled : TransactionOf[u] # c.txn
      <3> SUFFICES ASSUME c.txn # None, NEW u \in Settled, row[u].txn = c.txn
                   PROVE  FALSE
        BY DEF TransactionOf
      <3>1. u # s /\ row[u].status = "PAID"
        BY <1>0, <1>2 DEF IInv, RowOK
      <3>2. ~Duplicate(s, c.txn)
        BY <1>4 DEF Settle, SettlePaid
      <3> QED
        BY <1>0, <3>1, <3>2 DEF Duplicate
    <2> HIDE DEF s
    <2>4. StageOf' = [StageOf EXCEPT ![s] = "sold"]
      BY <1>0, <1>2, <2>1 DEF StageOf, Stage
    <2>5. DeliveredOf' = DeliveredOf \cup {s}
      BY <1>0, <1>2, <2>2 DEF DeliveredOf
    <2>6. BookedOf' = IF s \in {u \in Settled : HasPrice(u)}
                      THEN BookedOf \cup {s} ELSE BookedOf
      BY <1>0, <1>2, <2>2 DEF BookedOf, Balanced
    <2>7. TransactionOf' = [TransactionOf EXCEPT ![s] = c.txn]
      BY <1>0, <1>2, <2>1 DEF TransactionOf
    <2>8. c.txn = None => TransactionOf' = TransactionOf
      BY <1>0, <1>2, <2>1 DEF TransactionOf
    <2>9. \/ TransactionOf' = TransactionOf
          \/ \E t \in Transactions :
                /\ \A u \in Settled : TransactionOf[u] # t
                /\ TransactionOf' = [TransactionOf EXCEPT ![s] = t]
      BY <1>1, <2>3, <2>7, <2>8
    <2>10. Promise!Sell(s)
      BY <1>3, <2>4, <2>5, <2>6, <2>9
         DEF Promise!Sell, StageOf, DeliveredOf, BookedOf, TransactionOf
    <2> QED
      BY <1>2, <2>10 DEF Promise!Next
  <1>5. CASE ~c.success
    <2>1. /\ row'[s].status = "FAILED" /\ row'[s].txn = None
          /\ \A u \in Sales \ {s} : row'[u] = row[u]
          /\ UNCHANGED <<credits, journal>>
      BY <1>0, <1>1, <1>2, <1>5, RowType DEF Settle, SettleUnpaid, TypeOK, Row
    <2> HIDE DEF s
    <2>2. StageOf' = [StageOf EXCEPT ![s] = "lapsed"]
      BY <1>0, <1>2, <2>1 DEF StageOf, Stage
    <2>3. DeliveredOf' = DeliveredOf /\ BookedOf' = BookedOf
      BY <2>1 DEF DeliveredOf, BookedOf
    <2>4. TransactionOf' = TransactionOf
      BY <1>0, <1>2, <2>1 DEF TransactionOf
    <2>5. Promise!Lapse(s)
      BY <1>3, <2>2, <2>3, <2>4
         DEF Promise!Lapse, StageOf, DeliveredOf, BookedOf, TransactionOf
    <2> QED
      BY <1>2, <2>5 DEF Promise!Next
  <1> QED
    BY <1>4, <1>5

LEMMA StepPromise == IInv /\ [Next]_vars => [Promise!Next]_Promise!vars
  <1> SUFFICES ASSUME IInv, [Next]_vars PROVE [Promise!Next]_Promise!vars
    OBVIOUS
  <1>1. CASE UNCHANGED vars
    <2>1. UNCHANGED <<row, credits, journal>>
      BY <1>1 DEF vars
    <2> QED
      BY <2>1, Unseen
  <1> QED
    BY <1>1, CreatePromise, OthersPromise, SettlePromise DEF Next

\* Every purchase that confirm settles keeps the promise of Sale, for any
\* number of sales, callers and repeated or contradictory calls: it is sold
\* once, with credits and journal in the same step, or lapses for good.
THEOREM PurchaseImplementsSale == Spec => KeepsPromise
  BY InitPromise, StepPromise, Invariance, PTL
     DEF Spec, KeepsPromise, Promise!Spec

=============================================================================
