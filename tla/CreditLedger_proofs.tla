------------------------ MODULE CreditLedger_proofs ------------------------
(***************************************************************************)
(* Proofs about CreditLedger, for any rides, purchases, workers, packages  *)
(* and adjustments.  The inductive invariant is IInv: the properties of    *)
(* the ledger need that the cache is the newest entry's balance, that the  *)
(* sweep's snapshot is some entry's, and what a call that is waiting for   *)
(* the row may hold.                                                       *)
(***************************************************************************)
EXTENDS CreditLedger, TLAPS

\* Of the calls in flight: they are deductions and credits, only an admin's
\* grant can hold a negative amount, a purchase's grant holds the key of a
\* purchase, and no deduction goes on without a row.
WaitingOK ==
    \A w \in Workers : call[w] # Idle =>
        /\ call[w].type \notin {"ADMIN_REVOKE", "EXPIRY"}
        /\ call[w].rides < 0 \/ call[w].bonus < 0 =>
               call[w].type = "ADMIN_GRANT"
        /\ call[w].type = "PURCHASE_GRANT" =>
               call[w].key \in {"grant"} \X PurchaseIds
        /\ call[w].pc = "insert" => call[w].type # "RIDE_DEDUCTION"

\* The balance drivers are gated on is the one the newest entry records.
CacheIsNewestEntry ==
    IF ledger = <<>> THEN balance = None
    ELSE balance = ledger[Len(ledger)].after

\* A running sweep has seen a balance that was once recorded.
SeenOK ==
    sweep.pc # "idle" => \E j \in DOMAIN ledger : sweep.seen = ledger[j].after

IInv ==
    /\ TypeOK /\ WaitingOK /\ SeenOK
    /\ CacheIsNewestEntry /\ NoOverdraft /\ EachEventOnce
    /\ DeductionTakesOneCredit /\ BalanceFollowsEntries

-----------------------------------------------------------------------------
(* What one committed transaction does to the ledger.                      *)

Written(type, rides, bonus, after, key, expires) ==
    [type |-> type, rides |-> rides, bonus |-> bonus, after |-> after,
     key |-> key, expires |-> expires]

\* An entry appended leaves the others where they are.
LEMMA AppendFacts ==
    ASSUME NEW S, NEW s \in Seq(S), NEW e \in S
    PROVE  /\ Append(s, e) \in Seq(S)
           /\ Len(Append(s, e)) = Len(s) + 1
           /\ DOMAIN Append(s, e) = 1..(Len(s) + 1)
           /\ DOMAIN s = 1..Len(s)
           /\ Len(s) \in Nat
           /\ \A i \in 1..Len(s) : Append(s, e)[i] = s[i]
           /\ Append(s, e)[Len(s) + 1] = e
           /\ Append(s, e) # <<>>
  OBVIOUS

\* The type of a transaction's result.
LEMMA WriteType ==
    ASSUME TypeOK,
           NEW type \in EntryType, NEW rides \in Int, NEW bonus \in Int,
           NEW after \in Balance, NEW key \in Keys \cup {None},
           NEW expires \in Nat \cup {None},
           Write(type, rides, bonus, after, key, expires)
    PROVE  /\ ledger' \in Seq(Entry)
           /\ balance' \in Balance \cup {None}
  <1>1. Written(type, rides, bonus, after, key, expires) \in Entry
    BY DEF Written, Entry
  <1>2. ledger \in Seq(Entry)
    BY DEF TypeOK
  <1> QED
    BY <1>1, <1>2, AppendFacts DEF Write, Written

\* A balance plus two deltas is a balance.
LEMMA PlusType ==
    ASSUME NEW b \in Balance, NEW rides \in Int, NEW bonus \in Int
    PROVE  Plus(b, rides, bonus) \in Balance
  BY DEF Plus, Balance

\* Floor's range.
LEMMA FloorType == ASSUME NEW n PROVE Floor(n) \in Nat
  BY DEF Floor

\* The balance taken when there is no row.
LEMMA ZeroType == Zero \in Balance /\ Zero \in [rides : Nat, bonus : Nat]
  BY DEF Zero, Balance

\* What a call in flight holds.
LEMMA CallType ==
    ASSUME TypeOK, NEW w \in Workers, call[w].pc # "idle"
    PROVE  /\ call[w] \in Waiting /\ call[w] # Idle
           /\ call[w].type \in EntryType
           /\ call[w].rides \in Int /\ call[w].bonus \in Int
           /\ call[w].key \in Keys \cup {None}
           /\ call[w].expires \in Nat \cup {None}
  BY DEF TypeOK, Waiting, Idle

\* Beginning a call keeps the type of the calls.
LEMMA BeginType ==
    ASSUME TypeOK, NEW w \in Workers,
           NEW type \in EntryType, NEW rides \in Int, NEW bonus \in Int,
           NEW key \in Keys \cup {None}, NEW expires \in Nat \cup {None},
           Begin(w, type, rides, bonus, key, expires)
    PROVE  call' \in [Workers -> Waiting \cup {Idle}]
  BY DEF TypeOK, Begin, Waiting

\* ... and so does ending it.
LEMMA ReturnType ==
    ASSUME TypeOK, NEW w \in Workers, Return(w)
    PROVE  call' \in [Workers -> Waiting \cup {Idle}]
  BY DEF TypeOK, Return

-----------------------------------------------------------------------------
(* Type correctness.                                                       *)

\* After its first grant GrantPurchase's call grants the bonus, or is over.
LEMMA AfterGrantType ==
    ASSUME TypeOK, WaitingOK, NEW w \in Workers, call[w].pc # "idle",
           AfterGrant(w)
    PROVE  call' \in [Workers -> Waiting \cup {Idle}] /\ WaitingOK'
  <1> DEFINE key == <<"bonus", call[w].key[2]>>
  <1>0. PackageBonus \in Nat
    BY LedgerAssumption
  <1>1. call[w] \in Waiting /\ call[w] # Idle
    BY CallType
  <1>2. CASE call[w].type = "PURCHASE_GRANT" /\ PackageBonus > 0
    <2>1. call[w].key \in {"grant"} \X PurchaseIds
      BY <1>1, <1>2 DEF WaitingOK
    <2>2. key \in Keys \cup {None}
      BY <2>1 DEF Keys
    <2>3. Begin(w, "BONUS_GRANT", 0, PackageBonus, key, call[w].expires)
      BY <1>2 DEF AfterGrant
    <2> HIDE DEF key
    <2>4. /\ call[w].expires \in Nat \cup {None} /\ "BONUS_GRANT" \in EntryType
          /\ PackageBonus \in Int /\ 0 \in Int
      BY <1>0, <1>1 DEF Waiting, EntryType
    <2>5. call' \in [Workers -> Waiting \cup {Idle}]
      BY <2>2, <2>3, <2>4, BeginType
    <2>6. WaitingOK'
      BY <1>0, <2>3 DEF WaitingOK, Begin, TypeOK
    <2> QED
      BY <2>5, <2>6
  <1>3. CASE ~(call[w].type = "PURCHASE_GRANT" /\ PackageBonus > 0)
    <2>1. Return(w)
      BY <1>3 DEF AfterGrant
    <2>2. WaitingOK'
      BY <2>1 DEF WaitingOK, Return, TypeOK
    <2> QED
      BY <2>1, <2>2, ReturnType
  <1> QED
    BY <1>2, <1>3

\* The initial state has the types.
LEMMA BaseInit == Init => TypeOK /\ WaitingOK
  <1> SUFFICES ASSUME Init PROVE TypeOK /\ WaitingOK
    OBVIOUS
  <1>1. ledger \in Seq(Entry)
    BY DEF Init
  <1>2. sweep \in Sweeping
    BY ZeroType DEF Init, Sweeping
  <1> QED
    BY <1>1, <1>2 DEF Init, TypeOK, WaitingOK

\* An arrival leaves everything but the calls, and possibly the trial, alone.
LEMMA BaseArrival ==
    ASSUME TypeOK, WaitingOK, NEW w \in Workers, Arrival(w)
    PROVE  TypeOK' /\ WaitingOK'
  <1>0. /\ PackageRides \in Nat /\ PackageRides \in Int
        /\ PackageBonus \in Nat /\ PackageBonus \in Int
        /\ now + 1 \in Nat \cup {None} /\ None \in Nat \cup {None}
        /\ None \in Keys \cup {None} /\ 0 \in Int /\ 1 \in Int
        /\ {"RIDE_DEDUCTION", "RIDE_REFUND", "PURCHASE_GRANT", "ADMIN_GRANT",
            "BONUS_GRANT"} \subseteq EntryType
    BY LedgerAssumption DEF TypeOK, EntryType
  <1>1. ASSUME NEW r \in RideIds, DeductForRide(w, r) PROVE TypeOK' /\ WaitingOK'
    <2> DEFINE key == <<"deduct", r>>
    <2>1. key \in Keys \cup {None}
      BY DEF Keys
    <2>0. Begin(w, "RIDE_DEDUCTION", 0, 0, key, None)
      BY <1>1 DEF DeductForRide
    <2> HIDE DEF key
    <2>2. call' \in [Workers -> Waiting \cup {Idle}]
      BY <1>0, <2>0, <2>1, BeginType
    <2>3. WaitingOK'
      BY <2>0 DEF Begin, WaitingOK, TypeOK
    <2> QED
      BY <1>1, <2>2, <2>3 DEF DeductForRide, TypeOK
  <1>2. ASSUME NEW r \in RideIds, RefundForRide(w, r) PROVE TypeOK' /\ WaitingOK'
    <2> DEFINE key == <<"refund", r>>
    <2>1. key \in Keys \cup {None}
      BY DEF Keys
    <2>0. Begin(w, "RIDE_REFUND", 1, 0, key, None)
      BY <1>2 DEF RefundForRide
    <2> HIDE DEF key
    <2>2. call' \in [Workers -> Waiting \cup {Idle}]
      BY <1>0, <2>0, <2>1, BeginType
    <2>3. WaitingOK'
      BY <2>0 DEF Begin, WaitingOK, TypeOK
    <2> QED
      BY <1>2, <2>2, <2>3 DEF RefundForRide, TypeOK
  <1>3. ASSUME NEW p \in PurchaseIds, GrantPurchase(w, p) PROVE TypeOK' /\ WaitingOK'
    <2> DEFINE key == <<"grant", p>>
    <2>1. key \in Keys \cup {None} /\ key \in {"grant"} \X PurchaseIds
      BY DEF Keys
    <2>0. Begin(w, "PURCHASE_GRANT", PackageRides, 0, key, now + 1)
      BY <1>3 DEF GrantPurchase
    <2> HIDE DEF key
    <2>2. call' \in [Workers -> Waiting \cup {Idle}]
      BY <1>0, <2>0, <2>1, BeginType
    <2>3. WaitingOK'
      BY <1>0, <2>0, <2>1 DEF Begin, WaitingOK, TypeOK
    <2> QED
      BY <1>3, <2>2, <2>3 DEF GrantPurchase, TypeOK
  <1>4. ASSUME NEW a \in Adjustments, AdminGrant(w, a) PROVE TypeOK' /\ WaitingOK'
    <2>1. a[1] \in Int /\ a[2] \in Int
      BY LedgerAssumption
    <2>2. call' \in [Workers -> Waiting \cup {Idle}]
      BY <1>0, <1>4, <2>1, BeginType DEF AdminGrant
    <2>3. WaitingOK'
      BY <1>4 DEF AdminGrant, Begin, WaitingOK, TypeOK
    <2> QED
      BY <1>4, <2>2, <2>3 DEF AdminGrant, TypeOK
  <1>5. ASSUME GrantFreeTrialIfEligible(w) PROVE TypeOK' /\ WaitingOK'
    <2> DEFINE key == <<"freetrial", None>>
    <2>1. key \in Keys \cup {None}
      BY DEF Keys
    <2>0. Begin(w, "BONUS_GRANT", PackageRides, PackageBonus, key, now + 1)
      BY <1>5 DEF GrantFreeTrialIfEligible
    <2> HIDE DEF key
    <2>2. call' \in [Workers -> Waiting \cup {Idle}]
      BY <1>0, <2>0, <2>1, BeginType
    <2>3. WaitingOK'
      BY <1>0, <2>0 DEF Begin, WaitingOK, TypeOK
    <2> QED
      BY <1>5, <2>2, <2>3 DEF GrantFreeTrialIfEligible, TypeOK
  <1> QED
    BY <1>1, <1>2, <1>3, <1>4, <1>5 DEF Arrival

\* The steps of a call in flight.
LEMMA BaseProgress ==
    ASSUME TypeOK, WaitingOK, NEW w \in Workers, Progress(w)
    PROVE  TypeOK' /\ WaitingOK'
  <1>1. ASSUME Deduct(w) PROVE TypeOK' /\ WaitingOK'
    <2> DEFINE c == call[w]
    <2>1. c.pc # "idle"
      BY <1>1 DEF Deduct
    <2>2. Return(w) /\ WaitingOK'
      BY <1>1 DEF Deduct, Return, WaitingOK, TypeOK
    <2>3. ledger' \in Seq(Entry) /\ balance' \in Balance \cup {None}
      <3>1. CASE UNCHANGED <<ledger, balance>>
        BY <3>1 DEF TypeOK
      <3>2. ASSUME balance # None,
                   NEW dr \in Int, NEW db \in Int,
                   Write(c.type, dr, db, Plus(balance, dr, db), c.key, None)
            PROVE  ledger' \in Seq(Entry) /\ balance' \in Balance \cup {None}
        <4>1. balance \in Balance
          BY <3>2 DEF TypeOK
        <4> QED
          BY <2>1, <3>2, <4>1, PlusType, CallType, WriteType
      <3> QED
        <4>1. CASE /\ balance # None
                   /\ \/ Write(c.type, -1, 0, Plus(balance, -1, 0), c.key, None)
                      \/ Write(c.type, 0, -1, Plus(balance, 0, -1), c.key, None)
          BY <3>2, <4>1
        <4> QED
          BY <1>1, <3>1, <4>1 DEF Deduct
    <2> QED
      BY <1>1, <2>2, <2>3, ReturnType DEF Deduct, TypeOK
  <1>2. ASSUME Credit(w) PROVE TypeOK' /\ WaitingOK'
    <2> DEFINE c == call[w]
    <2>1. c.pc # "idle" /\ balance \in Balance
      BY <1>2 DEF Credit, TypeOK
    <2>2. CASE Return(w) /\ UNCHANGED <<ledger, balance>>
      BY <1>2, <2>2, ReturnType DEF Credit, Return, WaitingOK, TypeOK
    <2>3. CASE /\ Write(c.type, c.rides, c.bonus,
                        Plus(balance, c.rides, c.bonus), c.key, c.expires)
               /\ AfterGrant(w)
      <3>1. ledger' \in Seq(Entry) /\ balance' \in Balance \cup {None}
        BY <2>1, <2>3, PlusType, CallType, WriteType
      <3>2. call' \in [Workers -> Waiting \cup {Idle}] /\ WaitingOK'
        BY <2>1, <2>3, AfterGrantType
      <3> QED
        BY <1>2, <3>1, <3>2 DEF Credit, TypeOK
    <2> QED
      BY <1>2, <2>2, <2>3 DEF Credit
  <1>3. ASSUME FindNoRow(w) PROVE TypeOK' /\ WaitingOK'
    <2>1. call[w] \in Waiting
      BY <1>3, CallType DEF FindNoRow
    <2>2. [call[w] EXCEPT !.pc = "insert"] \in Waiting
      BY <2>1 DEF Waiting
    <2>3. call' = [call EXCEPT ![w] = [call[w] EXCEPT !.pc = "insert"]]
      BY <1>3 DEF FindNoRow
    <2>4. WaitingOK'
      BY <1>3, <2>1, <2>3 DEF FindNoRow, WaitingOK, TypeOK, Waiting, Idle
    <2> QED
      BY <1>3, <2>2, <2>3, <2>4 DEF FindNoRow, TypeOK
  <1>4. ASSUME CreditFirst(w) PROVE TypeOK' /\ WaitingOK'
    <2> DEFINE c == call[w]
    <2>1. c.pc # "idle"
      BY <1>4 DEF CreditFirst
    <2>2. CASE Return(w) /\ UNCHANGED <<ledger, balance>>
      BY <1>4, <2>2, ReturnType DEF CreditFirst, Return, WaitingOK, TypeOK
    <2>3. CASE /\ Write(c.type, c.rides, c.bonus,
                        Plus(Zero, c.rides, c.bonus), c.key, c.expires)
               /\ AfterGrant(w)
      <3>1. ledger' \in Seq(Entry) /\ balance' \in Balance \cup {None}
        BY <2>1, <2>3, PlusType, ZeroType, CallType, WriteType
      <3>2. call' \in [Workers -> Waiting \cup {Idle}] /\ WaitingOK'
        BY <2>1, <2>3, AfterGrantType
      <3> QED
        BY <1>4, <3>1, <3>2 DEF CreditFirst, TypeOK
    <2> QED
      BY <1>4, <2>2, <2>3 DEF CreditFirst
  <1>5. ASSUME Rollback(w) PROVE TypeOK' /\ WaitingOK'
    BY <1>5, ReturnType DEF Rollback, Return, WaitingOK, TypeOK
  <1> QED
    BY <1>1, <1>2, <1>3, <1>4, <1>5 DEF Progress

\* Every step keeps the types.
LEMMA BaseNext ==
    TypeOK /\ WaitingOK /\ [Next]_vars => TypeOK' /\ WaitingOK'
  <1> SUFFICES ASSUME TypeOK, WaitingOK, [Next]_vars
               PROVE  TypeOK' /\ WaitingOK'
    OBVIOUS
  <1>1. ASSUME NEW w \in Workers, Arrival(w) \/ Progress(w)
        PROVE  TypeOK' /\ WaitingOK'
    BY <1>1, BaseArrival, BaseProgress
  <1>2. ASSUME NEW a \in Adjustments, AdminRevoke(a)
        PROVE  TypeOK' /\ WaitingOK'
    <2> DEFINE after == [rides |-> Floor(balance.rides - a[1]),
                         bonus |-> Floor(balance.bonus - a[2])]
    <2>1. balance \in Balance /\ a[1] \in Int /\ a[2] \in Int
      BY <1>2, LedgerAssumption DEF AdminRevoke, TypeOK
    <2>2. /\ Floor(balance.rides - a[1]) \in Nat
          /\ Floor(balance.bonus - a[2]) \in Nat
      BY FloorType
    <2> HIDE DEF after
    <2>3. after \in Balance
      BY <2>2 DEF after, Balance
    <2>4. /\ after.rides - balance.rides \in Int
          /\ after.bonus - balance.bonus \in Int
      BY <2>1, <2>3 DEF Balance
    <2>5. Write("ADMIN_REVOKE", after.rides - balance.rides,
                after.bonus - balance.bonus, after, None, None)
      BY <1>2 DEF AdminRevoke, after
    <2>6. ledger' \in Seq(Entry) /\ balance' \in Balance \cup {None}
      BY <2>3, <2>4, <2>5, WriteType DEF EntryType
    <2> QED
      BY <1>2, <2>6 DEF AdminRevoke, TypeOK, WaitingOK
  <1>3. ASSUME SweepSnapshot PROVE TypeOK' /\ WaitingOK'
    BY <1>3 DEF SweepSnapshot, TypeOK, WaitingOK, Sweeping
  <1>4. ASSUME SweepSum PROVE TypeOK' /\ WaitingOK'
    <2> DEFINE new == [rides |-> Floor(GrantedRides - UsedRides),
                       bonus |-> Floor(GrantedBonus - UsedBonus)]
    <2>1. new \in [rides : Nat, bonus : Nat]
      BY FloorType
    <2> HIDE DEF new
    <2> DEFINE lapsed == \/ new.rides < sweep.seen.rides
                         \/ new.bonus < sweep.seen.bonus
    <2>2. sweep' = [sweep EXCEPT !.pc = IF lapsed THEN "write" ELSE "idle",
                                 !.seen = IF lapsed THEN @ ELSE Zero,
                                 !.new = IF lapsed THEN new ELSE Zero]
      BY <1>4 DEF SweepSum, new
    <2> HIDE DEF lapsed
    <2>3. sweep' \in Sweeping
      BY <2>1, <2>2, ZeroType DEF TypeOK, Sweeping
    <2> QED
      BY <1>4, <2>3 DEF SweepSum, TypeOK, WaitingOK
  <1>5. ASSUME SweepWrite PROVE TypeOK' /\ WaitingOK'
    <2>1. /\ sweep.new \in Balance
          /\ sweep.new.rides - sweep.seen.rides \in Int
          /\ sweep.new.bonus - sweep.seen.bonus \in Int
      BY DEF TypeOK, Sweeping, Balance
    <2>2. ledger' \in Seq(Entry) /\ balance' \in Balance \cup {None}
      BY <1>5, <2>1, WriteType DEF SweepWrite, EntryType
    <2>3. sweep' \in Sweeping
      BY <1>5, ZeroType DEF SweepWrite, Sweeping
    <2> QED
      BY <1>5, <2>2, <2>3 DEF SweepWrite, TypeOK, WaitingOK
  <1>6. ASSUME Tick PROVE TypeOK' /\ WaitingOK'
    BY <1>6 DEF Tick, TypeOK, WaitingOK
  <1>7. ASSUME UNCHANGED vars PROVE TypeOK' /\ WaitingOK'
    BY <1>7 DEF vars, TypeOK, WaitingOK
  <1> QED
    BY <1>1, <1>2, <1>3, <1>4, <1>5, <1>6, <1>7 DEF Next

\* Every reachable state is type-correct.
THEOREM TypeCorrect == Spec => []TypeOK
  <1>1. Spec => [](TypeOK /\ WaitingOK)
    BY BaseInit, BaseNext, PTL DEF Spec
  <1> QED
    BY <1>1, PTL

-----------------------------------------------------------------------------
(* The properties of the ledger.                                           *)

\* What a transaction must know of the entry it appends, and of the balance
\* it found, for the properties to survive it.
Sound(type, rides, bonus, after, key) ==
    /\ key = None \/ ~Recorded(key)
    /\ after.rides < 0 =>
           \/ balance # None /\ balance.rides < 0
           \/ type = "ADMIN_GRANT" /\ rides < 0
    /\ after.bonus < 0 =>
           \/ balance # None /\ balance.bonus < 0
           \/ type = "ADMIN_GRANT" /\ bonus < 0
    /\ type = "RIDE_DEDUCTION" =>
           /\ balance # None
           /\ balance.rides + balance.bonus = after.rides + after.bonus + 1
    /\ \/ balance # None /\ after = Plus(balance, rides, bonus)
       \/ /\ type = "EXPIRY"
          /\ \E j \in DOMAIN ledger :
                 after = Plus(ledger[j].after, rides, bonus)
       \/ /\ type \notin {"RIDE_DEDUCTION", "ADMIN_REVOKE", "EXPIRY"}
          /\ after = Plus(Zero, rides, bonus)

\* A sound transaction keeps the properties, and what the sweep has seen.
LEMMA WriteKeepsInv ==
    ASSUME IInv,
           NEW type \in EntryType, NEW rides \in Int, NEW bonus \in Int,
           NEW after \in Balance, NEW key \in Keys \cup {None},
           NEW expires \in Nat \cup {None},
           Write(type, rides, bonus, after, key, expires),
           Sound(type, rides, bonus, after, key)
    PROVE  /\ CacheIsNewestEntry' /\ NoOverdraft' /\ EachEventOnce'
           /\ DeductionTakesOneCredit' /\ BalanceFollowsEntries'
           /\ UNCHANGED sweep => SeenOK'
  <1> DEFINE e == Written(type, rides, bonus, after, key, expires)
             n == Len(ledger)
  <1>1. e \in Entry /\ ledger \in Seq(Entry)
    BY DEF Written, Entry, IInv, TypeOK
  <1>2. /\ e.type = type /\ e.rides = rides /\ e.bonus = bonus
        /\ e.after = after /\ e.key = key
    BY DEF Written
  <1>3. ledger' = Append(ledger, e) /\ balance' = after
    BY DEF Write, Written
  <1> HIDE DEF e
  <1>4. /\ n \in Nat /\ Len(ledger') = n + 1 /\ ledger' # <<>>
        /\ DOMAIN ledger' = 1..(n + 1) /\ DOMAIN ledger = 1..n
        /\ \A i \in 1..n : ledger'[i] = ledger[i]
        /\ ledger'[n + 1] = e
    BY <1>1, <1>3, AppendFacts
  <1>5. balance # None => n \in 1..n /\ balance = ledger[n].after
    <2>1. ledger = <<>> <=> n = 0
      BY <1>1
    <2> QED
      BY <1>4, <2>1 DEF IInv, CacheIsNewestEntry
  <1>6. CacheIsNewestEntry'
    BY <1>2, <1>3, <1>4 DEF CacheIsNewestEntry
  <1>7. NoOverdraft'
    <2>1. ASSUME NEW i \in 1..(n + 1), ledger'[i].after.rides < 0
          PROVE  \E j \in 1..i : /\ ledger'[j].type = "ADMIN_GRANT"
                                 /\ ledger'[j].rides < 0
      <3>1. CASE i \in 1..n
        BY <1>4, <2>1, <3>1 DEF IInv, NoOverdraft
      <3>2. CASE i = n + 1 /\ type = "ADMIN_GRANT" /\ rides < 0
        BY <1>2, <1>4, <3>2
      <3>3. CASE i = n + 1 /\ balance # None /\ balance.rides < 0
        <4>1. n \in 1..n /\ ledger[n].after.rides < 0
          BY <1>5, <3>3
        <4>2. PICK j \in 1..n : /\ ledger[j].type = "ADMIN_GRANT"
                                /\ ledger[j].rides < 0
          BY <1>4, <4>1 DEF IInv, NoOverdraft
        <4> QED
          BY <1>4, <3>3, <4>2
      <3> QED
        BY <1>2, <1>4, <2>1, <3>1, <3>2, <3>3 DEF Sound
    <2>2. ASSUME NEW i \in 1..(n + 1), ledger'[i].after.bonus < 0
          PROVE  \E j \in 1..i : /\ ledger'[j].type = "ADMIN_GRANT"
                                 /\ ledger'[j].bonus < 0
      <3>1. CASE i \in 1..n
        BY <1>4, <2>2, <3>1 DEF IInv, NoOverdraft
      <3>2. CASE i = n + 1 /\ type = "ADMIN_GRANT" /\ bonus < 0
        BY <1>2, <1>4, <3>2
      <3>3. CASE i = n + 1 /\ balance # None /\ balance.bonus < 0
        <4>1. n \in 1..n /\ ledger[n].after.bonus < 0
          BY <1>5, <3>3
        <4>2. PICK j \in 1..n : /\ ledger[j].type = "ADMIN_GRANT"
                                /\ ledger[j].bonus < 0
          BY <1>4, <4>1 DEF IInv, NoOverdraft
        <4> QED
          BY <1>4, <3>3, <4>2
      <3> QED
        BY <1>2, <1>4, <2>2, <3>1, <3>2, <3>3 DEF Sound
    <2> QED
      BY <1>4, <2>1, <2>2 DEF NoOverdraft
  <1>8. EachEventOnce'
    <2> SUFFICES ASSUME NEW i \in 1..(n + 1), NEW j \in 1..(n + 1),
                        ledger'[i].key # None,
                        ledger'[i].key = ledger'[j].key
                 PROVE  i = j
      BY <1>4 DEF EachEventOnce
    <2>1. CASE i \in 1..n /\ j \in 1..n
      BY <1>4, <2>1 DEF IInv, EachEventOnce
    <2>2. CASE i = n + 1 \/ j = n + 1
      <3>1. key = None \/ \A k \in 1..n : ledger[k].key # key
        BY <1>4 DEF Sound, Recorded
      <3> QED
        BY <1>2, <1>4, <2>2, <3>1
    <2> QED
      BY <1>4, <2>1, <2>2
  <1>9. DeductionTakesOneCredit'
    <2> SUFFICES ASSUME NEW i \in 1..(n + 1),
                        ledger'[i].type = "RIDE_DEDUCTION"
                 PROVE  /\ i > 1
                        /\ ledger'[i - 1].after.rides
                               + ledger'[i - 1].after.bonus
                             = ledger'[i].after.rides
                                 + ledger'[i].after.bonus + 1
      BY <1>4 DEF DeductionTakesOneCredit
    <2>1. CASE i \in 1..n
      <3>1. i > 1 /\ i - 1 \in 1..n
        BY <1>4, <2>1 DEF IInv, DeductionTakesOneCredit
      <3> QED
        BY <1>4, <2>1, <3>1 DEF IInv, DeductionTakesOneCredit
    <2>2. CASE i = n + 1
      <3>1. type = "RIDE_DEDUCTION"
        BY <1>2, <1>4, <2>2
      <3>2. n \in 1..n /\ balance = ledger[n].after
        BY <1>5, <3>1 DEF Sound
      <3>3. i > 1 /\ i - 1 = n
        BY <1>4, <2>2, <3>2
      <3> QED
        BY <1>2, <1>4, <2>2, <3>1, <3>2, <3>3 DEF Sound
    <2> QED
      BY <1>4, <2>1, <2>2
  <1>10. BalanceFollowsEntries'
    <2> SUFFICES ASSUME NEW i \in 1..(n + 1)
                 PROVE  \/ i > 1 /\ Continues(i, ledger[i - 1].after)'
                        \/ Overtaken(i)' \/ StartsFromNothing(i)'
      BY <1>4 DEF BalanceFollowsEntries
    <2>1. CASE i \in 1..n
      <3>1. ledger'[i] = ledger[i] /\ (i > 1 => ledger'[i - 1] = ledger[i - 1])
        BY <1>4, <2>1
      <3>2. \A j \in 1..(i - 1) : ledger'[j] = ledger[j]
        BY <1>4, <2>1
      <3>3. \/ i > 1 /\ Continues(i, ledger[i - 1].after)
            \/ Overtaken(i) \/ StartsFromNothing(i)
        BY <1>4, <2>1 DEF IInv, BalanceFollowsEntries
      <3> QED
        BY <3>1, <3>2, <3>3 DEF Continues, Overtaken, StartsFromNothing
    <2>2. CASE i = n + 1
      <3>1. /\ ledger'[i].type = type /\ ledger'[i].after = after
            /\ ledger'[i].rides = rides /\ ledger'[i].bonus = bonus
        BY <1>2, <1>4, <2>2
      <3>2. CASE balance # None /\ after = Plus(balance, rides, bonus)
        <4>1. n \in 1..n /\ balance = ledger[n].after
          BY <1>5, <3>2
        <4>2. i > 1 /\ ledger'[i - 1] = ledger[n]
          BY <1>4, <2>2, <4>1
        <4> QED
          BY <3>1, <3>2, <4>1, <4>2 DEF Continues
      <3>3. CASE /\ type = "EXPIRY"
                 /\ \E j \in DOMAIN ledger :
                        after = Plus(ledger[j].after, rides, bonus)
        <4>1. PICK j \in 1..n : after = Plus(ledger[j].after, rides, bonus)
          BY <1>4, <3>3
        <4>2. j \in 1..(i - 1) /\ ledger'[j] = ledger[j]
          BY <1>4, <2>2
        <4> QED
          BY <3>1, <3>3, <4>1, <4>2 DEF Overtaken, Continues
      <3>4. CASE /\ type \notin {"RIDE_DEDUCTION", "ADMIN_REVOKE", "EXPIRY"}
                 /\ after = Plus(Zero, rides, bonus)
        BY <3>1, <3>4 DEF StartsFromNothing, Continues
      <3> QED
        BY <3>2, <3>3, <3>4 DEF Sound
    <2> QED
      BY <1>4, <2>1, <2>2
  <1>11. UNCHANGED sweep => SeenOK'
    BY <1>4 DEF IInv, SeenOK
  <1> QED
    BY <1>6, <1>7, <1>8, <1>9, <1>10, <1>11

\* A step that writes nothing.
LEMMA QuietKeepsInv ==
    ASSUME IInv, UNCHANGED <<ledger, balance>>
    PROVE  /\ CacheIsNewestEntry' /\ NoOverdraft' /\ EachEventOnce'
           /\ DeductionTakesOneCredit' /\ BalanceFollowsEntries'
           /\ UNCHANGED sweep => SeenOK'
  BY DEF IInv, CacheIsNewestEntry, NoOverdraft, EachEventOnce, SeenOK,
         DeductionTakesOneCredit, BalanceFollowsEntries, Continues, Overtaken,
         StartsFromNothing

\* IInv holds initially ...
LEMMA InvInit == Init => IInv
  <1> SUFFICES ASSUME Init PROVE IInv
    OBVIOUS
  <1>1. ledger = <<>> /\ balance = None /\ DOMAIN ledger = {}
    BY DEF Init
  <1> QED
    BY <1>1, BaseInit DEF Init, IInv, CacheIsNewestEntry, NoOverdraft, SeenOK,
       EachEventOnce, DeductionTakesOneCredit, BalanceFollowsEntries

\* ... every step keeps it ...
LEMMA InvNext == IInv /\ [Next]_vars => IInv'
  <1> SUFFICES ASSUME IInv, [Next]_vars PROVE IInv'
    OBVIOUS
  <1> DEFINE Kept == /\ CacheIsNewestEntry' /\ NoOverdraft' /\ EachEventOnce'
                     /\ DeductionTakesOneCredit' /\ BalanceFollowsEntries'
                     /\ SeenOK'
  <1>0. TypeOK /\ WaitingOK /\ TypeOK' /\ WaitingOK'
    BY BaseNext DEF IInv
  <1>1. ASSUME NEW w \in Workers, Arrival(w) PROVE Kept
    <2>1. UNCHANGED <<ledger, balance, sweep>>
      BY <1>1 DEF Arrival, DeductForRide, RefundForRide, GrantPurchase,
                  AdminGrant, GrantFreeTrialIfEligible
    <2> QED
      BY <2>1, QuietKeepsInv
  <1>2. ASSUME NEW w \in Workers, Deduct(w) PROVE Kept
    <2> DEFINE c == call[w]
    <2>1. c.key \in Keys \cup {None} /\ c.type = "RIDE_DEDUCTION"
      BY <1>0, <1>2, CallType DEF Deduct
    <2>0. UNCHANGED sweep
      BY <1>2 DEF Deduct
    <2> DEFINE refused == \/ balance = None \/ Recorded(c.key)
                          \/ balance.rides + balance.bonus <= 0
    <2>2. CASE refused
      <3>1. UNCHANGED <<ledger, balance>>
        BY <1>2, <2>2 DEF Deduct
      <3> QED
        BY <2>0, <3>1, QuietKeepsInv
    <2>3. CASE ~refused
      <3>1. /\ balance # None /\ ~Recorded(c.key)
            /\ ~(balance.rides + balance.bonus <= 0)
            /\ IF balance.rides > 0
               THEN Write(c.type, -1, 0, Plus(balance, -1, 0), c.key, None)
               ELSE Write(c.type, 0, -1, Plus(balance, 0, -1), c.key, None)
        BY <1>2, <2>3 DEF Deduct
      <3>0. /\ c.type \in EntryType /\ -1 \in Int /\ 0 \in Int
            /\ None \in Nat \cup {None}
        BY <2>1 DEF EntryType
      <3>2. balance \in Balance
        BY <1>0, <3>1 DEF TypeOK
      <3>3. CASE balance.rides > 0
        <4>1. Sound(c.type, -1, 0, Plus(balance, -1, 0), c.key)
          BY <2>1, <3>1, <3>2, <3>3 DEF Sound, Plus, Balance
        <4> QED
          BY <2>0, <2>1, <3>0, <3>1, <3>2, <3>3, <4>1, PlusType, WriteKeepsInv
      <3>4. CASE ~(balance.rides > 0)
        <4>1. Sound(c.type, 0, -1, Plus(balance, 0, -1), c.key)
          BY <2>1, <3>1, <3>2, <3>4 DEF Sound, Plus, Balance
        <4> QED
          BY <2>0, <2>1, <3>0, <3>1, <3>2, <3>4, <4>1, PlusType, WriteKeepsInv
      <3> QED
        BY <3>3, <3>4
    <2> QED
      BY <2>2, <2>3
  <1>3. ASSUME NEW w \in Workers, Credit(w) PROVE Kept
    <2> DEFINE c == call[w]
               after == Plus(balance, c.rides, c.bonus)
    <2>0. UNCHANGED sweep
      BY <1>3 DEF Credit
    <2>1. CASE UNCHANGED <<ledger, balance>>
      BY <2>0, <2>1, QuietKeepsInv
    <2>2. CASE /\ ~Recorded(c.key) \/ c.key = None
               /\ Write(c.type, c.rides, c.bonus, after, c.key, c.expires)
      <3>1. balance \in Balance /\ balance # None
        BY <1>0, <1>3 DEF Credit, TypeOK
      <3>2. /\ c.rides \in Int /\ c.bonus \in Int /\ c.type \in EntryType
            /\ c.key \in Keys \cup {None} /\ c.expires \in Nat \cup {None}
            /\ c.type # "RIDE_DEDUCTION" /\ c # Idle
        BY <1>0, <1>3, CallType DEF Credit
      <3>3. c.rides < 0 \/ c.bonus < 0 => c.type = "ADMIN_GRANT"
        BY <1>0, <3>2 DEF WaitingOK
      <3>4. /\ after \in Balance
            /\ after.rides = balance.rides + c.rides
            /\ after.bonus = balance.bonus + c.bonus
            /\ after = Plus(balance, c.rides, c.bonus)
        BY <3>1, <3>2, PlusType DEF Plus
      <3> HIDE DEF after
      <3>5. Sound(c.type, c.rides, c.bonus, after, c.key)
        BY <2>2, <3>1, <3>2, <3>3, <3>4 DEF Sound, Balance
      <3> QED
        BY <2>0, <2>2, <3>2, <3>4, <3>5, WriteKeepsInv
    <2> QED
      BY <1>3, <2>1, <2>2 DEF Credit
  <1>4. ASSUME NEW w \in Workers, CreditFirst(w) PROVE Kept
    <2> DEFINE c == call[w]
               after == Plus(Zero, c.rides, c.bonus)
    <2>0. UNCHANGED sweep
      BY <1>4 DEF CreditFirst
    <2>1. CASE UNCHANGED <<ledger, balance>>
      BY <2>0, <2>1, QuietKeepsInv
    <2>2. CASE /\ ~Recorded(c.key) \/ c.key = None
               /\ Write(c.type, c.rides, c.bonus, after, c.key, c.expires)
      <3>2. /\ c.rides \in Int /\ c.bonus \in Int /\ c.type \in EntryType
            /\ c.key \in Keys \cup {None} /\ c.expires \in Nat \cup {None}
            /\ c # Idle
        BY <1>0, <1>4, CallType DEF CreditFirst
      <3>3. c.rides < 0 \/ c.bonus < 0 => c.type = "ADMIN_GRANT"
        BY <1>0, <3>2 DEF WaitingOK
      <3>4. /\ after \in Balance /\ after.rides = c.rides
            /\ after.bonus = c.bonus
            /\ after = Plus(Zero, c.rides, c.bonus)
        BY <3>2, PlusType, ZeroType DEF Plus, Zero
      <3>5. c.type \notin {"RIDE_DEDUCTION", "ADMIN_REVOKE", "EXPIRY"}
        BY <1>0, <1>4, <3>2 DEF WaitingOK, CreditFirst
      <3> HIDE DEF after
      <3>6. Sound(c.type, c.rides, c.bonus, after, c.key)
        BY <2>2, <3>2, <3>3, <3>4, <3>5 DEF Sound
      <3> QED
        BY <2>0, <2>2, <3>2, <3>4, <3>6, WriteKeepsInv
    <2> QED
      BY <1>4, <2>1, <2>2 DEF CreditFirst
  <1>5. ASSUME NEW w \in Workers, FindNoRow(w) \/ Rollback(w) PROVE Kept
    BY <1>5, QuietKeepsInv DEF FindNoRow, Rollback
  <1>6. ASSUME NEW a \in Adjustments, AdminRevoke(a) PROVE Kept
    <2> DEFINE after == [rides |-> Floor(balance.rides - a[1]),
                         bonus |-> Floor(balance.bonus - a[2])]
    <2>1. balance \in Balance
      BY <1>0, <1>6 DEF AdminRevoke, TypeOK
    <2>2. after \in Balance /\ after.rides \in Nat /\ after.bonus \in Nat
      BY FloorType DEF Balance
    <2>3. Write("ADMIN_REVOKE", after.rides - balance.rides,
                after.bonus - balance.bonus, after, None, None)
      BY <1>6 DEF AdminRevoke
    <2>0. UNCHANGED sweep /\ balance # None
      BY <1>6 DEF AdminRevoke
    <2>6. after = Plus(balance, after.rides - balance.rides,
                       after.bonus - balance.bonus)
      BY <2>1, <2>2 DEF Plus, Balance
    <2> HIDE DEF after
    <2>4. Sound("ADMIN_REVOKE", after.rides - balance.rides,
                after.bonus - balance.bonus, after, None)
      BY <2>0, <2>2, <2>6 DEF Sound
    <2>5. /\ after.rides - balance.rides \in Int
          /\ after.bonus - balance.bonus \in Int
      BY <2>1, <2>2 DEF Balance
    <2> QED
      BY <2>0, <2>2, <2>3, <2>4, <2>5, WriteKeepsInv DEF EntryType
  <1>7. ASSUME SweepSnapshot \/ SweepSum \/ Tick PROVE Kept
    <2>0. UNCHANGED <<ledger, balance>>
      BY <1>7 DEF SweepSnapshot, SweepSum, Tick
    <2>1. SeenOK'
      <3>1. CASE SweepSnapshot
        <4>1. balance # None /\ ledger \in Seq(Entry) /\ sweep'.seen = balance
          BY <1>0, <3>1 DEF SweepSnapshot, TypeOK, Sweeping
        <4>2. Len(ledger) \in DOMAIN ledger /\ balance = ledger[Len(ledger)].after
          BY <4>1 DEF IInv, CacheIsNewestEntry
        <4> QED
          BY <2>0, <4>1, <4>2 DEF SeenOK
      <3>2. CASE SweepSum
        BY <1>0, <2>0, <3>2 DEF SweepSum, SeenOK, IInv, TypeOK, Sweeping
      <3>3. CASE Tick
        BY <3>3, QuietKeepsInv DEF Tick
      <3> QED
        BY <1>7, <3>1, <3>2, <3>3
    <2> QED
      BY <2>0, <2>1, QuietKeepsInv
  <1>8. ASSUME SweepWrite PROVE Kept
    <2>1. /\ sweep.new \in Balance
          /\ sweep.new.rides \in Nat /\ sweep.new.bonus \in Nat
          /\ sweep.new.rides - sweep.seen.rides \in Int
          /\ sweep.new.bonus - sweep.seen.bonus \in Int
      BY <1>0 DEF TypeOK, Sweeping, Balance
    <2>2. PICK j \in DOMAIN ledger : sweep.seen = ledger[j].after
      BY <1>8 DEF SweepWrite, IInv, SeenOK
    <2>3. sweep.new = Plus(sweep.seen, sweep.new.rides - sweep.seen.rides,
                           sweep.new.bonus - sweep.seen.bonus)
      BY <1>0 DEF TypeOK, Sweeping, Balance, Plus
    <2>4. Sound("EXPIRY", sweep.new.rides - sweep.seen.rides,
                sweep.new.bonus - sweep.seen.bonus, sweep.new, None)
      BY <2>1, <2>2, <2>3 DEF Sound
    <2>5. SeenOK'
      BY <1>8 DEF SweepWrite, SeenOK
    <2> QED
      BY <1>8, <2>1, <2>4, <2>5, WriteKeepsInv DEF SweepWrite, EntryType
  <1>9. CASE UNCHANGED vars
    <2>1. Kept
      BY <1>9, QuietKeepsInv DEF vars
    <2> QED
      BY <1>0, <2>1 DEF IInv
  <1>10. CASE Next
    <2>1. Kept
      BY <1>1, <1>2, <1>3, <1>4, <1>5, <1>6, <1>7, <1>8, <1>10
         DEF Next, Progress
    <2> QED
      BY <1>0, <2>1 DEF IInv
  <1> QED
    BY <1>9, <1>10

\* ... and so it holds always.
LEMMA Invariance == Spec => []IInv
  BY InvInit, InvNext, PTL DEF Spec

\* A negative balance is an admin's doing.
THEOREM NoOverdraftHolds == Spec => []NoOverdraft
  <1>1. IInv => NoOverdraft
    BY DEF IInv
  <1> QED
    BY <1>1, Invariance, PTL

\* No amount is lost but to an overtaken sweep or overlapping first credits.
THEOREM NoAmountLost == Spec => []BalanceFollowsEntries
  <1>1. IInv => BalanceFollowsEntries
    BY DEF IInv
  <1> QED
    BY <1>1, Invariance, PTL

\* No event is recorded twice.
THEOREM EventsOnce == Spec => []EachEventOnce
  <1>1. IInv => EachEventOnce
    BY DEF IInv
  <1> QED
    BY <1>1, Invariance, PTL

\* A deduction takes one credit.
THEOREM OneCreditEach == Spec => []DeductionTakesOneCredit
  <1>1. IInv => DeductionTakesOneCredit
    BY DEF IInv
  <1> QED
    BY <1>1, Invariance, PTL

=============================================================================
