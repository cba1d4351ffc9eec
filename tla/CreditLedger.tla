---------------------------- MODULE CreditLedger ----------------------------
(***************************************************************************)
(* The ride-credit ledger of one driver and vehicle type                   *)
(* (internal/packages/ledger.go): an append-only table of entries, and the *)
(* driver_entitlements row that caches the balance.                        *)
(*                                                                         *)
(* A transaction that locks the cache row (SELECT ... FOR UPDATE) is one   *)
(* step from that lock to its commit.  What precedes the lock, and what a  *)
(* transaction does when there is no row to lock, are steps of their own.  *)
(* The hourly sweep locks nothing: it reads the cache, later sums the      *)
(* ledger, and later still overwrites the cache.                           *)
(***************************************************************************)
EXTENDS Integers, Sequences, SequencesExt

CONSTANTS
    RideIds, PurchaseIds,
    Workers,                       \* ledger calls in flight
    PackageRides, PackageBonus,    \* what a purchased package grants
    Adjustments,                   \* <<rides, bonus>> an admin may grant, revoke;
                                   \* one of the two may be negative
    MaxNow,                        \* bound on the clock
    MaxEntries,                    \* bound on the ledger
    None

ASSUME LedgerAssumption ==
    /\ PackageRides \in Nat \ {0} /\ PackageBonus \in Nat
    /\ Adjustments \subseteq {a \in Int \X Int : a[1] > 0 \/ a[2] > 0}
    /\ MaxNow \in Nat /\ MaxEntries \in Nat
    /\ None \notin Nat

VARIABLES
    ledger,         \* ride_credit_ledger, oldest first
    balance,        \* driver_entitlements: None, or [rides, bonus]
    call,           \* calls in flight
    sweep,          \* the sweep's local variables
    freeTrialUsed,  \* driver_profiles.free_trial_used
    now             \* a grant's expiry is a moment of this clock

vars == <<ledger, balance, call, sweep, freeTrialUsed, now>>

-----------------------------------------------------------------------------
EntryType == {"PURCHASE_GRANT", "BONUS_GRANT", "RIDE_DEDUCTION",
              "RIDE_REFUND", "ADMIN_GRANT", "ADMIN_REVOKE", "EXPIRY"}

\* idempotency_key: what the entry is for.  AdminGrant, AdminRevoke and the
\* sweep leave it NULL.
Keys == {"deduct", "refund"} \X RideIds
            \cup {"grant", "bonus"} \X PurchaseIds
            \cup {<<"freetrial", None>>}

Balance == [rides : Int, bonus : Int]
Entry == [type : EntryType, rides : Int, bonus : Int,   \* the two deltas
          after : Balance,                  \* balance_rides, balance_bonus
          key : Keys \cup {None},
          expires : Nat \cup {None}]

\* A call waiting to lock the cache row, or (insert) one that found no row
\* and therefore holds no lock.
Idle == [pc |-> "idle"]
Waiting == [pc : {"lock", "insert"}, type : EntryType, rides : Int,
            bonus : Int, key : Keys \cup {None}, expires : Nat \cup {None}]
Sweeping == [pc : {"idle", "sum", "write"}, seen : Balance,
             new : [rides : Nat, bonus : Nat]]

Recorded(key) == \E i \in DOMAIN ledger : ledger[i].key = key

Zero == [rides |-> 0, bonus |-> 0]
Plus(b, rides, bonus) == [rides |-> b.rides + rides, bonus |-> b.bonus + bonus]

\* Mutant: no floor.
MutFloor(n) == n

Floor(n) == IF n \in Nat THEN n ELSE 0

\* One committed transaction: the entry and the cache together.
Write(type, rides, bonus, after, key, expires) ==
    /\ Len(ledger) < MaxEntries
    /\ ledger' = Append(ledger, [type |-> type, rides |-> rides,
                                 bonus |-> bonus, after |-> after,
                                 key |-> key, expires |-> expires])
    /\ balance' = after

Begin(w, type, rides, bonus, key, expires) ==
    call' = [call EXCEPT ![w] = [pc |-> "lock", type |-> type,
                 rides |-> rides, bonus |-> bonus, key |-> key,
                 expires |-> expires]]

Return(w) == call' = [call EXCEPT ![w] = Idle]

\* GrantPurchase calls grant twice: the rides, then the bonus if there is one.
\* (Confirm runs both in one transaction; the other callers do not.)
AfterGrant(w) ==
    IF call[w].type = "PURCHASE_GRANT" /\ PackageBonus > 0
    THEN Begin(w, "BONUS_GRANT", 0, PackageBonus, <<"bonus", call[w].key[2]>>,
               call[w].expires)
    ELSE Return(w)

-----------------------------------------------------------------------------
Init ==
    /\ ledger = <<>>
    /\ balance = None
    /\ call = [w \in Workers |-> Idle]
    /\ sweep = [pc |-> "idle", seen |-> Zero, new |-> Zero]
    /\ freeTrialUsed = FALSE
    /\ now = 0

\* deductOne and refundOne first look for their key, without a lock.
DeductForRide(w, r) ==
    /\ call[w] = Idle /\ ~Recorded(<<"deduct", r>>)
    /\ Begin(w, "RIDE_DEDUCTION", 0, 0, <<"deduct", r>>, None)
    /\ UNCHANGED <<ledger, balance, sweep, freeTrialUsed, now>>

RefundForRide(w, r) ==
    /\ call[w] = Idle /\ ~Recorded(<<"refund", r>>)
    /\ Begin(w, "RIDE_REFUND", 1, 0, <<"refund", r>>, None)
    /\ UNCHANGED <<ledger, balance, sweep, freeTrialUsed, now>>

GrantPurchase(w, p) ==
    /\ call[w] = Idle
    /\ Begin(w, "PURCHASE_GRANT", PackageRides, 0, <<"grant", p>>, now + 1)
    /\ UNCHANGED <<ledger, balance, sweep, freeTrialUsed, now>>

AdminGrant(w, a) ==
    /\ call[w] = Idle
    /\ Begin(w, "ADMIN_GRANT", a[1], a[2], None, None)
    /\ UNCHANGED <<ledger, balance, sweep, freeTrialUsed, now>>

\* The claim of the trial commits on its own, before the grant.
GrantFreeTrialIfEligible(w) ==
    /\ call[w] = Idle /\ ~freeTrialUsed
    /\ freeTrialUsed' = TRUE
    /\ Begin(w, "BONUS_GRANT", PackageRides, PackageBonus,
             <<"freetrial", None>>, now + 1)
    /\ UNCHANGED <<ledger, balance, sweep, now>>

\* Mutant: no UNIQUE constraint behind the look-up.
MutDeductTwice(w) ==
    LET c == call[w] IN
    /\ c.pc = "lock" /\ c.type = "RIDE_DEDUCTION" /\ balance # None
    /\ balance.rides > 0
    /\ Write(c.type, -1, 0, Plus(balance, -1, 0), c.key, None)
    /\ Return(w)
    /\ UNCHANGED <<sweep, freeTrialUsed, now>>

\* Mutant: without the check of what is left.
MutDeduct(w) ==
    LET c == call[w] IN
    /\ c.pc = "lock" /\ c.type = "RIDE_DEDUCTION" /\ balance # None
    /\ ~Recorded(c.key)
    /\ Write(c.type, 0, -1, Plus(balance, 0, -1), c.key, None)
    /\ Return(w)
    /\ UNCHANGED <<sweep, freeTrialUsed, now>>

\* Mutant: one of each kind.
MutDeductBoth(w) ==
    LET c == call[w] IN
    /\ c.pc = "lock" /\ c.type = "RIDE_DEDUCTION" /\ balance # None
    /\ ~Recorded(c.key) /\ balance.rides > 0
    /\ Write(c.type, -1, -1, [rides |-> balance.rides - 1,
                             bonus |-> Floor(balance.bonus - 1)], c.key, None)
    /\ Return(w)
    /\ UNCHANGED <<sweep, freeTrialUsed, now>>

\* A call that locks the row and finds its key taken rolls back on the UNIQUE
\* constraint.  Otherwise deductOne spends paid rides first, then bonus rides;
\* with nothing to spend, or no row, it returns ErrNoCredits.
Deduct(w) ==
    LET c == call[w] IN
    /\ c.pc = "lock" /\ c.type = "RIDE_DEDUCTION"
    /\ IF \/ balance = None \/ Recorded(c.key)
          \/ balance.rides + balance.bonus <= 0
       THEN UNCHANGED <<ledger, balance>>
       ELSE IF balance.rides > 0
       THEN Write(c.type, -1, 0, Plus(balance, -1, 0), c.key, None)
       ELSE Write(c.type, 0, -1, Plus(balance, 0, -1), c.key, None)
    /\ Return(w)
    /\ UNCHANGED <<sweep, freeTrialUsed, now>>

\* grant and refundOne on a row they have locked.
Credit(w) ==
    LET c == call[w] IN
    /\ c.pc = "lock" /\ c.type # "RIDE_DEDUCTION" /\ balance # None
    /\ \/ /\ ~Recorded(c.key) \/ c.key = None
          /\ Write(c.type, c.rides, c.bonus, Plus(balance, c.rides, c.bonus),
                   c.key, c.expires)
          /\ AfterGrant(w)
       \/ /\ Recorded(c.key) /\ c.key # None
          /\ Return(w) /\ UNCHANGED <<ledger, balance>>
    /\ UNCHANGED <<sweep, freeTrialUsed, now>>

\* With no row there is nothing to lock: the balance is taken to be zero ...
FindNoRow(w) ==
    /\ call[w].pc = "lock" /\ call[w].type # "RIDE_DEDUCTION"
    /\ balance = None
    /\ call' = [call EXCEPT ![w].pc = "insert"]
    /\ UNCHANGED <<ledger, balance, sweep, freeTrialUsed, now>>

\* ... and still is when the upsert meets a row another call has inserted.
CreditFirst(w) ==
    LET c == call[w] IN
    /\ c.pc = "insert"
    /\ \/ /\ ~Recorded(c.key) \/ c.key = None
          /\ Write(c.type, c.rides, c.bonus, Plus(Zero, c.rides, c.bonus),
                   c.key, c.expires)
          /\ AfterGrant(w)
       \/ /\ Recorded(c.key) /\ c.key # None
          /\ Return(w) /\ UNCHANGED <<ledger, balance>>
    /\ UNCHANGED <<sweep, freeTrialUsed, now>>

\* The connection, the request or the server dies: the transaction rolls back.
Rollback(w) ==
    /\ call[w] # Idle
    /\ Return(w)
    /\ UNCHANGED <<ledger, balance, sweep, freeTrialUsed, now>>

\* Mutant: the entry has the amounts asked for, not those taken.
MutAdminRevoke(a) ==
    LET after == [rides |-> Floor(balance.rides - a[1]),
                  bonus |-> Floor(balance.bonus - a[2])] IN
    /\ balance # None /\ after # balance
    /\ Write("ADMIN_REVOKE", -a[1], -a[2], after, None, None)
    /\ UNCHANGED <<call, sweep, freeTrialUsed, now>>

\* adminAdjust, called with the amounts to take away: clamped at zero.
AdminRevoke(a) ==
    LET after == [rides |-> Floor(balance.rides - a[1]),
                  bonus |-> Floor(balance.bonus - a[2])] IN
    /\ balance # None /\ after # balance
    /\ Write("ADMIN_REVOKE", after.rides - balance.rides,
             after.bonus - balance.bonus, after, None, None)
    /\ UNCHANGED <<call, sweep, freeTrialUsed, now>>

-----------------------------------------------------------------------------
(* SweepExpired.                                                           *)

Sum(entries, Delta(_)) == FoldSeq(LAMBDA x, n : n + Delta(x), 0, entries)

Unexpired(x) == x.expires = None \/ x.expires > now

\* The sums of the sweep's SELECT, one for each kind of credit.
GrantedRides == Sum(ledger, LAMBDA x :
                        IF x.rides > 0 /\ Unexpired(x) THEN x.rides ELSE 0)
GrantedBonus == Sum(ledger, LAMBDA x :
                        IF x.bonus > 0 /\ Unexpired(x) THEN x.bonus ELSE 0)
UsedRides == Sum(ledger, LAMBDA x : IF x.rides < 0 THEN -x.rides ELSE 0)
UsedBonus == Sum(ledger, LAMBDA x : IF x.bonus < 0 THEN -x.bonus ELSE 0)

SweepSnapshot ==
    /\ sweep.pc = "idle" /\ balance # None
    /\ sweep' = [sweep EXCEPT !.pc = "sum", !.seen = balance]
    /\ UNCHANGED <<ledger, balance, call, freeTrialUsed, now>>

SweepSum ==
    LET new == [rides |-> Floor(GrantedRides - UsedRides),
                bonus |-> Floor(GrantedBonus - UsedBonus)]
        lapsed == new.rides < sweep.seen.rides \/ new.bonus < sweep.seen.bonus
    IN
    /\ sweep.pc = "sum"
    /\ sweep' = [sweep EXCEPT !.pc = IF lapsed THEN "write" ELSE "idle",
                              !.seen = IF lapsed THEN @ ELSE Zero,
                              !.new = IF lapsed THEN new ELSE Zero]
    /\ UNCHANGED <<ledger, balance, call, freeTrialUsed, now>>

\* The deltas are taken from the balance seen at the start, not from the one
\* that is overwritten.
SweepWrite ==
    /\ sweep.pc = "write"
    /\ Write("EXPIRY", sweep.new.rides - sweep.seen.rides,
             sweep.new.bonus - sweep.seen.bonus, sweep.new, None, None)
    /\ sweep' = [pc |-> "idle", seen |-> Zero, new |-> Zero]
    /\ UNCHANGED <<call, freeTrialUsed, now>>

Tick ==
    /\ now < MaxNow
    /\ now' = now + 1
    /\ UNCHANGED <<ledger, balance, call, sweep, freeTrialUsed>>

-----------------------------------------------------------------------------
Arrival(w) ==
    \/ \E r \in RideIds : DeductForRide(w, r) \/ RefundForRide(w, r)
    \/ \E p \in PurchaseIds : GrantPurchase(w, p)
    \/ \E a \in Adjustments : AdminGrant(w, a)
    \/ GrantFreeTrialIfEligible(w)

Progress(w) ==
    Deduct(w) \/ Credit(w) \/ FindNoRow(w) \/ CreditFirst(w) \/ Rollback(w)

Next ==
    \/ \E w \in Workers : Arrival(w) \/ Progress(w)
    \/ \E a \in Adjustments : AdminRevoke(a)
    \/ SweepSnapshot \/ SweepSum \/ SweepWrite
    \/ Tick

Spec == Init /\ [][Next]_vars

-----------------------------------------------------------------------------
(* Properties.                                                             *)

\* Every variable has its type.
TypeOK ==
    /\ ledger \in Seq(Entry)
    /\ balance \in Balance \cup {None}
    /\ call \in [Workers -> Waiting \cup {Idle}]
    /\ sweep \in Sweeping
    /\ freeTrialUsed \in BOOLEAN
    /\ now \in Nat

\* No interleaving of grants, deductions, refunds, revocations and sweeps ever
\* records a negative balance of either kind of credit, unless an admin has
\* granted a negative amount of that kind (the handler only asks that one of
\* the two amounts be positive).
NoOverdraft ==
    \A i \in DOMAIN ledger :
        /\ ledger[i].after.rides < 0 =>
               \E j \in 1..i : ledger[j].type = "ADMIN_GRANT" /\ ledger[j].rides < 0
        /\ ledger[i].after.bonus < 0 =>
               \E j \in 1..i : ledger[j].type = "ADMIN_GRANT" /\ ledger[j].bonus < 0

\* A ride is deducted at most once and refunded at most once, and a purchase
\* or the free trial is granted at most once, however calls are repeated.
EachEventOnce ==
    \A i, j \in DOMAIN ledger :
        ledger[i].key # None /\ ledger[i].key = ledger[j].key => i = j

\* A deduction takes exactly one credit, from the balance recorded just before
\* it: two drivers' devices cannot spend the same credit.
DeductionTakesOneCredit ==
    \A i \in DOMAIN ledger : ledger[i].type = "RIDE_DEDUCTION" =>
        /\ i > 1
        /\ LET before == ledger[i - 1].after
               after  == ledger[i].after IN
           before.rides + before.bonus = after.rides + after.bonus + 1

\* Entry i is what its amounts make of balance b.
Continues(i, b) == ledger[i].after = Plus(b, ledger[i].rides, ledger[i].bonus)

\* A sweep that other transactions overtook: it goes on from an older entry,
\* and undoes the balances recorded in between.
Overtaken(i) ==
    /\ ledger[i].type = "EXPIRY"
    /\ \E j \in 1..(i - 1) : Continues(i, ledger[j].after)

\* A credit whose transaction found no row to lock.
StartsFromNothing(i) ==
    /\ ledger[i].type \notin {"RIDE_DEDUCTION", "ADMIN_REVOKE", "EXPIRY"}
    /\ Continues(i, Zero)

\* No amount is lost between two entries, and so the balance is the sum of
\* what was granted, spent, refunded and revoked, whichever calls meet: except
\* that a sweep undoes what was recorded since its snapshot, and that first
\* credits which overlap do not add up.  A deduction or a revocation always
\* goes on from the entry before it.
BalanceFollowsEntries ==
    \A i \in DOMAIN ledger :
        \/ i > 1 /\ Continues(i, ledger[i - 1].after)
        \/ Overtaken(i) \/ StartsFromNothing(i)

\* An EXPIRY entry whose sweep raced with nothing: it continues the balance.
Undisturbed(i) ==
    ledger[i].type = "EXPIRY" /\ i > 1 /\ Continues(i, ledger[i - 1].after)

\* What SweepExpired's comment promises ("safe to run repeatedly"; an entry
\* "wherever credits have lapsed"): even counting only undisturbed sweeps,
\* they take away no more than the grants that have lapsed.
\* It does not hold: a sweep counts earlier EXPIRY entries as use.
SweepTakesOnlyLapsed ==
    LET taken == [i \in DOMAIN ledger |-> IF Undisturbed(i)
                     THEN -(ledger[i].rides + ledger[i].bonus) ELSE 0] IN
    Sum(taken, LAMBDA n : n)
        <= Sum(ledger, LAMBDA x : IF Unexpired(x) THEN 0
                                  ELSE x.rides + x.bonus)

=============================================================================
