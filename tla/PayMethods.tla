----------------------------- MODULE PayMethods -----------------------------
(***************************************************************************)
(* A customer's payment methods (internal/paymentmethods).  Insert, Update *)
(* and SetDefault are transactions that first demote the default they see, *)
(* then write their row; two unique indexes (migration 063) allow a user   *)
(* one default and one row for an idempotency key, and make the second of  *)
(* two overlapping transactions fail as a whole.                           *)
(*                                                                         *)
(* Labels and phone numbers are left out.                                  *)
(***************************************************************************)
EXTENDS Naturals, FiniteSets, Absent

CONSTANTS Methods,    \* rows a customer may add
          TapKeys,    \* idempotency keys
          Taps        \* requests

MethodRows == [default : BOOLEAN, key : TapKeys \cup {None}]

ASSUME PayMethodsAssumption == None \notin Methods \cup TapKeys \cup MethodRows

VARIABLES
    method,     \* customer_payment_methods
    tap         \* a request: what it wants, and its transaction
payMethodsVars == <<method, tap>>

NoTap == [pc |-> "idle", id |-> None, key |-> None, default |-> None,
          cleared |-> {}]
Rows == {m \in Methods : method[m] # None}
DefaultMethods == {m \in Rows : method[m].default}
FindByID(m) == m \in Rows
FindByIdempotencyKey(key) == key # None /\ \E m \in Rows : method[m].key = key
\* A row another transaction has written is waited for.
Locked(m) == \E c \in Taps : m \in tap[c].cleared

PayMethodsInit ==
    /\ method = [m \in Methods |-> None]
    /\ tap = [c \in Taps |-> NoTap]

TapBegins(c, pc, id, key, default) ==
    /\ tap[c].pc = "idle"
    /\ tap' = [tap EXCEPT ![c] =
          [pc |-> pc, id |-> id, key |-> key, default |-> default, cleared |-> {}]]
    /\ UNCHANGED method

-----------------------------------------------------------------------------
(* The handlers read first: the key, or the row they are about.             *)

\* A repeated key is answered with the list.
AddMethod(c) ==
    \E m \in Methods \ Rows, key \in TapKeys \cup {None}, default \in BOOLEAN :
        /\ ~FindByIdempotencyKey(key)
        /\ TapBegins(c, "insert", m, key, default)
UpdateMethod(c) ==
    \E m \in Methods, default \in BOOLEAN \cup {None} :
        FindByID(m) /\ TapBegins(c, "update", m, None, default)
SetDefaultMethod(c) ==
    \E m \in Methods : FindByID(m) /\ TapBegins(c, "update", m, None, TRUE)

DeleteMethod(m) ==
    /\ FindByID(m) /\ ~Locked(m)
    /\ method' = [method EXCEPT ![m] = None]
    /\ UNCHANGED tap

-----------------------------------------------------------------------------
(* The transaction.                                                         *)

\* UPDATE ... SET is_default = FALSE WHERE is_default (AND id <> ...)
ClearDefault(c) ==
    LET seen == IF tap[c].default = TRUE THEN DefaultMethods \ {tap[c].id}
                ELSE {} IN
    /\ tap[c].pc \in {"insert", "update"}
    /\ \A m \in seen : ~Locked(m)
    /\ tap' = [tap EXCEPT ![c].cleared = seen,
          ![c].pc = IF @ = "insert" THEN "commit_insert" ELSE "commit_update"]
    /\ UNCHANGED method

\* What the indexes refuse: another default, another row of the key.
Refused(c) ==
    LET t == tap[c] IN
    \/ t.default = TRUE /\ DefaultMethods \ (t.cleared \cup {t.id}) # {}
    \/ t.pc = "commit_insert" /\ (FindByIdempotencyKey(t.key) \/ t.id \in Rows)
Demoted(c) ==
    [m \in Methods |->
        IF m \in tap[c].cleared THEN [method[m] EXCEPT !.default = FALSE]
        ELSE method[m]]

\* Mutant: the old default is demoted whatever becomes of the insert.
MutInsertMethod(c) ==
    LET t == tap[c] IN
    /\ t.pc = "commit_insert"
    /\ method' = IF Refused(c) THEN Demoted(c)
                 ELSE [Demoted(c) EXCEPT ![t.id] =
                          [default |-> t.default, key |-> t.key]]
    /\ tap' = [tap EXCEPT ![c] = NoTap]

InsertMethod(c) ==
    LET t == tap[c] IN
    /\ t.pc = "commit_insert"
    /\ method' = IF Refused(c) THEN method
                 ELSE [Demoted(c) EXCEPT ![t.id] =
                          [default |-> t.default, key |-> t.key]]
    /\ tap' = [tap EXCEPT ![c] = NoTap]

\* A row that was deleted meanwhile is not found, and that is no error.
WriteMethod(c) ==
    LET t == tap[c] IN
    /\ t.pc = "commit_update"
    /\ ~(t.id \in Rows /\ Locked(t.id))
    /\ method' = IF t.id \notin Rows THEN Demoted(c)
                 ELSE IF t.default = None \/ Refused(c) THEN method
                 ELSE [Demoted(c) EXCEPT ![t.id].default = t.default]
    /\ tap' = [tap EXCEPT ![c] = NoTap]

PayMethodsNext ==
    \/ \E c \in Taps :
          \/ AddMethod(c) \/ UpdateMethod(c) \/ SetDefaultMethod(c)
          \/ ClearDefault(c) \/ InsertMethod(c) \/ WriteMethod(c)
    \/ \E m \in Methods : DeleteMethod(m)

-----------------------------------------------------------------------------
(* Properties.                                                              *)

\* A customer who has a default keeps having one, until it is deleted, is
\* demoted by name (Update), or is demoted for a method that was deleted
\* between the handler's read and its transaction (SetDefault); a refused
\* double tap leaves it alone (Insert).
DefaultKept ==
    [][DefaultMethods # {} /\ DefaultMethods' = {} =>
          \/ DefaultMethods \ Rows' # {}
          \/ \E c \in Taps :
                /\ tap[c].pc = "commit_update" /\ tap'[c].pc = "idle"
                /\ tap[c].default = FALSE \/ tap[c].id \notin Rows
      ]_payMethodsVars
=============================================================================
