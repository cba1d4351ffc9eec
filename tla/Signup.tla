------------------------------- MODULE Signup -------------------------------
(***************************************************************************)
(* Who owns a phone number: registration by one-time code, a change of     *)
(* number, deletion of an account (internal/auth).  A number is checked to *)
(* be free when the code is asked for, again when it is entered, and last  *)
(* by the UNIQUE index on users.phone_number; wrong codes are counted in   *)
(* Redis, read by one call and raised by another.  Other requests run      *)
(* between any two of these, and Redis may fail any of its calls.          *)
(*                                                                         *)
(* A code is right or wrong; bcrypt, SMS texts, the name and e-mail that   *)
(* wait for a registration, and the admin's separate ADMIN_DRIVER_VERIFY   *)
(* code are left out.                                                      *)
(***************************************************************************)
EXTENDS Naturals, FiniteSets, Absent

CONSTANTS Users, Phones,
          Forms,      \* requests in flight
          MaxTries    \* maxOTPAttempts

ASSUME SignupAssumption ==
    MaxTries \in Nat \ {0} /\ None \notin Phones /\ IsFiniteSet(Forms)

VARIABLES
    phone,    \* users.phone_number of each user; None: no row, or deleted
    otpMode,  \* cfg.OTPMode: who keeps the codes
    sent,     \* codes that can still be redeemed
    tries,    \* Redis otp:attempts:<phone>:<purpose>
    blind,    \* counters of which a call failed since they began
    form      \* requests in flight
signupVars == <<phone, otpMode, sent, tries, blind, form>>

Purposes == {"REGISTRATION", "PHONE_CHANGE"}
\* A code is found by number and purpose; Pindo keeps one per number.
Code(n, purpose) == IF otpMode = "self" THEN <<n, purpose>> ELSE <<n, "any">>
Taken(n) == \E u \in Users : phone[u] = n
NoForm == [pc |-> "idle", user |-> None, number |-> None]
FormTo(f, pc) == form' = [form EXCEPT ![f].pc = pc]
CloseForm(f) == form' = [form EXCEPT ![f] = NoForm]
PurposeOf(f) == IF form[f].user = None THEN "REGISTRATION" ELSE "PHONE_CHANGE"
Counter(f) == <<form[f].number, PurposeOf(f)>>
\* A phone change that Pindo checks counts nothing.
Counted(f) == otpMode = "self" \/ PurposeOf(f) = "REGISTRATION"

SignupInit ==
    /\ phone = [u \in Users |-> None]
    /\ otpMode \in {"self", "pindo_verify"}
    /\ sent = {}
    /\ tries = [k \in Phones \X Purposes |-> 0] /\ blind = {}
    /\ form = [f \in Forms |-> NoForm]

\* InitiateOTP for a registration: also of a number that is known already.
Register(n) ==
    /\ sent' = sent \cup {Code(n, "REGISTRATION")}
    /\ UNCHANGED <<phone, otpMode, tries, blind, form>>

\* RequestPhoneChange: the number must be free, now.
RequestPhoneChange(u, n) ==
    /\ phone[u] # None /\ ~Taken(n)
    /\ sent' = sent \cup {Code(n, "PHONE_CHANGE")}
    /\ UNCHANGED <<phone, otpMode, tries, blind, form>>

\* FindLatestOTP: codes lapse after otpExpiryMinutes.
CodeLapses(c) ==
    /\ c \in sent
    /\ sent' = sent \ {c}
    /\ UNCHANGED <<phone, otpMode, tries, blind, form>>

\* The counter lapses as long after the first wrong code.
AttemptsLapse(k) ==
    /\ tries[k] > 0
    /\ tries' = [tries EXCEPT ![k] = 0] /\ blind' = blind \ {k}
    /\ UNCHANGED <<phone, otpMode, sent, form>>

\* VerifyOTP and VerifyPhoneChange begin: the latter checks the number again.
EnterCode(f, u, n) ==
    /\ form[f] = NoForm
    /\ u # None => phone[u] # None /\ ~(\E v \in Users \ {u} : phone[v] = n)
    /\ form' = [form EXCEPT ![f] = [pc |-> "code", user |-> u, number |-> n]]
    /\ UNCHANGED <<phone, otpMode, sent, tries, blind>>

Fails(k) == blind' = blind \cup {k}

\* Mutant: the cap is not looked at.
MutReadAttempts(f) ==
    /\ form[f].pc = "code"
    /\ tries[Counter(f)] <= MaxTries + Cardinality(Forms)
    /\ FormTo(f, "try") /\ UNCHANGED blind
    /\ UNCHANGED <<phone, otpMode, sent, tries>>

\* The attempt cap. A GET that fails reads as no attempt (until the cap is
\* passed, which bounds the count).
ReadAttempts(f) ==
    LET k == Counter(f) IN
    /\ form[f].pc = "code"
    /\ \/ Counted(f) /\ tries[k] >= MaxTries /\ CloseForm(f) /\ UNCHANGED blind
       \/ (Counted(f) => tries[k] < MaxTries) /\ FormTo(f, "try") /\ UNCHANGED blind
       \/ /\ Counted(f) /\ tries[k] <= MaxTries
          /\ FormTo(f, "try") /\ Fails(k)
    /\ UNCHANGED <<phone, otpMode, sent, tries>>

\* The code, and the count of wrong ones: one that is not found at all counts
\* with Pindo only. A right one clears the counter; either call may fail.
CheckCode(f, right) ==
    LET k == Counter(f)
        c == Code(form[f].number, PurposeOf(f)) IN
    /\ form[f].pc = "try"
    /\ \/ otpMode = "self" /\ c \notin sent
          /\ CloseForm(f) /\ UNCHANGED <<tries, blind>>
       \/ /\ otpMode = "self" => c \in sent
          /\ ~right \/ c \notin sent
          /\ \/ Counted(f) /\ tries' = [tries EXCEPT ![k] = @ + 1] /\ UNCHANGED blind
             \/ Counted(f) /\ Fails(k) /\ UNCHANGED tries
             \/ ~Counted(f) /\ UNCHANGED <<tries, blind>>
          /\ CloseForm(f)
       \/ /\ right /\ c \in sent
          /\ \/ tries' = [tries EXCEPT ![k] = 0] /\ blind' = blind \ {k}
             \/ UNCHANGED <<tries, blind>>
          /\ FormTo(f, "used")
    /\ UNCHANGED <<phone, otpMode, sent>>

\* MarkOTPUsed is a statement of its own: until then the code works again.
MarkOTPUsed(f) ==
    /\ form[f].pc = "used"
    /\ sent' = sent \ {Code(form[f].number, PurposeOf(f))}
    /\ FormTo(f, IF form[f].user = None THEN "find" ELSE "swap")
    /\ UNCHANGED <<phone, otpMode, tries, blind>>

\* FindUserByPhone: known numbers sign in (module Sessions), others register.
FindUserByPhone(f) ==
    /\ form[f].pc = "find"
    /\ IF Taken(form[f].number) THEN CloseForm(f) ELSE FormTo(f, "create")
    /\ UNCHANGED <<phone, otpMode, sent, tries, blind>>

\* CreateUser; a second INSERT of the number breaks the UNIQUE index.
CreateUser(f) ==
    LET n == form[f].number IN
    /\ form[f].pc = "create"
    /\ \/ ~Taken(n) /\ \E u \in Users : phone[u] = None
                                        /\ phone' = [phone EXCEPT ![u] = n]
       \/ Taken(n) /\ UNCHANGED phone
    /\ CloseForm(f)
    /\ UNCHANGED <<otpMode, sent, tries, blind>>

\* UpdateUserPhone, of whatever account holds the id by now (a deleted one
\* too): only the UNIQUE index stands between two owners.
UpdateUserPhone(f) ==
    LET u == form[f].user
        n == form[f].number IN
    /\ form[f].pc = "swap"
    /\ phone' = IF \E v \in Users \ {u} : phone[v] = n THEN phone
                ELSE [phone EXCEPT ![u] = n]
    /\ CloseForm(f)
    /\ UNCHANGED <<otpMode, sent, tries, blind>>

\* DeleteAccount: AnonymizeUser gives the number back in one transaction.
DeleteAccount(u) ==
    /\ phone[u] # None
    /\ phone' = [phone EXCEPT ![u] = None]
    /\ UNCHANGED <<otpMode, sent, tries, blind, form>>

SignupNext ==
    \/ \E n \in Phones : Register(n)
    \/ \E u \in Users, n \in Phones : RequestPhoneChange(u, n)
    \/ \E c \in sent : CodeLapses(c)
    \/ \E k \in DOMAIN tries : AttemptsLapse(k)
    \/ \E f \in Forms, u \in Users \cup {None}, n \in Phones :
           EnterCode(f, u, n)
    \/ \E f \in Forms : \/ ReadAttempts(f)
                        \/ \E right \in BOOLEAN : CheckCode(f, right)
                        \/ MarkOTPUsed(f) \/ FindUserByPhone(f)
                        \/ CreateUser(f) \/ UpdateUserPhone(f)
    \/ \E u \in Users : DeleteAccount(u)

-----------------------------------------------------------------------------
\* "maxOTPAttempts locks a code after this many wrong guesses within its window"
\* (auth/service.go:33). The cap is read before the code is looked up and the
\* guess counted after it, so requests that run at once overrun it: by one less
\* than there are of them, never more, unless Redis failed a call meanwhile.
GuessesCapped ==
    \A k \in Phones \X Purposes :
        tries[k] <= MaxTries + Cardinality(Forms) - 1 \/ k \in blind
=============================================================================
