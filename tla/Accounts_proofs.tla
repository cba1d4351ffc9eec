---------------------------- MODULE Accounts_proofs ----------------------------
(***************************************************************************)
(* Proofs about what the people who use the system have with it besides    *)
(* the rides, for any users, requests, tokens and calls.  Each part of     *)
(* MCAccounts has an inductive invariant of its own; a step of one leaves  *)
(* the variables of the others alone.                                      *)
(***************************************************************************)
EXTENDS MCAccounts, FiniteSetTheorems, TLAPS

-----------------------------------------------------------------------------
(* Signup.                                                                  *)

Counters == Phones \X Purposes
FormPoints == {"idle", "code", "try", "used", "find", "swap", "create"}
SignupForm == [pc : FormPoints, user : Users \cup {None},
               number : Phones \cup {None}]

\* The requests that have read a counter and have yet to raise it.
Guessing(k) ==
    {f \in Forms : form[f].pc = "try" /\ Counted(f) /\ Counter(f) = k}

\* A counter leaves room for the guesses under way: what may still be added to
\* it was read below the cap.
SignupInv ==
    /\ form \in [Forms -> SignupForm]
    /\ \A f \in Forms : form[f].pc # "idle" => form[f].number \in Phones
    /\ tries \in [Counters -> Nat]
    /\ \A k \in Counters :
           \/ k \in blind
           \/ tries[k] + Cardinality(Guessing(k)) <= MaxTries + Cardinality(Forms) - 1

\* The guesses under way are requests, of which there are finitely many.
LEMMA GuessingIsFinite ==
    /\ Cardinality(Forms) \in Nat
    /\ \A k : /\ IsFiniteSet(Guessing(k)) /\ Cardinality(Guessing(k)) \in Nat
              /\ Cardinality(Guessing(k)) <= Cardinality(Forms)
  <1>1. IsFiniteSet(Forms) /\ Cardinality(Forms) \in Nat
    BY SignupAssumption, FS_CardinalityType
  <1>2. ASSUME NEW k
        PROVE  /\ IsFiniteSet(Guessing(k)) /\ Cardinality(Guessing(k)) \in Nat
               /\ Cardinality(Guessing(k)) <= Cardinality(Forms)
    <2>1. Guessing(k) \subseteq Forms
      BY DEF Guessing
    <2> QED
      BY <1>1, <2>1, FS_Subset, FS_CardinalityType
  <1> QED
    BY <1>1, <1>2

\* Nobody has an account and no request is under way.
LEMMA SignupInvInit == SignupInit => SignupInv
  <1> SUFFICES ASSUME SignupInit PROVE SignupInv
    OBVIOUS
  <1>1. form = [f \in Forms |-> NoForm] /\ tries = [k \in Counters |-> 0]
    BY DEF SignupInit, Counters
  <1>2. NoForm \in SignupForm /\ NoForm.pc = "idle"
    BY DEF NoForm, SignupForm, FormPoints
  <1>3. ASSUME NEW k \in Counters
        PROVE  tries[k] + Cardinality(Guessing(k)) <= MaxTries + Cardinality(Forms) - 1
    <2>1. tries[k] = 0
      BY <1>1
    <2> QED
      BY <2>1, GuessingIsFinite, SignupAssumption
  <1> QED
    BY <1>1, <1>2, <1>3 DEF SignupInv

\* A step that moves one request, keeps the types, and adds to a counter only
\* what leaves its room, keeps the bound.
LEMMA GuessesRoom ==
    ASSUME SignupInv, SignupInv!1', SignupInv!2', SignupInv!3',
           \A k \in Counters \ blind' :
              \/ tries'[k] = 0
              \/ tries'[k] = tries[k] /\ k \notin blind /\ Guessing(k)' \subseteq Guessing(k)
              \/ tries'[k] < MaxTries
              \/ /\ tries'[k] = tries[k] + 1 /\ k \notin blind
                 /\ \E f \in Guessing(k) : Guessing(k)' \subseteq Guessing(k) \ {f}
    PROVE  SignupInv'
  <1>0. MaxTries \in Nat \ {0}
    BY SignupAssumption
  <1>1. ASSUME NEW k \in Counters, k \notin blind'
        PROVE  tries'[k] + Cardinality(Guessing(k)') <= MaxTries + Cardinality(Forms) - 1
    <2>0. /\ Cardinality(Forms) \in Nat /\ tries'[k] \in Nat /\ tries[k] \in Nat
          /\ IsFiniteSet(Guessing(k)) /\ Cardinality(Guessing(k)) \in Nat
      BY GuessingIsFinite DEF SignupInv
    <2>1. /\ IsFiniteSet(Guessing(k)') /\ Cardinality(Guessing(k)') \in Nat
          /\ Cardinality(Guessing(k)') <= Cardinality(Forms)
      <3>1. Guessing(k)' \subseteq Forms
        BY DEF Guessing
      <3> QED
        BY <3>1, SignupAssumption, FS_Subset, FS_CardinalityType
    <2>2. CASE tries'[k] = 0 \/ tries'[k] < MaxTries
      BY <1>0, <2>0, <2>1, <2>2
    <2>3. CASE /\ tries'[k] = tries[k] /\ k \notin blind
               /\ Guessing(k)' \subseteq Guessing(k)
      <3>1. Cardinality(Guessing(k)') <= Cardinality(Guessing(k))
        BY <2>0, <2>3, FS_Subset
      <3>2. tries[k] + Cardinality(Guessing(k)) <= MaxTries + Cardinality(Forms) - 1
        BY <2>3 DEF SignupInv
      <3> QED
        BY <1>0, <2>0, <2>1, <2>3, <3>1, <3>2
    <2>4. CASE /\ tries'[k] = tries[k] + 1 /\ k \notin blind
               /\ \E f \in Guessing(k) : Guessing(k)' \subseteq Guessing(k) \ {f}
      <3>1. PICK f \in Guessing(k) : Guessing(k)' \subseteq Guessing(k) \ {f}
        BY <2>4
      <3>2. /\ IsFiniteSet(Guessing(k) \ {f})
            /\ Cardinality(Guessing(k) \ {f}) = Cardinality(Guessing(k)) - 1
        BY <2>0, <3>1, FS_RemoveElement
      <3>3. Cardinality(Guessing(k)') <= Cardinality(Guessing(k)) - 1
        BY <3>1, <3>2, FS_Subset
      <3>4. tries[k] + Cardinality(Guessing(k)) <= MaxTries + Cardinality(Forms) - 1
        BY <2>4 DEF SignupInv
      <3> QED
        BY <1>0, <2>0, <2>1, <2>4, <3>3, <3>4
    <2> QED
      BY <1>1, <2>2, <2>3, <2>4
  <1> QED
    BY <1>1 DEF SignupInv

\* A request that closes, or moves to a point that is not "try".
LEMMA FormMoves ==
    ASSUME SignupInv, NEW f \in Forms, otpMode' = otpMode,
           NEW pc \in FormPoints \ {"try"},
           \/ CloseForm(f) \/ (FormTo(f, pc) /\ form[f].pc # "idle")
    PROVE  /\ SignupInv!1' /\ SignupInv!2'
           /\ \A k : Guessing(k)' \subseteq Guessing(k) \ {f}
  <1>1. NoForm \in SignupForm /\ NoForm.pc = "idle"
    BY DEF NoForm, SignupForm, FormPoints
  <1>2. form[f] \in SignupForm /\ form \in [Forms -> SignupForm]
    BY DEF SignupInv
  <1>3. /\ [form[f] EXCEPT !.pc = pc] \in SignupForm
        /\ [form[f] EXCEPT !.pc = pc].pc = pc
        /\ [form[f] EXCEPT !.pc = pc].number = form[f].number
    BY <1>2 DEF SignupForm
  <1>4. PICK e \in SignupForm :
            /\ form' = [form EXCEPT ![f] = e] /\ e.pc # "try"
            /\ e.pc # "idle" => e.number \in Phones
    <2>1. CASE CloseForm(f)
      BY <1>1, <2>1 DEF CloseForm
    <2>2. CASE FormTo(f, pc) /\ form[f].pc # "idle"
      BY <1>3, <2>2 DEF FormTo, SignupInv
    <2> QED
      BY <2>1, <2>2
  <1>5. \A g \in Forms \ {f} : form'[g] = form[g]
    BY <1>2, <1>4
  <1>6. form'[f].pc # "try"
    BY <1>2, <1>4
  <1>7. ASSUME NEW k, NEW g \in Guessing(k)' PROVE g \in Guessing(k) \ {f}
    BY <1>5, <1>6, <1>7 DEF Guessing, Counted, Counter, PurposeOf
  <1>8. SignupInv!1'
    BY <1>2, <1>4
  <1>9. SignupInv!2'
    BY <1>2, <1>4, <1>5 DEF SignupInv
  <1> QED
    BY <1>7, <1>8, <1>9

\* One step per action.
LEMMA SignupKept == ASSUME SignupInv, SignupNext PROVE SignupInv'
  <1>types. form \in [Forms -> SignupForm] /\ tries \in [Counters -> Nat]
    BY DEF SignupInv
  <1>other. ASSUME UNCHANGED <<otpMode, tries, blind, form>> PROVE SignupInv'
    BY <1>other DEF SignupInv, Guessing, Counted, Counter, PurposeOf
  <1>moved. ASSUME NEW f \in Forms, NEW pc \in FormPoints \ {"try"},
                   CloseForm(f) \/ (FormTo(f, pc) /\ form[f].pc # "idle"),
                   UNCHANGED <<otpMode, tries, blind>>
            PROVE  SignupInv'
    <2>1. /\ SignupInv!1' /\ SignupInv!2'
          /\ \A k : Guessing(k)' \subseteq Guessing(k) \ {f}
      BY <1>moved, FormMoves
    <2> QED
      BY <1>types, <1>moved, <2>1, GuessesRoom
  <1>1. ASSUME NEW n \in Phones, Register(n) PROVE SignupInv'
    BY <1>1, <1>other DEF Register
  <1>2. ASSUME NEW u \in Users, NEW n \in Phones, RequestPhoneChange(u, n)
        PROVE  SignupInv'
    BY <1>2, <1>other DEF RequestPhoneChange
  <1>3. ASSUME NEW c \in sent, CodeLapses(c) PROVE SignupInv'
    BY <1>3, <1>other DEF CodeLapses
  <1>4. ASSUME NEW k \in DOMAIN tries, AttemptsLapse(k) PROVE SignupInv'
    <2>1. /\ tries' = [tries EXCEPT ![k] = 0] /\ blind' = blind \ {k}
          /\ UNCHANGED <<otpMode, form>>
      BY <1>4 DEF AttemptsLapse
    <2>2. SignupInv!1' /\ SignupInv!2' /\ SignupInv!3'
      BY <1>types, <2>1 DEF SignupInv
    <2>3. \A m : Guessing(m)' = Guessing(m)
      BY <2>1 DEF Guessing, Counted, Counter, PurposeOf
    <2> QED
      BY <1>types, <2>1, <2>2, <2>3, GuessesRoom
  <1>5. ASSUME NEW f \in Forms, NEW u \in Users \cup {None}, NEW n \in Phones,
               EnterCode(f, u, n)
        PROVE  SignupInv'
    <2> DEFINE e == [pc |-> "code", user |-> u, number |-> n]
    <2>1. e \in SignupForm /\ e.pc = "code" /\ e.number \in Phones
      BY DEF SignupForm, FormPoints
    <2> HIDE DEF e
    <2>2. form' = [form EXCEPT ![f] = e] /\ UNCHANGED <<otpMode, tries, blind>>
      BY <1>5 DEF EnterCode, e
    <2>3. form'[f] = e /\ \A g \in Forms \ {f} : form'[g] = form[g]
      BY <1>types, <2>2
    <2>4. SignupInv!1' /\ SignupInv!2'
      BY <1>types, <2>1, <2>2, <2>3 DEF SignupInv
    <2>5. \A k : Guessing(k)' \subseteq Guessing(k)
      <3>1. ASSUME NEW k, NEW g \in Guessing(k)' PROVE g \in Guessing(k)
        <4>1. g # f
          BY <2>1, <2>3, <3>1 DEF Guessing
        <4> QED
          BY <2>2, <2>3, <3>1, <4>1 DEF Guessing, Counted, Counter, PurposeOf
      <3> QED
        BY <3>1
    <2> QED
      BY <1>types, <2>2, <2>4, <2>5, GuessesRoom
  <1>6. ASSUME NEW f \in Forms, ReadAttempts(f) PROVE SignupInv'
    <2> DEFINE k == Counter(f)
    <2>1. form[f].pc = "code" /\ UNCHANGED <<otpMode, tries>>
      BY <1>6 DEF ReadAttempts
    <2>2. k \in Counters
      BY <2>1 DEF SignupInv, Counter, Counters, PurposeOf, Purposes
    <2>3. CASE CloseForm(f) /\ UNCHANGED blind
      BY <2>1, <2>3, <1>moved DEF FormPoints
    <2>4. CASE /\ FormTo(f, "try")
               /\ \/ (Counted(f) => tries[k] < MaxTries) /\ UNCHANGED blind
                  \/ blind' = blind \cup {k}
      <3> DEFINE e == [form[f] EXCEPT !.pc = "try"]
      <3>1. /\ e \in SignupForm /\ e.number = form[f].number
            /\ e.user = form[f].user
        BY <1>types DEF SignupForm, FormPoints
      <3>2. form' = [form EXCEPT ![f] = e]
        BY <2>4 DEF FormTo
      <3> HIDE DEF e
      <3>3. form'[f] = e /\ \A g \in Forms \ {f} : form'[g] = form[g]
        BY <1>types, <3>2
      <3>4. SignupInv!1' /\ SignupInv!2' /\ SignupInv!3'
        BY <1>types, <2>1, <3>1, <3>2, <3>3 DEF SignupInv
      <3>5. ASSUME NEW m \in Counters, m # k \/ ~Counted(f)
            PROVE  Guessing(m)' \subseteq Guessing(m)
        <4>1. ASSUME NEW g \in Guessing(m)' PROVE g \in Guessing(m)
          <5>1. CASE g # f
            BY <2>1, <3>3, <4>1, <5>1 DEF Guessing, Counted, Counter, PurposeOf
          <5>2. CASE g = f
            <6>1. (Counted(f)' <=> Counted(f)) /\ Counter(f)' = Counter(f)
              BY <2>1, <3>1, <3>3 DEF Counted, Counter, PurposeOf
            <6> QED
              BY <3>5, <4>1, <5>2, <6>1 DEF Guessing
          <5> QED
            BY <5>1, <5>2
        <4> QED
          BY <4>1
      <3>6. ASSUME NEW m \in Counters \ blind'
            PROVE  \/ tries'[m] < MaxTries
                   \/ /\ tries'[m] = tries[m] /\ m \notin blind
                      /\ Guessing(m)' \subseteq Guessing(m)
        BY <2>1, <2>4, <3>5
      <3> QED
        BY <3>4, <3>6, GuessesRoom
    <2> QED
      BY <1>6, <2>3, <2>4 DEF ReadAttempts, Fails
  <1>7. ASSUME NEW f \in Forms, NEW right \in BOOLEAN, CheckCode(f, right)
        PROVE  SignupInv'
    <2> DEFINE k == Counter(f)
    <2>1. form[f].pc = "try" /\ UNCHANGED otpMode
      BY <1>7 DEF CheckCode
    <2>2. k \in Counters
      BY <2>1 DEF SignupInv, Counter, Counters, PurposeOf, Purposes
    <2>3. CloseForm(f) \/ (FormTo(f, "used") /\ form[f].pc # "idle")
      BY <1>7, <2>1 DEF CheckCode
    <2>4. /\ SignupInv!1' /\ SignupInv!2'
          /\ \A m : Guessing(m)' \subseteq Guessing(m) \ {f}
      BY <2>1, <2>3, FormMoves DEF FormPoints
    <2>5. CASE UNCHANGED <<tries, blind>>
      BY <1>types, <2>4, <2>5, GuessesRoom
    <2>6. CASE Counted(f) /\ tries' = [tries EXCEPT ![k] = @ + 1] /\ UNCHANGED blind
      <3>1. f \in Guessing(k)
        BY <2>1, <2>6 DEF Guessing
      <3>2. SignupInv!3'
        BY <1>types, <2>2, <2>6
      <3>3. tries'[k] = tries[k] + 1 /\ \A m \in Counters \ {k} : tries'[m] = tries[m]
        BY <1>types, <2>2, <2>6
      <3> QED
        BY <2>2, <2>4, <2>6, <3>1, <3>2, <3>3, GuessesRoom
    <2>7. CASE Fails(k) /\ UNCHANGED tries
      BY <1>types, <2>4, <2>7, GuessesRoom DEF Fails
    <2>8. CASE tries' = [tries EXCEPT ![k] = 0] /\ blind' = blind \ {k}
      <3>1. SignupInv!3'
        BY <1>types, <2>2, <2>8
      <3>2. tries'[k] = 0 /\ \A m \in Counters \ {k} : tries'[m] = tries[m]
        BY <1>types, <2>2, <2>8
      <3> QED
        BY <2>4, <2>8, <3>1, <3>2, GuessesRoom
    <2> QED
      BY <1>7, <2>5, <2>6, <2>7, <2>8 DEF CheckCode
  <1>8. ASSUME NEW f \in Forms, MarkOTPUsed(f) PROVE SignupInv'
    <2>1. /\ form[f].pc # "idle" /\ UNCHANGED <<otpMode, tries, blind>>
          /\ FormTo(f, "find") \/ FormTo(f, "swap")
      BY <1>8 DEF MarkOTPUsed
    <2> QED
      BY <2>1, <1>moved DEF FormPoints
  <1>9. ASSUME NEW f \in Forms, FindUserByPhone(f) PROVE SignupInv'
    <2>1. /\ form[f].pc # "idle" /\ UNCHANGED <<otpMode, tries, blind>>
          /\ CloseForm(f) \/ FormTo(f, "create")
      BY <1>9 DEF FindUserByPhone
    <2> QED
      BY <2>1, <1>moved DEF FormPoints
  <1>10. ASSUME NEW f \in Forms, CreateUser(f) \/ UpdateUserPhone(f)
         PROVE  SignupInv'
    <2>1. CloseForm(f) /\ UNCHANGED <<otpMode, tries, blind>>
      BY <1>10 DEF CreateUser, UpdateUserPhone
    <2> QED
      BY <2>1, <1>moved DEF FormPoints
  <1>11. ASSUME NEW u \in Users, DeleteAccount(u) PROVE SignupInv'
    BY <1>11, <1>other DEF DeleteAccount
  <1> QED
    BY <1>1, <1>2, <1>3, <1>4, <1>5, <1>6, <1>7, <1>8, <1>9, <1>10, <1>11
       DEF SignupNext

\* The bound without the guesses under way.
LEMMA SignupSafe == SignupInv => GuessesCapped
  <1> SUFFICES ASSUME SignupInv PROVE GuessesCapped
    OBVIOUS
  <1>1. ASSUME NEW k \in Counters, k \notin blind
        PROVE  tries[k] <= MaxTries + Cardinality(Forms) - 1
    <2>1. /\ tries[k] \in Nat
          /\ tries[k] + Cardinality(Guessing(k)) <= MaxTries + Cardinality(Forms) - 1
      BY <1>1 DEF SignupInv
    <2> QED
      BY <2>1, GuessingIsFinite, SignupAssumption
  <1> QED
    BY <1>1 DEF GuessesCapped, Counters

-----------------------------------------------------------------------------
(* Team.                                                                    *)

CallPoints == {"idle", "password", "codes", "challenge", "spend", "issue",
               "revoke", "reset", "sweep"}
TeamCall == [pc : CallPoints, of : Colleagues \cup {None},
             with : Passwords \cup Tokens \cup {None},
             at : Nat, login : Nat, since : Nat, seen : SUBSET (Tokens \cup Codes)]
TeamType ==
    /\ token \in [Tokens -> TeamSessions \cup {None}]
    /\ call \in [Calls -> TeamCall]
    /\ clock \in Nat /\ ended \subseteq Tokens

\* A request in flight began a tick ago at most.  One that renews a session
\* goes on with the time of its holder's sign-in, not longer than SessionMax
\* before the request; only a renewal has a session with it.  One that ends the
\* sessions of an admin has seen none of another's.
CallFits(c) ==
    LET q == call[c] IN
    /\ q.pc # "idle" => q.of \in Colleagues
    /\ q.pc \in {"password", "reset"} => q.with \in Passwords
    /\ q.pc = "spend" => q.seen \subseteq Codes
    /\ ~Waits(c) => clock <= q.at + 1
    /\ q.pc \in {"challenge", "spend"} => q.with = None
    /\ q.pc = "issue" /\ q.with # None =>
           q.login = q.since /\ q.at <= q.login + SessionMax
    /\ q.pc = "sweep" => \A t \in q.seen :
                             t \in Tokens /\ (token[t] = None \/ token[t].of = q.of)

\* The chain of a session began when its holder signed in.
SessionFits(t) ==
    token[t] # None =>
        /\ token[t].login = token[t].since
        /\ token[t].expires <= token[t].since + SessionMax + Idle + 1

SessionsInv ==
    /\ TeamType
    /\ \A c \in Calls : CallFits(c)
    /\ \A t \in Tokens : SessionFits(t)
    /\ ResetEndsOldSessions

Member == [status : {"INVITED", "ACTIVE", "SUSPENDED"},
           password : Passwords \cup {None}, twoFactor : BOOLEAN,
           codes : SUBSET Codes]
AdminType == admin \in [Colleagues -> Member \cup {None}]
TeamInv == AdminType /\ SessionsInv

\* A request that is not under way.
LEMMA NoCallIs == /\ NoCall \in TeamCall /\ NoCall.pc = "idle" /\ NoCall.with = None
                  /\ NoCall.seen = {} /\ NoCall.of = None
  BY DEF NoCall, TeamCall, CallPoints

\* The console starts with the members it is given, and no session.
LEMMA TeamInvInit == TeamInit => TeamInv
  <1> SUFFICES ASSUME TeamInit PROVE TeamInv
    OBVIOUS
  <1>1. TeamType
    BY NoCallIs DEF TeamInit, TeamType
  <1>2. \A c \in Calls : call[c].pc = "idle"
    BY NoCallIs DEF TeamInit
  <1> QED
    BY <1>1, <1>2
       DEF TeamInit, TeamInv, AdminType, SessionsInv, CallFits, Waits,
           SessionFits, ResetEndsOldSessions

\* What a request must be to fit, with the sessions as they are.
RequestFits(q, sessions, time) ==
    /\ q.pc # "idle" => q.of \in Colleagues
    /\ q.pc \in {"password", "reset"} => q.with \in Passwords
    /\ q.pc = "spend" => q.seen \subseteq Codes
    /\ q.pc \notin {"idle", "challenge"} => time <= q.at + 1
    /\ q.pc \in {"challenge", "spend"} => q.with = None
    /\ q.pc = "issue" /\ q.with # None =>
           q.login = q.since /\ q.at <= q.login + SessionMax
    /\ q.pc = "sweep" => \A t \in q.seen :
                             t \in Tokens /\ (sessions[t] = None \/ sessions[t].of = q.of)

\* Whether a request fits the sessions depends on them and the clock alone.
LEMMA Fits == \A c : CallFits(c) <=> RequestFits(call[c], token, clock)
  BY DEF CallFits, RequestFits, Waits

\* A request that begins, goes on or ends; the sessions stay as they are.
LEMMA RequestStep ==
    ASSUME SessionsInv, NEW c \in Calls, NEW q \in TeamCall,
           RequestFits(q, token, clock), call' = [call EXCEPT ![c] = q],
           UNCHANGED <<token, clock, ended>>
    PROVE  SessionsInv'
  <1> USE DEF SessionsInv
  <1>1. /\ call' \in [Calls -> TeamCall] /\ call'[c] = q
        /\ \A d \in Calls \ {c} : call'[d] = call[d]
    BY DEF TeamType
  <1>2. \A d \in Calls : RequestFits(call'[d], token', clock')
    BY <1>1, Fits
  <1>3. \A d \in Calls : CallFits(d)'
    BY <1>2 DEF CallFits, RequestFits, Waits
  <1>4. TeamType'
    BY <1>1 DEF TeamType
  <1> QED
    BY <1>3, <1>4 DEF SessionFits, ResetEndsOldSessions

\* A request that ends, and sessions that end with it.
LEMMA SessionsClosed ==
    ASSUME SessionsInv, token' \in [Tokens -> TeamSessions \cup {None}],
           \A t \in Tokens : token'[t] = token[t] \/ token'[t] = None,
           clock' = clock,
           ended' \subseteq ended \cup {t \in Tokens : token'[t] = None},
           call' \in [Calls -> TeamCall],
           \A c \in Calls : call'[c] = call[c] \/ call'[c] = NoCall
    PROVE  SessionsInv'
  <1> USE DEF SessionsInv
  <1>1. TeamType'
    BY DEF TeamType
  <1>0. ended \subseteq Tokens
    BY DEF TeamType
  <1>2. ASSUME NEW c \in Calls PROVE CallFits(c)'
    <2>1. CASE call'[c] = NoCall
      BY <2>1, NoCallIs DEF CallFits, Waits
    <2>2. CASE call'[c] = call[c]
      BY <2>2 DEF CallFits, Waits
    <2> QED
      BY <2>1, <2>2
  <1>3. \A t \in Tokens : SessionFits(t)'
    BY DEF SessionFits
  <1>4. ResetEndsOldSessions'
    <2>1. \A t \in ended : token[t] = None /\ (t \in Tokens => token'[t] = None)
      BY DEF ResetEndsOldSessions
    <2> QED
      BY <1>0, <2>1 DEF ResetEndsOldSessions
  <1> QED
    BY <1>1, <1>2, <1>3, <1>4

\* A request that begins has none of the obligations of one that goes on.
LEMMA RequestOpens ==
    ASSUME SessionsInv, NEW c \in Calls, NEW q \in TeamCall, Open(c, q),
           q.at = clock, q.of \in Colleagues,
           q.pc \in {"password", "reset"} => q.with \in Passwords,
           q.with = None \/ q.pc # "issue",
           q.pc \notin {"spend", "sweep"}, q.pc = "challenge" => q.with = None,
           UNCHANGED <<token, clock, ended>>
    PROVE  SessionsInv'
  <1>1. RequestFits(q, token, clock)
    BY DEF RequestFits, SessionsInv, TeamType
  <1> QED
    BY <1>1, RequestStep DEF Open

\* A request that ends leaves no obligation behind.
LEMMA RequestCloses ==
    ASSUME SessionsInv, NEW c \in Calls, Close(c), UNCHANGED <<token, clock, ended>>
    PROVE  SessionsInv'
  <1>1. RequestFits(NoCall, token, clock)
    BY NoCallIs DEF RequestFits
  <1> QED
    BY <1>1, NoCallIs, RequestStep DEF Close

\* What is left alone does not change.
LEMMA TeamAlone == SessionsInv /\ UNCHANGED <<token, call, clock, ended>> => SessionsInv'
  BY DEF SessionsInv, TeamType, CallFits, Waits, SessionFits,
         ResetEndsOldSessions

\* What is done to a member, and the requests that begin with one.
LEMMA MembersKept ==
    ASSUME SessionsInv, NEW a \in Colleagues,
           \/ \E c \in Calls, w \in Passwords \cup {None} : Invite(a, c, w)
           \/ Suspend(a) \/ Reinstate(a) \/ Remove(a) \/ ClearTOTP(a)
           \/ \E t \in Tokens, w \in Passwords : ChangePassword(a, t, w)
           \/ \E c \in Calls : Enable2FA(a, c)
           \/ \E c \in Calls, w \in Passwords :
                 Login(a, c, w) \/ ResetPassword(a, c, w)
           \/ ForgotPassword(a) \/ VerifyResetOTP(a)
    PROVE  SessionsInv'
  <1>1. CASE \/ Suspend(a) \/ Reinstate(a) \/ Remove(a) \/ ClearTOTP(a)
             \/ \E t \in Tokens, w \in Passwords : ChangePassword(a, t, w)
             \/ ForgotPassword(a) \/ VerifyResetOTP(a)
    BY <1>1, TeamAlone
       DEF Suspend, Reinstate, Remove, ClearTOTP, ChangePassword,
           ForgotPassword, VerifyResetOTP
  <1> DEFINE Rec(pc, w) == [Begun EXCEPT !.pc = pc, !.of = a, !.with = w]
  <1>rec. ASSUME NEW pc \in CallPoints, NEW w \in Passwords \cup {None}
          PROVE  /\ Rec(pc, w) \in TeamCall /\ Rec(pc, w).pc = pc
                 /\ Rec(pc, w).at = clock /\ Rec(pc, w).of = a
                 /\ Rec(pc, w).with = w
    BY DEF Begun, NoCall, TeamCall, CallPoints, SessionsInv, TeamType
  <1> DEFINE Plain(pc) == [Begun EXCEPT !.pc = pc, !.of = a]
  <1>plain. ASSUME NEW pc \in CallPoints
            PROVE  /\ Plain(pc) \in TeamCall /\ Plain(pc).pc = pc
                   /\ Plain(pc).at = clock /\ Plain(pc).of = a
                   /\ Plain(pc).with = None
    BY DEF Begun, NoCall, TeamCall, CallPoints, SessionsInv, TeamType
  <1> HIDE DEF Rec, Plain
  <1>2. ASSUME NEW c \in Calls, NEW w \in Passwords \cup {None}, Invite(a, c, w)
        PROVE  SessionsInv'
    <2>1. UNCHANGED call \/ (Open(c, Rec("password", w)) /\ w \in Passwords)
      BY <1>2 DEF Invite, Rec
    <2>2. UNCHANGED <<token, clock, ended>>
      BY <1>2 DEF Invite
    <2>3. CASE UNCHANGED call
      BY <2>2, <2>3, TeamAlone
    <2>4. CASE Open(c, Rec("password", w)) /\ w \in Passwords
      BY <2>2, <2>4, <1>rec, RequestOpens DEF CallPoints
    <2> QED
      BY <2>1, <2>3, <2>4
  <1>3. ASSUME NEW c \in Calls, Enable2FA(a, c) PROVE SessionsInv'
    <2>1. Open(c, Plain("codes")) /\ UNCHANGED <<token, clock, ended>>
      BY <1>3 DEF Enable2FA, Plain
    <2> QED
      BY <2>1, <1>plain, RequestOpens DEF CallPoints
  <1>4. ASSUME NEW c \in Calls, NEW w \in Passwords, Login(a, c, w)
        PROVE  SessionsInv'
    <2>1. PICK pc \in {"challenge", "issue"} :
             Open(c, Plain(pc)) /\ UNCHANGED <<token, clock, ended>>
      BY <1>4 DEF Login, Plain
    <2> QED
      BY <2>1, <1>plain, RequestOpens DEF CallPoints
  <1>5. ASSUME NEW c \in Calls, NEW w \in Passwords, ResetPassword(a, c, w)
        PROVE  SessionsInv'
    <2>1. Open(c, Rec("reset", w)) /\ UNCHANGED <<token, clock, ended>>
      BY <1>5 DEF ResetPassword, Rec
    <2> QED
      BY <2>1, <1>rec, RequestOpens DEF CallPoints
  <1> QED
    BY <1>1, <1>2, <1>3, <1>4, <1>5

\* The later steps of a request, up to the one that answers it.
LEMMA RequestsKept ==
    ASSUME AdminType, SessionsInv, NEW c \in Calls,
           \/ InvitePassword(c) \/ SaveBackupCodes(c)
           \/ Verify2FA(c) \/ SpendBackupCode(c) \/ PreAuthLapses(c)
           \/ \E code \in Codes : VerifyBackupCode(c, code)
           \/ RevokeOld(c) \/ ResetWrites(c) \/ RevokeAll(c)
    PROVE  SessionsInv'
  <1> USE DEF SessionsInv
  <1>fits. RequestFits(call[c], token, clock)
    BY Fits
  <1>type. call[c] \in TeamCall /\ clock \in Nat
    BY DEF TeamType
  <1>1. CASE InvitePassword(c) \/ SaveBackupCodes(c) \/ PreAuthLapses(c)
    BY <1>1, RequestCloses DEF InvitePassword, SaveBackupCodes, PreAuthLapses
  <1>2. CASE Verify2FA(c)
    <2> DEFINE q == [call[c] EXCEPT !.pc = "issue", !.at = clock]
    <2>1. /\ q \in TeamCall /\ q.pc = "issue" /\ q.at = clock
          /\ q.with = call[c].with /\ q.of = call[c].of
      BY <1>type DEF TeamCall, CallPoints
    <2>2. /\ call[c].pc = "challenge" /\ UNCHANGED <<token, clock, ended>>
          /\ Close(c) \/ call' = [call EXCEPT ![c] = q]
      BY <1>2 DEF Verify2FA, TeamType, TeamCall
    <2> HIDE DEF q
    <2>3. RequestFits(q, token, clock)
      BY <1>fits, <1>type, <2>1, <2>2 DEF RequestFits
    <2> QED
      BY <2>1, <2>2, <2>3, RequestCloses, RequestStep
  <1>3. CASE SpendBackupCode(c)
    <2> DEFINE q == [call[c] EXCEPT !.pc = "issue"]
    <2>1. /\ q \in TeamCall /\ q.pc = "issue" /\ q.at = call[c].at
          /\ q.with = call[c].with /\ q.of = call[c].of
      BY <1>type DEF TeamCall, CallPoints
    <2>2. /\ call[c].pc = "spend" /\ UNCHANGED <<token, clock, ended>>
          /\ Close(c) \/ call' = [call EXCEPT ![c] = q]
      BY <1>3 DEF SpendBackupCode, Step
    <2> HIDE DEF q
    <2>3. RequestFits(q, token, clock)
      BY <1>fits, <1>type, <2>1, <2>2 DEF RequestFits
    <2> QED
      BY <2>1, <2>2, <2>3, RequestCloses, RequestStep
  <1>4. ASSUME NEW code \in Codes, VerifyBackupCode(c, code) PROVE SessionsInv'
    <2> DEFINE codes == admin[call[c].of].codes \ {code}
    <2>1. codes \subseteq Codes
      BY <1>4, <1>fits DEF VerifyBackupCode, AdminType, Member, RequestFits
    <2> DEFINE q == [call[c] EXCEPT !.pc = "spend", !.at = clock, !.seen = codes]
    <2>2. /\ q \in TeamCall /\ q.pc = "spend" /\ q.at = clock
          /\ q.with = call[c].with /\ q.of = call[c].of /\ q.seen = codes
      BY <1>type, <2>1 DEF TeamCall, CallPoints
    <2>3. /\ call[c].pc = "challenge" /\ UNCHANGED <<token, clock, ended>>
          /\ call' = [call EXCEPT ![c] = q]
      BY <1>4 DEF VerifyBackupCode, TeamType, TeamCall
    <2> HIDE DEF q
    <2>4. RequestFits(q, token, clock)
      BY <1>fits, <1>type, <2>1, <2>2, <2>3 DEF RequestFits
    <2> QED
      BY <2>2, <2>3, <2>4, RequestStep
  <1>5. CASE RevokeOld(c)
    <2>1. /\ token' \in [Tokens -> TeamSessions \cup {None}]
          /\ \A t \in Tokens : token'[t] = token[t] \/ token'[t] = None
      BY <1>5 DEF RevokeOld, TeamType
    <2>2. /\ call' \in [Calls -> TeamCall]
          /\ \A d \in Calls : call'[d] = call[d] \/ call'[d] = NoCall
      BY <1>5, NoCallIs DEF RevokeOld, Close, TeamType
    <2> QED
      BY <1>5, <2>1, <2>2, SessionsClosed DEF RevokeOld
  <1>6. CASE ResetWrites(c)
    <2> DEFINE a == call[c].of
               q == [call[c] EXCEPT !.pc = "sweep", !.seen = SessionsOf(a)]
    <2>1. SessionsOf(a) \subseteq Tokens /\ \A t \in SessionsOf(a) : token[t].of = a
      BY DEF SessionsOf
    <2>2. /\ q \in TeamCall /\ q.pc = "sweep" /\ q.at = call[c].at
          /\ q.with = call[c].with /\ q.of = a /\ q.seen = SessionsOf(a)
      BY <1>type, <2>1 DEF TeamCall, CallPoints
    <2>3. /\ call[c].pc = "reset" /\ UNCHANGED <<token, clock, ended>>
          /\ Close(c) \/ call' = [call EXCEPT ![c] = q]
      BY <1>6 DEF ResetWrites, TeamType, TeamCall
    <2> HIDE DEF q
    <2>4. RequestFits(q, token, clock)
      BY <1>fits, <1>type, <2>1, <2>2, <2>3 DEF RequestFits
    <2> QED
      BY <2>2, <2>3, <2>4, RequestCloses, RequestStep
  <1>7. CASE RevokeAll(c)
    <2>1. PICK keys \in SUBSET SessionsOf(call[c].of) :
             /\ token' = [t \in Tokens |-> IF t \in keys THEN None ELSE token[t]]
             /\ \/ /\ call[c].seen \cap SessionsOf(call[c].of) \subseteq keys
                   /\ ended' = ended \cup call[c].seen
                \/ UNCHANGED ended
      BY <1>7 DEF RevokeAll
    <2>2. /\ token' \in [Tokens -> TeamSessions \cup {None}]
          /\ \A t \in Tokens : token'[t] = token[t] \/ token'[t] = None
      BY <2>1 DEF TeamType
    <2>3. ASSUME call[c].seen \cap SessionsOf(call[c].of) \subseteq keys,
                 NEW t \in call[c].seen
          PROVE  t \in Tokens /\ token'[t] = None
      <3>1. t \in Tokens /\ (token[t] = None \/ token[t].of = call[c].of)
        BY <1>7, <2>3, <1>fits DEF RequestFits, RevokeAll
      <3>2. token[t] # None => t \in keys
        BY <2>1, <2>3, <3>1 DEF SessionsOf
      <3> QED
        BY <2>1, <3>1, <3>2
    <2>4. ended' \subseteq ended \cup {t \in Tokens : token'[t] = None}
      BY <2>1, <2>3
    <2>5. /\ call' \in [Calls -> TeamCall]
          /\ \A d \in Calls : call'[d] = call[d] \/ call'[d] = NoCall
      BY <1>7, NoCallIs DEF RevokeAll, Close, TeamType
    <2> QED
      BY <1>7, <2>2, <2>4, <2>5, SessionsClosed DEF RevokeAll
  <1> QED
    BY <1>1, <1>2, <1>3, <1>4, <1>5, <1>6, <1>7

\* A session is issued, renewed or left.
LEMMA TokensKept ==
    ASSUME SessionsInv, NEW t \in Tokens,
           \/ \E c \in Calls : IssueAccessToken(c, t) \/ RenewSession(t, c)
           \/ LogoutAdmin(t)
    PROVE  SessionsInv'
  <1> USE TeamAssumption DEF SessionsInv
  <1>1. CASE LogoutAdmin(t)
    <2>1. /\ token' \in [Tokens -> TeamSessions \cup {None}]
          /\ \A s \in Tokens : token'[s] = token[s] \/ token'[s] = None
      BY <1>1 DEF LogoutAdmin, TeamType
    <2> QED
      BY <1>1, <2>1, SessionsClosed DEF LogoutAdmin, TeamType
  <1>2. ASSUME NEW c \in Calls, RenewSession(t, c) PROVE SessionsInv'
    <2> DEFINE q == [Begun EXCEPT !.pc = "issue", !.of = token[t].of, !.with = t,
                             !.login = token[t].login, !.since = token[t].since]
    <2>1. /\ token[t] \in TeamSessions /\ token[t].login = token[t].since
          /\ clock \in Nat
      BY <1>2 DEF RenewSession, IsLive, TeamType, SessionFits
    <2>2. /\ q \in TeamCall /\ q.pc = "issue" /\ q.of = token[t].of
          /\ q.login = token[t].login /\ q.since = token[t].since /\ q.at = clock
      BY <2>1 DEF Begun, NoCall, TeamCall, CallPoints, TeamSessions
    <2>3. /\ call' = [call EXCEPT ![c] = q] /\ UNCHANGED <<token, clock, ended>>
          /\ clock - token[t].login <= SessionMax
      BY <1>2 DEF RenewSession, Open
    <2> HIDE DEF q
    <2>4. token[t].of \in Colleagues /\ token[t].login \in Nat
      BY <2>1 DEF TeamSessions
    <2>5. RequestFits(q, token, clock)
      BY <2>1, <2>2, <2>3, <2>4 DEF RequestFits
    <2> QED
      BY <2>2, <2>3, <2>5, RequestStep
  <1>3. ASSUME NEW c \in Calls, IssueAccessToken(c, t) PROVE SessionsInv'
    <2> DEFINE renewal == call[c].with # None
               login == IF renewal THEN call[c].login ELSE clock
               since == IF renewal THEN call[c].since ELSE clock
               s == [of |-> call[c].of, expires |-> clock + Idle,
                     login |-> login, since |-> since]
    <2>1. call[c] \in TeamCall /\ call[c].pc = "issue" /\ CallFits(c) /\ clock \in Nat
      BY <1>3 DEF IssueAccessToken, TeamType
    <2>2. /\ login = since /\ login \in Nat /\ call[c].of \in Colleagues
          /\ clock <= login + SessionMax + 1
      BY <2>1 DEF CallFits, Waits, TeamCall
    <2>3. token' = [token EXCEPT ![t] = s]
      BY <1>3 DEF IssueAccessToken
    <2> HIDE DEF login, since
    <2>4. /\ s \in TeamSessions /\ s.login = s.since
          /\ s.expires <= s.since + SessionMax + Idle + 1
      BY <2>1, <2>2 DEF TeamSessions
    <2> HIDE DEF s
    <2>5. /\ token' \in [Tokens -> TeamSessions \cup {None}] /\ token'[t] = s
          /\ \A x \in Tokens \ {t} : token'[x] = token[x]
      BY <2>3, <2>4 DEF TeamType
    <2>6. \A x \in Tokens : SessionFits(x)'
      BY <2>4, <2>5 DEF SessionFits
    <2>7. t \notin ended' /\ ended' \subseteq ended /\ clock' = clock
      BY <1>3 DEF IssueAccessToken
    <2>8. ResetEndsOldSessions'
      BY <2>5, <2>7 DEF ResetEndsOldSessions, TeamType
    <2>9. Step(c, "revoke") \/ Close(c)
      BY <1>3 DEF IssueAccessToken
    <2>10. /\ call' \in [Calls -> TeamCall]
           /\ \A d \in Calls : call'[d] = call[d] \/ call'[d] = NoCall
                 \/ (/\ call'[d].pc = "revoke" /\ call'[d].at = call[d].at
                     /\ call'[d].of = call[d].of /\ d = c)
      <3>1. /\ [call[c] EXCEPT !.pc = "revoke"] \in TeamCall
            /\ [call[c] EXCEPT !.pc = "revoke"].pc = "revoke"
            /\ [call[c] EXCEPT !.pc = "revoke"].at = call[c].at
            /\ [call[c] EXCEPT !.pc = "revoke"].of = call[c].of
        BY <2>1 DEF TeamCall, CallPoints
      <3> QED
        BY <2>9, <3>1, NoCallIs DEF Step, Close, TeamType
    <2>11. ASSUME NEW d \in Calls PROVE CallFits(d)'
      <3>1. CASE call'[d] = NoCall
        BY <3>1, NoCallIs DEF CallFits, Waits
      <3>2. CASE call'[d].pc = "revoke" /\ call'[d].at = call[d].at
                 /\ call'[d].of = call[d].of /\ d = c
        BY <2>1, <2>7, <3>2 DEF CallFits, Waits
      <3>3. CASE call'[d] = call[d]
        <4>1. t \notin call[d].seen
          BY <1>3 DEF IssueAccessToken, FreshToken
        <4> QED
          BY <2>5, <2>7, <3>3, <4>1 DEF CallFits, Waits
      <3> QED
        BY <2>10, <3>1, <3>2, <3>3
    <2> QED
      BY <2>5, <2>6, <2>7, <2>8, <2>10, <2>11 DEF TeamType
  <1> QED
    BY <1>1, <1>2, <1>3

\* Time passes: sessions and requests grow old, none is made younger.
LEMMA TeamTickKept == ASSUME SessionsInv, Tick PROVE SessionsInv'
  <1> USE DEF SessionsInv
  <1>1. /\ clock' = clock + 1 /\ UNCHANGED <<call, ended>>
        /\ \A c \in Calls : Waits(c) \/ call[c].at = clock
        /\ token' = [t \in Tokens |->
                        IF token[t] # None /\ token[t].expires <= clock + 1
                        THEN None ELSE token[t]]
    BY DEF Tick
  <1>2. /\ token' \in [Tokens -> TeamSessions \cup {None}]
        /\ \A t \in Tokens : token'[t] = token[t] \/ token'[t] = None
    BY <1>1 DEF TeamType
  <1>3. TeamType'
    BY <1>1, <1>2 DEF TeamType
  <1>4. ASSUME NEW c \in Calls PROVE CallFits(c)'
    BY <1>1, <1>2 DEF CallFits, Waits, TeamType
  <1>5. \A t \in Tokens : SessionFits(t)'
    BY <1>2 DEF SessionFits
  <1>6. ResetEndsOldSessions'
    BY <1>1, <1>2 DEF ResetEndsOldSessions, TeamType
  <1> QED
    BY <1>3, <1>4, <1>5, <1>6

\* What is written of a member leaves a row of its kind.
LEMMA AdminKept == ASSUME TeamInv, TeamNext PROVE AdminType'
  <1> USE DEF TeamInv, AdminType
  <1>pass. ASSUME NEW a \in Colleagues, NEW w \in Passwords, admin[a] # None,
                  SetPassword(a, w)
           PROVE  AdminType'
    <2>1. [admin[a] EXCEPT !.password = w, !.status = "ACTIVE"] \in Member
      BY <1>pass DEF Member
    <2>2. admin' = [admin EXCEPT ![a] =
                       [admin[a] EXCEPT !.password = w, !.status = "ACTIVE"]]
      BY <1>pass DEF SetPassword, Member
    <2> QED
      BY <2>1, <2>2
  <1>codes. ASSUME NEW a \in Colleagues, NEW codes \in SUBSET Codes, admin[a] # None,
                   admin' = [admin EXCEPT ![a].codes = codes]
            PROVE  AdminType'
    BY <1>codes DEF Member
  <1>fits. \A c \in Calls : CallFits(c)
    BY DEF SessionsInv
  <1>1. ASSUME NEW a \in Colleagues, NEW c \in Calls,
               NEW w \in Passwords \cup {None}, Invite(a, c, w)
        PROVE  AdminType'
    BY <1>1 DEF Invite, Member
  <1>2. ASSUME NEW a \in Colleagues, Suspend(a) \/ Reinstate(a) \/ Remove(a)
        PROVE  AdminType'
    BY <1>2 DEF Suspend, Reinstate, Remove, UpdateStatus, Member
  <1>3. ASSUME NEW a \in Colleagues, ClearTOTP(a) PROVE AdminType'
    <2>1. [admin[a] EXCEPT !.twoFactor = FALSE, !.codes = {}] \in Member
      BY <1>3 DEF ClearTOTP, Member
    <2>2. admin' = [admin EXCEPT ![a] =
                       [admin[a] EXCEPT !.twoFactor = FALSE, !.codes = {}]]
      BY <1>3 DEF ClearTOTP, Member
    <2> QED
      BY <2>1, <2>2
  <1>4. ASSUME NEW a \in Colleagues, NEW t \in Tokens, NEW w \in Passwords,
               ChangePassword(a, t, w)
        PROVE  AdminType'
    BY <1>4, <1>pass DEF ChangePassword
  <1>5. ASSUME NEW a \in Colleagues, NEW c \in Calls, Enable2FA(a, c)
        PROVE  AdminType'
    BY <1>5 DEF Enable2FA, Member
  <1>6. ASSUME NEW a \in Colleagues, NEW c \in Calls, NEW w \in Passwords,
               Login(a, c, w) \/ ResetPassword(a, c, w)
        PROVE  AdminType'
    BY <1>6 DEF Login, ResetPassword
  <1>7. ASSUME NEW a \in Colleagues, ForgotPassword(a) \/ VerifyResetOTP(a)
        PROVE  AdminType'
    BY <1>7 DEF ForgotPassword, VerifyResetOTP
  <1>8. ASSUME NEW c \in Calls, InvitePassword(c) \/ ResetWrites(c)
        PROVE  AdminType'
    <2>1. call[c].of \in Colleagues /\ call[c].with \in Passwords
      BY <1>8, <1>fits DEF InvitePassword, ResetWrites, CallFits
    <2>2. \/ admin' = admin
          \/ admin[call[c].of] # None /\ SetPassword(call[c].of, call[c].with)
      BY <1>8 DEF InvitePassword, ResetWrites
    <2> QED
      BY <2>1, <2>2, <1>pass
  <1>9. ASSUME NEW c \in Calls, SaveBackupCodes(c) \/ SpendBackupCode(c)
        PROVE  AdminType'
    <2>1. call[c].of \in Colleagues /\ (call[c].pc = "spend" => call[c].seen \subseteq Codes)
      BY <1>9, <1>fits DEF SaveBackupCodes, SpendBackupCode, CallFits
    <2>2. PICK codes \in SUBSET Codes :
             \/ admin' = admin
             \/ /\ admin[call[c].of] # None
                /\ admin' = [admin EXCEPT ![call[c].of].codes = codes]
      <3>1. CASE SaveBackupCodes(c)
        BY <3>1 DEF SaveBackupCodes
      <3>2. CASE SpendBackupCode(c)
        BY <2>1, <3>2 DEF SpendBackupCode
      <3> QED
        BY <1>9, <3>1, <3>2
    <2> QED
      BY <2>1, <2>2, <1>codes
  <1>10. ASSUME NEW c \in Calls,
                \/ Verify2FA(c) \/ PreAuthLapses(c) \/ RevokeOld(c) \/ RevokeAll(c)
                \/ \E code \in Codes : VerifyBackupCode(c, code)
         PROVE  AdminType'
    BY <1>10
       DEF Verify2FA, PreAuthLapses, RevokeOld, RevokeAll, VerifyBackupCode
  <1>11. ASSUME NEW t \in Tokens,
                \/ \E c \in Calls : IssueAccessToken(c, t) \/ RenewSession(t, c)
                \/ LogoutAdmin(t)
         PROVE  AdminType'
    BY <1>11 DEF IssueAccessToken, RenewSession, LogoutAdmin
  <1>12. CASE Tick
    BY <1>12 DEF Tick
  <1> QED
    BY <1>1, <1>2, <1>3, <1>4, <1>5, <1>6, <1>7, <1>8, <1>9, <1>10, <1>11,
       <1>12 DEF TeamNext

\* The sessions and the rows of the console, step by step.
LEMMA TeamKept == ASSUME TeamInv, TeamNext PROVE TeamInv'
  <1>1. SessionsInv'
    BY MembersKept, RequestsKept, TokensKept, TeamTickKept
       DEF TeamNext, TeamInv
  <1> QED
    BY <1>1, AdminKept DEF TeamInv

\* What the invariant says of sessions is what a member relies on.
LEMMA TeamSafe == TeamInv => SessionsEnd
  BY DEF TeamInv, SessionsInv, SessionFits, SessionsEnd, RenewalCapped

-----------------------------------------------------------------------------
(* Payment methods.                                                         *)

TapPoints == {"idle", "insert", "update", "commit_insert", "commit_update"}
TapRequest == [pc : TapPoints, id : Methods \cup {None},
               key : TapKeys \cup {None}, default : BOOLEAN \cup {None},
               cleared : SUBSET Methods]
MethodsInv ==
    /\ method \in [Methods -> MethodRows \cup {None}]
    /\ tap \in [Taps -> TapRequest]
    /\ \A c \in Taps :
          /\ tap[c].pc # "idle" => tap[c].id \in Methods
          /\ tap[c].pc \in {"insert", "commit_insert"} => tap[c].default \in BOOLEAN
          \* Only a new default demotes the old one, and a row that is to be
          \* demoted is not deleted.
          /\ tap[c].cleared \subseteq Rows
          /\ tap[c].default # TRUE => tap[c].cleared = {}


\* A request that is not under way.
LEMMA NoTapIs == NoTap \in TapRequest /\ NoTap.pc = "idle" /\ NoTap.cleared = {}
  BY DEF NoTap, TapRequest, TapPoints

\* A customer starts with no method and no request.
LEMMA MethodsInvInit == PayMethodsInit => MethodsInv
  BY NoTapIs DEF PayMethodsInit, MethodsInv

\* A row keeps its key when it is demoted, and a default that nobody demotes
\* stays one.
LEMMA DemotedRows ==
    ASSUME MethodsInv, NEW c \in Taps
    PROVE  /\ Demoted(c) \in [Methods -> MethodRows \cup {None}]
           /\ \A m \in Methods \ tap[c].cleared : Demoted(c)[m] = method[m]
           /\ \A m \in Methods : m \in Rows => Demoted(c)[m] \in MethodRows
  <1> USE DEF MethodsInv
  <1>1. \A m \in tap[c].cleared : m \in Methods /\ method[m] \in MethodRows
    BY DEF Rows
  <1>2. \A r \in MethodRows : [r EXCEPT !.default = FALSE] \in MethodRows
    BY DEF MethodRows
  <1>3. ASSUME NEW m \in Methods
        PROVE  /\ Demoted(c)[m] \in MethodRows \cup {None}
               /\ m \notin tap[c].cleared => Demoted(c)[m] = method[m]
               /\ method[m] # None => Demoted(c)[m] \in MethodRows
    BY <1>1, <1>2 DEF Demoted
  <1> QED
    BY <1>3 DEF Demoted, Rows

\* A request that begins, goes on or ends is one of its kind.
LEMMA TapGoes ==
    ASSUME MethodsInv, NEW c \in Taps, NEW r \in TapRequest,
           tap' = [tap EXCEPT ![c] = r],
           r.pc # "idle" => r.id \in Methods,
           r.pc \in {"insert", "commit_insert"} => r.default \in BOOLEAN,
           r.default # TRUE => r.cleared = {}, r.cleared \subseteq Rows',
           Rows \subseteq Rows'
    PROVE  /\ tap' \in [Taps -> TapRequest]
           /\ \A d \in Taps :
                 /\ tap'[d].pc # "idle" => tap'[d].id \in Methods
                 /\ tap'[d].pc \in {"insert", "commit_insert"} =>
                       tap'[d].default \in BOOLEAN
                 /\ tap'[d].default # TRUE => tap'[d].cleared = {}
                 /\ tap'[d].cleared \subseteq Rows'
  BY DEF MethodsInv

\* One step per statement of a request: the index admits one default.
LEMMA MethodsKept == ASSUME MethodsInv, PayMethodsNext PROVE MethodsInv'
  <1> USE DEF MethodsInv
  <1>begin. ASSUME NEW c \in Taps, NEW pc \in {"insert", "update"},
                   NEW id \in Methods, NEW key \in TapKeys \cup {None},
                   NEW default \in BOOLEAN \cup {None},
                   pc = "insert" => default \in BOOLEAN,
                   TapBegins(c, pc, id, key, default)
            PROVE  MethodsInv'
    <2> DEFINE r == [pc |-> pc, id |-> id, key |-> key, default |-> default,
                     cleared |-> {}]
    <2>1. r \in TapRequest
      BY DEF TapRequest, TapPoints
    <2> QED
      BY <1>begin, <2>1, TapGoes DEF TapBegins, Rows
  <1>1. ASSUME NEW c \in Taps, AddMethod(c) PROVE MethodsInv'
    BY <1>1, <1>begin DEF AddMethod
  <1>2. ASSUME NEW c \in Taps, UpdateMethod(c) PROVE MethodsInv'
    BY <1>2, <1>begin DEF UpdateMethod
  <1>3. ASSUME NEW c \in Taps, SetDefaultMethod(c) PROVE MethodsInv'
    BY <1>3, <1>begin DEF SetDefaultMethod
  <1>4. ASSUME NEW c \in Taps, ClearDefault(c) PROVE MethodsInv'
    <2> DEFINE seen == IF tap[c].default = TRUE THEN DefaultMethods \ {tap[c].id}
                       ELSE {}
               pc == IF tap[c].pc = "insert" THEN "commit_insert" ELSE "commit_update"
               r == [tap[c] EXCEPT !.cleared = seen, !.pc = pc]
    <2>1. seen \subseteq Rows /\ seen \subseteq Methods
      BY DEF DefaultMethods, Rows
    <2>2. tap[c].pc \in {"insert", "update"} /\ method' = method
      BY <1>4 DEF ClearDefault
    <2> HIDE DEF seen
    <2>3. /\ r \in TapRequest /\ r.id = tap[c].id /\ r.default = tap[c].default
          /\ r.cleared = seen /\ r.pc = pc
      BY <2>1 DEF TapRequest, TapPoints
    <2>4. tap' = [tap EXCEPT ![c] = r]
      BY <1>4 DEF ClearDefault, seen, TapRequest
    <2>5. r.default # TRUE => r.cleared = {}
      BY <2>3 DEF seen
    <2> HIDE DEF r
    <2> QED
      BY <2>1, <2>2, <2>3, <2>4, <2>5, TapGoes DEF Rows
  <1>5. ASSUME NEW c \in Taps, InsertMethod(c) PROVE MethodsInv'
    <2> DEFINE row == [default |-> tap[c].default, key |-> tap[c].key]
    <2>1. row \in MethodRows /\ tap[c].id \in Methods
      BY <1>5 DEF InsertMethod, TapRequest, MethodRows
    <2>2. \/ method' = method
          \/ method' = [Demoted(c) EXCEPT ![tap[c].id] = row]
      BY <1>5 DEF InsertMethod
    <2> HIDE DEF row
    <2>3. method' \in [Methods -> MethodRows \cup {None}] /\ Rows \subseteq Rows'
      <3>1. Demoted(c) \in [Methods -> MethodRows \cup {None}]
            /\ \A m \in Methods : m \in Rows => Demoted(c)[m] \in MethodRows
        BY DemotedRows
      <3>2. method' \in [Methods -> MethodRows \cup {None}]
        BY <2>1, <2>2, <3>1
      <3>3. ASSUME NEW m \in Methods, method[m] # None PROVE method'[m] # None
        BY <2>1, <2>2, <3>1, <3>3, PayMethodsAssumption DEF Rows
      <3> QED
        BY <3>2, <3>3 DEF Rows
    <2>4. tap' = [tap EXCEPT ![c] = NoTap]
      BY <1>5 DEF InsertMethod
    <2> QED
      BY <2>3, <2>4, NoTapIs, TapGoes
  <1>6. ASSUME NEW c \in Taps, WriteMethod(c) PROVE MethodsInv'
    <2> DEFINE t == tap[c]
               row == [Demoted(c)[t.id] EXCEPT !.default = t.default]
    <2>1. \/ method' = method
          \/ method' = Demoted(c)
          \/ /\ t.id \in Rows /\ t.default # None
             /\ method' = [Demoted(c) EXCEPT ![t.id] = row]
      BY <1>6 DEF WriteMethod
    <2>2. t.id \in Rows /\ t.default # None => row \in MethodRows
      <3>1. t.id \in Rows => Demoted(c)[t.id] \in MethodRows
        BY DemotedRows DEF Rows
      <3>2. t.default # None => t.default \in BOOLEAN
        BY DEF TapRequest
      <3> QED
        BY <3>1, <3>2 DEF MethodRows
    <2> HIDE DEF row
    <2>3. method' \in [Methods -> MethodRows \cup {None}] /\ Rows \subseteq Rows'
      <3>1. Demoted(c) \in [Methods -> MethodRows \cup {None}]
            /\ \A m \in Methods : m \in Rows => Demoted(c)[m] \in MethodRows
        BY DemotedRows
      <3>2. method' \in [Methods -> MethodRows \cup {None}]
        BY <2>1, <2>2, <3>1
      <3>3. ASSUME NEW m \in Methods, method[m] # None PROVE method'[m] # None
        BY <2>1, <2>2, <3>1, <3>3, PayMethodsAssumption DEF Rows
      <3> QED
        BY <3>2, <3>3 DEF Rows
    <2>4. tap' = [tap EXCEPT ![c] = NoTap]
      BY <1>6 DEF WriteMethod
    <2> QED
      BY <2>3, <2>4, NoTapIs, TapGoes
  <1>7. ASSUME NEW m \in Methods, DeleteMethod(m) PROVE MethodsInv'
    BY <1>7 DEF DeleteMethod, Locked, Rows
  <1> QED
    BY <1>1, <1>2, <1>3, <1>4, <1>5, <1>6, <1>7 DEF PayMethodsNext

\* The last default goes with its row, or by a request that said so.
Excused ==
    \/ DefaultMethods \ Rows' # {}
    \/ \E c \in Taps :
          /\ tap[c].pc = "commit_update" /\ tap'[c].pc = "idle"
          /\ tap[c].default = FALSE \/ tap[c].id \notin Rows

\* A statement that would leave no default either failed, or was asked to.
LEMMA DefaultStays ==
    ASSUME MethodsInv, PayMethodsNext,
           DefaultMethods # {}, DefaultMethods' = {}
    PROVE  Excused
  <1> USE DEF MethodsInv
  <1>0. PICK m \in Methods : method[m] # None /\ method[m].default
    BY DEF DefaultMethods, Rows
  <1>gone. \A n \in Methods : method'[n] = None \/ ~method'[n].default
    BY DEF DefaultMethods, Rows
  <1>same. method' # method
    BY <1>0, <1>gone
  <1>1. \A c \in Taps : ~AddMethod(c) /\ ~UpdateMethod(c) /\ ~SetDefaultMethod(c)
                        /\ ~ClearDefault(c)
    BY <1>same
       DEF AddMethod, UpdateMethod, SetDefaultMethod, ClearDefault, TapBegins
  <1>2. ASSUME NEW n \in Methods, DeleteMethod(n) PROVE Excused
    <2>1. method'[m] = None
      BY <1>0, <1>2, <1>gone DEF DeleteMethod
    <2> QED
      BY <1>0, <2>1 DEF Excused, DefaultMethods, Rows
  <1>3. ASSUME NEW c \in Taps, InsertMethod(c) PROVE FALSE
    <2> DEFINE row == [default |-> tap[c].default, key |-> tap[c].key]
    <2>1. /\ ~Refused(c)
          /\ method' = [Demoted(c) EXCEPT ![tap[c].id] = row]
          /\ tap[c].pc = "commit_insert"
      BY <1>3, <1>same DEF InsertMethod
    <2>2. tap[c].id \in Methods /\ tap[c].default \in BOOLEAN /\ row \in MethodRows
      BY <2>1 DEF TapRequest, MethodRows
    <2>3. tap[c].id \notin Rows
      BY <2>1 DEF Refused
    <2>4. tap[c].default # TRUE
      <3>1. method'[tap[c].id] = row
        BY <2>1, <2>2, DemotedRows
      <3> QED
        <4>1. row # None /\ (row.default <=> tap[c].default)
          BY <2>2, PayMethodsAssumption
        <4> HIDE DEF row
        <4> QED
          BY <2>2, <3>1, <4>1, <1>gone
    <2>5. method'[m] = method[m]
      BY <1>0, <2>1, <2>2, <2>3, <2>4, DemotedRows DEF Rows
    <2> QED
      BY <1>0, <1>gone, <2>5
  <1>4. ASSUME NEW c \in Taps, WriteMethod(c) PROVE Excused
    <2> DEFINE t == tap[c]
    <2>1. t.pc = "commit_update" /\ tap'[c].pc = "idle"
      BY <1>4, NoTapIs DEF WriteMethod
    <2>2. CASE t.default = FALSE \/ t.id \notin Rows
      BY <2>1, <2>2 DEF Excused
    <2>3. CASE ~(t.default = FALSE \/ t.id \notin Rows)
      <3> DEFINE row == [Demoted(c)[t.id] EXCEPT !.default = t.default]
      <3>1. t.default # None /\ method' = [Demoted(c) EXCEPT ![t.id] = row]
        BY <1>4, <1>same, <2>3 DEF WriteMethod
      <3>2. t.default = TRUE
        BY <2>3, <3>1 DEF TapRequest
      <3>3. Demoted(c)[t.id] \in MethodRows /\ t.id \in Methods
        BY <2>3, DemotedRows DEF Rows
      <3>4. row.default /\ row \in MethodRows
        BY <3>2, <3>3 DEF MethodRows
      <3> HIDE DEF row
      <3>5. method'[t.id] = row
        BY <3>1, <3>3, DemotedRows
      <3> QED
        BY <3>4, <3>5, <3>3, <1>gone, PayMethodsAssumption
    <2> QED
      BY <2>2, <2>3
  <1> QED
    BY <1>1, <1>2, <1>3, <1>4 DEF PayMethodsNext

-----------------------------------------------------------------------------
(* Ratings.                                                                 *)

Averages == {Average(rs) : rs \in [Trips -> Scores \cup {None}]} \cup {None}
UpdateRun == [pc : {"idle", "avg", "write"}, of : Profiles, avg : Averages]

\* Unless two updates of a profile overlapped, or one was lost, one at most is
\* at work; that of the profile rated last holds the average as it is.
RatingsInv ==
    /\ ratings \in [Trips -> Scores \cup {None}]
    /\ updater \in [Updaters -> UpdateRun]
    /\ torn \in [Profiles -> BOOLEAN] /\ latest \in Profiles
    /\ profile \in [Profiles -> Averages]
    /\ \A u, w \in Updaters :
          updater[u].pc # "idle" /\ updater[w].pc # "idle"
          /\ updater[u].of = updater[w].of /\ ~torn[updater[u].of] => u = w
    /\ \A u \in Updaters :
          updater[u].pc = "write" /\ updater[u].of = latest /\ ~torn[latest] =>
              updater[u].avg = AvgScore
    /\ ProfileShowsAverage

\* Nobody is rated.
LEMMA RatingsInvInit == RatingsInit => RatingsInv
  <1>1. NoUpdater.pc = "idle" /\ NoUpdater \in UpdateRun
    BY DEF NoUpdater, UpdateRun, Averages, Profiles
  <1> QED
    BY <1>1 DEF RatingsInit, RatingsInv, Rated, ProfileShowsAverage, Profiles,
                Averages

\* A submission begins an update of its profile; an update that is alone read
\* the average after the newest rating.
LEMMA RatingsKept == ASSUME RatingsInv, RatingsNext PROVE RatingsInv'
  <1>0. AvgScore \in Averages /\ NoUpdater \in UpdateRun /\ NoUpdater.pc = "idle"
    BY DEF AvgScore, Averages, NoUpdater, RatingsInv, UpdateRun, Profiles
  <1>same. ratings' = ratings => AvgScore' = AvgScore /\ Rated' = Rated
    BY DEF AvgScore, Rated
  <1>of. \A u \in Updaters : updater[u].of \in Profiles
    BY DEF RatingsInv, UpdateRun
  <1>1. ASSUME NEW x \in Trips, NEW score \in Scores, SubmitRating(x, score)
        PROVE  RatingsInv'
    <2> DEFINE p == Direction(x)
    <2>p. p \in Profiles
      BY DEF Direction, Profiles
    <2>1. PICK u \in Updaters :
             /\ updater[u].pc = "idle"
             /\ updater' = [updater EXCEPT ![u] =
                               [pc |-> "avg", of |-> p, avg |-> None]]
      BY <1>1 DEF SubmitRating
    <2>2. [pc |-> "avg", of |-> p, avg |-> None] \in UpdateRun
      BY <2>p DEF UpdateRun, Averages
    <2>3. /\ updater' \in [Updaters -> UpdateRun]
          /\ updater'[u].pc = "avg" /\ updater'[u].of = p
          /\ \A w \in Updaters \ {u} : updater'[w] = updater[w]
      BY <2>1, <2>2 DEF RatingsInv
    <2>4. ratings' \in [Trips -> Scores \cup {None}] /\ profile' = profile
      BY <1>1 DEF SubmitRating, CreateRating, RatingsInv
    <2>5. /\ torn' \in [Profiles -> BOOLEAN] /\ latest' = p
          /\ ~torn'[p] => \A w \in Updaters :
                             updater[w].pc = "idle" \/ updater[w].of # p
          /\ \A i \in Profiles \ {p} : torn'[i] = torn[i]
      BY <1>1, <2>p DEF SubmitRating, RatingsInv, Updating
    <2> HIDE DEF p
    <2>6. \A v, w \in Updaters :
             updater'[v].pc # "idle" /\ updater'[w].pc # "idle"
             /\ updater'[v].of = updater'[w].of /\ ~torn'[updater'[v].of] => v = w
      <3> SUFFICES ASSUME NEW v \in Updaters, NEW w \in Updaters,
                          updater'[v].pc # "idle", updater'[w].pc # "idle",
                          updater'[v].of = updater'[w].of, ~torn'[updater'[v].of]
                   PROVE  v = w
        OBVIOUS
      <3>1. CASE updater'[v].of = p
        BY <2>3, <2>5, <3>1
      <3>2. CASE updater'[v].of # p
        <4>1. v # u /\ w # u
          BY <2>3, <3>2
        <4>2. updater'[v] = updater[v] /\ updater'[w] = updater[w]
          BY <2>3, <4>1
        <4>3. torn'[updater[v].of] = torn[updater[v].of]
          BY <2>5, <3>2, <4>2, <1>of
        <4> QED
          BY <4>2, <4>3 DEF RatingsInv
      <3> QED
        BY <3>1, <3>2
    <2>7. \A w \in Updaters :
             ~(updater'[w].pc = "write" /\ updater'[w].of = p /\ ~torn'[p])
      BY <2>3, <2>5
    <2>8. ProfileShowsAverage'
      BY <2>3, <2>5 DEF ProfileShowsAverage, Updating
    <2>9. latest' \in Profiles /\ profile' \in [Profiles -> Averages]
      BY <2>p, <2>4, <2>5 DEF RatingsInv
    <2> QED
      BY <2>3, <2>4, <2>5, <2>6, <2>7, <2>8, <2>9 DEF RatingsInv
  <1>2. ASSUME NEW u \in Updaters, ReadAverage(u) PROVE RatingsInv'
    <2> DEFINE rec == [pc |-> "write", of |-> updater[u].of, avg |-> AvgScore]
    <2>1. rec \in UpdateRun
      BY <1>0, <1>of DEF UpdateRun
    <2>2. updater' \in [Updaters -> UpdateRun]
          /\ updater'[u].pc = "write" /\ updater'[u].avg = AvgScore
          /\ updater'[u].of = updater[u].of /\ updater[u].pc = "avg"
          /\ \A w \in Updaters \ {u} : updater'[w] = updater[w]
      BY <1>2, <2>1 DEF ReadAverage, RatingsInv
    <2>3. UNCHANGED <<ratings, profile, latest, torn>>
      BY <1>2 DEF ReadAverage
    <2>4. Updating(latest)' = Updating(latest)
      BY <2>2, <2>3 DEF Updating
    <2>5. ProfileShowsAverage'
      BY <2>3, <2>4, <1>same DEF ProfileShowsAverage, RatingsInv
    <2> QED
      BY <2>2, <2>3, <2>5, <1>same DEF RatingsInv
  <1>ends. ASSUME NEW u \in Updaters, UpdateEnds(u)
           PROVE  /\ updater' \in [Updaters -> UpdateRun]
                  /\ updater'[u].pc = "idle"
                  /\ \A w \in Updaters \ {u} : updater'[w] = updater[w]
                  /\ UNCHANGED <<ratings, latest>>
    BY <1>ends, <1>0 DEF UpdateEnds, RatingsInv
  <1>3. ASSUME NEW u \in Updaters, UpdateProfileRating(u) PROVE RatingsInv'
    <2> DEFINE p == updater[u].of
    <2>1. /\ updater' \in [Updaters -> UpdateRun] /\ updater'[u].pc = "idle"
          /\ \A w \in Updaters \ {u} : updater'[w] = updater[w]
          /\ UNCHANGED <<ratings, latest>>
      BY <1>3, <1>ends DEF UpdateProfileRating
    <2>2. updater[u].pc = "write" /\ torn' = torn /\ updater[u].avg \in Averages
      BY <1>3 DEF UpdateProfileRating, RatingsInv, UpdateRun
    <2>3. /\ profile' \in [Profiles -> Averages] /\ profile'[p] = updater[u].avg
          /\ \A i \in Profiles \ {p} : profile'[i] = profile[i]
      BY <1>3, <1>of, <2>2 DEF UpdateProfileRating, RatingsInv
    <2>4. ProfileShowsAverage'
      <3> SUFFICES ASSUME Rated # {}, Updating(latest)' = {}, ~torn[latest]
                   PROVE  profile'[latest] = AvgScore
        BY <1>same, <2>1, <2>2 DEF ProfileShowsAverage
      <3>1. CASE p = latest
        BY <2>2, <2>3, <3>1 DEF RatingsInv
      <3>2. CASE p # latest
        <4>1. Updating(latest) = {}
          BY <2>1, <3>2 DEF Updating
        <4> QED
          BY <2>3, <3>2, <4>1 DEF RatingsInv, ProfileShowsAverage
      <3> QED
        BY <3>1, <3>2
    <2> QED
      BY <2>1, <2>2, <2>3, <2>4, <1>same DEF RatingsInv
  <1>4. ASSUME NEW u \in Updaters, UpdateLost(u) PROVE RatingsInv'
    <2> DEFINE p == updater[u].of
    <2>1. /\ updater' \in [Updaters -> UpdateRun] /\ updater'[u].pc = "idle"
          /\ \A w \in Updaters \ {u} : updater'[w] = updater[w]
          /\ UNCHANGED <<ratings, latest>>
      BY <1>4, <1>ends DEF UpdateLost
    <2>2. /\ torn' \in [Profiles -> BOOLEAN] /\ torn'[p]
          /\ \A i \in Profiles \ {p} : torn'[i] = torn[i]
          /\ profile' = profile
      BY <1>4, <1>of DEF UpdateLost, RatingsInv
    <2>3. \A i \in Profiles : ~torn'[i] => i # p /\ ~torn[i]
      BY <2>2
    <2>4. ProfileShowsAverage'
      <3> SUFFICES ASSUME Rated # {}, Updating(latest)' = {}, ~torn'[latest]
                   PROVE  profile[latest] = AvgScore
        BY <1>same, <2>1, <2>2 DEF ProfileShowsAverage
      <3>1. latest # p /\ ~torn[latest]
        BY <2>3 DEF RatingsInv
      <3>2. Updating(latest) = {}
        BY <2>1, <3>1 DEF Updating
      <3> QED
        BY <3>1, <3>2 DEF RatingsInv, ProfileShowsAverage
    <2>5. \A v, w \in Updaters :
             updater'[v].pc # "idle" /\ updater'[w].pc # "idle"
             /\ updater'[v].of = updater'[w].of /\ ~torn'[updater'[v].of] => v = w
      <3> SUFFICES ASSUME NEW v \in Updaters, NEW w \in Updaters,
                          updater'[v].pc # "idle", updater'[w].pc # "idle",
                          updater'[v].of = updater'[w].of, ~torn'[updater'[v].of]
                   PROVE  v = w
        OBVIOUS
      <3>1. updater'[v] = updater[v] /\ updater'[w] = updater[w]
        BY <2>1
      <3>2. ~torn[updater[v].of]
        BY <2>3, <3>1, <1>of
      <3> QED
        BY <3>1, <3>2 DEF RatingsInv
    <2> QED
      BY <2>1, <2>2, <2>3, <2>4, <2>5, <1>same DEF RatingsInv
  <1> QED
    BY <1>1, <1>2, <1>3, <1>4 DEF RatingsNext

-----------------------------------------------------------------------------
(* Messages.                                                                *)

DeliveryRun == [pc : {"idle", "resolve", "fan_out"}, notice : Notices \cup {None},
                audience : Audiences \cup {None}, target : Accounts \cup {None},
                todo : SUBSET (Accounts \cup {None}), push : SUBSET PushTokens]
FeedRows == {"none", "unread", "read", "deleted"}
MessagesType ==
    /\ notice \in [Notices -> NoticeRows \cup {None}]
    /\ delivery \in [Deliveries -> DeliveryRun]
    /\ feed \in [Accounts \X Notices -> FeedRows]
    /\ mirror \in [Accounts -> PushTokens \cup {None}]

Unsent(row) == row = None \/ row.status \in {"DRAFT", "SCHEDULED"}
InNoFeed(rows, n) == \A u \in Accounts : rows[<<u, n>>] = "none"
Running(j) == delivery[j].pc # "idle"

\* A notice has one delivery at most, which began when it was claimed; whoever
\* the delivery has still to reach has no row of it.
MessagesInv ==
    /\ MessagesType
    /\ \A j \in Deliveries : Running(j) =>
          delivery[j].notice \in Notices /\ ~Unsent(notice[delivery[j].notice])
    /\ \A i, j \in Deliveries :
          Running(i) /\ Running(j) /\ delivery[i].notice = delivery[j].notice => i = j
    /\ \A n \in Notices : Unsent(notice[n]) => InNoFeed(feed, n)
    /\ \A j \in Deliveries :
          /\ delivery[j].pc = "resolve" => InNoFeed(feed, delivery[j].notice)
          /\ delivery[j].pc = "fan_out" =>
                \A u \in delivery[j].todo \cap Accounts :
                    feed[<<u, delivery[j].notice>>] = "none"
    /\ NoticeArrivesOnce


\* A delivery that is not under way.
LEMMA NoDeliveryIs == NoDelivery \in DeliveryRun /\ NoDelivery.pc = "idle"
  BY DEF NoDelivery, DeliveryRun

\* No campaign is written and nobody has a notice.
LEMMA MessagesInvInit == MessagesInit => MessagesInv
  <1> SUFFICES ASSUME MessagesInit PROVE MessagesInv
    OBVIOUS
  <1>1. MessagesType
    BY NoDeliveryIs DEF MessagesInit, MessagesType, FeedRows
  <1>2. \A j \in Deliveries : delivery[j].pc = "idle"
    BY NoDeliveryIs DEF MessagesInit
  <1>3. \A n \in Notices : InNoFeed(feed, n)
    BY DEF MessagesInit, InNoFeed
  <1> QED
    BY <1>1, <1>2, <1>3
       DEF MessagesInit, MessagesInv, Running, NoticeArrivesOnce

\* What a user or a device does makes no row of a notice that had none.
LEMMA UserStep ==
    ASSUME MessagesInv, UNCHANGED <<notice, delivery, twice>>,
           feed' \in [Accounts \X Notices -> FeedRows],
           mirror' \in [Accounts -> PushTokens \cup {None}],
           \A x \in Accounts \X Notices : feed[x] = "none" => feed'[x] = "none"
    PROVE  MessagesInv'
  BY DEF MessagesInv, MessagesType, Unsent, InNoFeed, Running,
         NoticeArrivesOnce

\* A row that has a delivery is not unsent again.
LEMMA NoticeStep ==
    ASSUME MessagesInv, UNCHANGED <<delivery, feed, twice, mirror>>,
           notice' \in [Notices -> NoticeRows \cup {None}],
           \A n \in Notices : ~Unsent(notice[n]) => ~Unsent(notice'[n])
    PROVE  MessagesInv'
  <1> USE DEF MessagesInv
  <1>1. MessagesType'
    BY DEF MessagesType
  <1>2. \A j \in Deliveries : delivery'[j].pc # "idle" =>
           delivery'[j].notice \in Notices /\ ~Unsent(notice'[delivery'[j].notice])
    BY DEF Running
  <1>3. \A n \in Notices : Unsent(notice'[n]) => InNoFeed(feed', n)
    BY DEF InNoFeed
  <1> QED
    BY <1>1, <1>2, <1>3 DEF Running, InNoFeed, NoticeArrivesOnce

\* A notice that is claimed has no delivery yet, and is in no feed.
LEMMA DeliverStep ==
    ASSUME MessagesInv, NEW n \in Notices, NEW j \in Deliveries,
           NEW row \in NoticeRows, Unsent(notice[n]), Deliver(j, n, row),
           UNCHANGED <<feed, twice, mirror>>,
           notice' \in [Notices -> NoticeRows \cup {None}],
           notice'[n] \in NoticeRows, notice'[n].status = "SENT",
           \A m \in Notices \ {n} : notice'[m] = notice[m]
    PROVE  MessagesInv'
  <1> USE DEF MessagesInv
  <1> DEFINE d == [NoDelivery EXCEPT !.pc = "resolve", !.notice = n,
                             !.audience = row.audience, !.target = row.target]
  <1>1. d \in DeliveryRun /\ d.pc = "resolve" /\ d.notice = n
    BY DEF DeliveryRun, NoDelivery, NoticeRows
  <1>2. delivery' = [delivery EXCEPT ![j] = d] /\ delivery[j].pc = "idle"
    BY DEF Deliver
  <1> HIDE DEF d
  <1>3. /\ delivery' \in [Deliveries -> DeliveryRun]
        /\ delivery'[j].pc = "resolve" /\ delivery'[j].notice = n
        /\ \A i \in Deliveries \ {j} : delivery'[i] = delivery[i]
    BY <1>1, <1>2 DEF MessagesType
  <1>4. ~Unsent(notice'[n]) /\ \A m \in Notices \ {n} : Unsent(notice'[m]) = Unsent(notice[m])
    BY MessagesAssumption DEF Unsent
  <1>5. \A i \in Deliveries : Running(i) => delivery[i].notice # n
    BY DEF Running
  <1>6. \A m \in Notices : Unsent(notice'[m]) => InNoFeed(feed', m)
    BY <1>4 DEF InNoFeed
  <1>7. MessagesType'
    BY <1>3 DEF MessagesType
  <1>8. \A i \in Deliveries : delivery'[i].pc # "idle" =>
           delivery'[i].notice \in Notices /\ ~Unsent(notice'[delivery'[i].notice])
    BY <1>3, <1>4 DEF Running
  <1>9. \A i, k \in Deliveries : delivery'[i].pc # "idle" /\ delivery'[k].pc # "idle"
           /\ delivery'[i].notice = delivery'[k].notice => i = k
    BY <1>3, <1>5 DEF Running
  <1>10. InNoFeed(feed', n)
    BY DEF InNoFeed
  <1>11. \A i \in Deliveries : delivery'[i].pc = "resolve" =>
            InNoFeed(feed', delivery'[i].notice)
    BY <1>3, <1>10 DEF InNoFeed
  <1>12. \A i \in Deliveries : delivery'[i].pc = "fan_out" =>
            \A u \in delivery'[i].todo \cap Accounts :
                feed'[<<u, delivery'[i].notice>>] = "none"
    BY <1>3
  <1> QED
    BY <1>6, <1>7, <1>8, <1>9, <1>11, <1>12 DEF Running, NoticeArrivesOnce

\* A delivery that goes on with the same notice, and leaves the feed alone.
LEMMA DeliveryStep ==
    ASSUME MessagesInv, NEW j \in Deliveries, NEW d \in DeliveryRun,
           delivery' = [delivery EXCEPT ![j] = d],
           d.pc # "idle" => Running(j) /\ d.notice = delivery[j].notice,
           d.pc = "resolve" => InNoFeed(feed, d.notice),
           d.pc = "fan_out" => \A u \in d.todo \cap Accounts :
                                   feed[<<u, d.notice>>] = "none",
           UNCHANGED <<notice, feed, twice>>,
           mirror' \in [Accounts -> PushTokens \cup {None}]
    PROVE  MessagesInv'
  <1> USE DEF MessagesInv
  <1>1. /\ delivery' \in [Deliveries -> DeliveryRun] /\ delivery'[j] = d
        /\ \A i \in Deliveries \ {j} : delivery'[i] = delivery[i]
    BY DEF MessagesType
  <1>2. \A m \in Notices : Unsent(notice'[m]) = Unsent(notice[m])
    BY DEF Unsent
  <1>3. \A m : InNoFeed(feed', m) = InNoFeed(feed, m)
    BY DEF InNoFeed
  <1>4. MessagesType'
    BY <1>1 DEF MessagesType
  <1>5. \A i \in Deliveries : delivery'[i].pc # "idle" =>
           delivery'[i].notice \in Notices /\ ~Unsent(notice'[delivery'[i].notice])
    BY <1>1, <1>2 DEF Running
  <1>6. \A i, k \in Deliveries : delivery'[i].pc # "idle" /\ delivery'[k].pc # "idle"
           /\ delivery'[i].notice = delivery'[k].notice => i = k
    BY <1>1 DEF Running
  <1>7. \A i \in Deliveries : delivery'[i].pc = "resolve" =>
            InNoFeed(feed', delivery'[i].notice)
    BY <1>1, <1>3
  <1>8. \A i \in Deliveries : delivery'[i].pc = "fan_out" =>
            \A u \in delivery'[i].todo \cap Accounts :
                feed'[<<u, delivery'[i].notice>>] = "none"
    BY <1>1
  <1> QED
    BY <1>2, <1>3, <1>4, <1>5, <1>6, <1>7, <1>8 DEF Running, NoticeArrivesOnce

\* What the console does to a campaign before anybody delivers it.
LEMMA CampaignKept ==
    ASSUME MessagesInv, NEW n \in Notices,
           \/ CreateNotificationCampaign(n) \/ NotifyDriver(n)
           \/ SendNotificationCampaign(n) \/ DispatchDueCampaigns(n)
           \/ DeleteNotificationCampaign(n) \/ ScheduleComes(n)
    PROVE  MessagesInv'
  <1> USE DEF MessagesInv, MessagesType
  <1>create. ASSUME NEW audience \in Audiences,
                    NEW status \in {"SENT", "DRAFT", "SCHEDULED"},
                    NEW target \in ResolveDriver(audience),
                    CreateNotice(n, audience, target, status)
             PROVE  MessagesInv'
    <2> DEFINE row == [status |-> status, audience |-> audience, target |-> target]
    <2>1. row \in NoticeRows /\ row.status = status
      BY DEF NoticeRows, ResolveDriver
    <2>2. /\ notice[n] = None /\ notice' = [notice EXCEPT ![n] = row]
          /\ UNCHANGED <<feed, twice, mirror>>
          /\ IF status = "SENT" THEN \E j \in Deliveries : Deliver(j, n, row)
             ELSE UNCHANGED delivery
      BY <1>create DEF CreateNotice, InsertNotice, NoticeOnly
    <2> HIDE DEF row
    <2>3. /\ notice' \in [Notices -> NoticeRows \cup {None}] /\ notice'[n] = row
          /\ \A m \in Notices \ {n} : notice'[m] = notice[m]
      BY <2>1, <2>2
    <2>4. Unsent(notice[n])
      BY <2>2 DEF Unsent
    <2>5. CASE status = "SENT"
      <3>1. PICK j \in Deliveries : Deliver(j, n, row)
        BY <2>2, <2>5
      <3> QED
        BY <2>1, <2>2, <2>3, <2>4, <2>5, <3>1, DeliverStep
    <2>6. CASE status # "SENT"
      <3>1. \A m \in Notices : ~Unsent(notice[m]) => ~Unsent(notice'[m])
        BY <2>3, <2>4 DEF Unsent
      <3> QED
        BY <2>2, <2>3, <2>6, <3>1, NoticeStep
    <2> QED
      BY <2>5, <2>6
  <1>claim. ASSUME notice[n] # None, notice[n].status \in {"DRAFT", "SCHEDULED"},
                   notice' = [notice EXCEPT ![n].status = "SENT"],
                   NoticeOnly,
                   (\E j \in Deliveries : Deliver(j, n, notice[n]))
                      \/ UNCHANGED delivery
            PROVE  MessagesInv'
    <2> DEFINE row == [notice[n] EXCEPT !.status = "SENT"]
    <2>1. row \in NoticeRows /\ row.status = "SENT" /\ notice[n] \in NoticeRows
      BY <1>claim DEF NoticeRows
    <2>2. notice' = [notice EXCEPT ![n] = row]
      BY <1>claim
    <2> HIDE DEF row
    <2>3. /\ notice' \in [Notices -> NoticeRows \cup {None}] /\ notice'[n] = row
          /\ \A m \in Notices \ {n} : notice'[m] = notice[m]
      BY <2>1, <2>2
    <2>4. Unsent(notice[n]) /\ UNCHANGED <<feed, twice, mirror>>
      BY <1>claim DEF Unsent, NoticeOnly
    <2>5. ASSUME NEW j \in Deliveries, Deliver(j, n, notice[n]) PROVE MessagesInv'
      BY <2>1, <2>3, <2>4, <2>5, DeliverStep
    <2>6. CASE UNCHANGED delivery
      <3>1. \A m \in Notices : ~Unsent(notice[m]) => ~Unsent(notice'[m])
        BY <2>3, <2>4 DEF Unsent
      <3> QED
        BY <2>3, <2>4, <2>6, <3>1, NoticeStep
    <2> QED
      BY <1>claim, <2>5, <2>6
  <1>1. CASE CreateNotificationCampaign(n)
    BY <1>1, <1>create DEF CreateNotificationCampaign
  <1>2. CASE NotifyDriver(n)
    BY <1>2, <1>create DEF NotifyDriver, Audiences
  <1>3. CASE SendNotificationCampaign(n)
    BY <1>3, <1>claim DEF SendNotificationCampaign, ClaimNotice
  <1>4. CASE DispatchDueCampaigns(n)
    BY <1>4, <1>claim DEF DispatchDueCampaigns, ClaimDue
  <1>5. CASE DeleteNotificationCampaign(n)
    <2> DEFINE row == [notice[n] EXCEPT !.status = "DELETED"]
    <2>1. /\ notice[n] # None /\ notice' = [notice EXCEPT ![n] = row]
          /\ UNCHANGED <<delivery, feed, twice, mirror>>
      BY <1>5 DEF DeleteNotificationCampaign, DeleteNotice, NoticeOnly
    <2>2. row \in NoticeRows /\ row.status = "DELETED"
      BY <2>1 DEF NoticeRows
    <2> HIDE DEF row
    <2>3. /\ notice' \in [Notices -> NoticeRows \cup {None}] /\ notice'[n] = row
          /\ \A m \in Notices \ {n} : notice'[m] = notice[m]
      BY <2>1, <2>2
    <2>4. \A m \in Notices : ~Unsent(notice[m]) => ~Unsent(notice'[m])
      BY <2>2, <2>3, MessagesAssumption DEF Unsent
    <2> QED
      BY <2>1, <2>3, <2>4, NoticeStep
  <1>6. CASE ScheduleComes(n)
    <2>1. \A m \in Notices : Unsent(notice'[m]) = Unsent(notice[m])
      BY <1>6 DEF ScheduleComes, Unsent
    <2> QED
      BY <1>6, <2>1, NoticeStep DEF ScheduleComes
  <1> QED
    BY <1>1, <1>2, <1>3, <1>4, <1>5, <1>6

\* One delivery: it claims its row first, then writes feeds.
LEMMA DeliveryKept ==
    ASSUME MessagesInv, NEW j \in Deliveries,
           \/ ResolveAudience(j) \/ DeliveryEnds(j)
           \/ \E u \in Accounts : SendToAllDevices(j, u)
           \/ \E t \in PushTokens : PushNotice(j, t)
    PROVE  MessagesInv'
  <1> USE DEF MessagesInv, MessagesType
  <1>1. CASE ResolveAudience(j)
    <2> DEFINE todo == TargetUserIDs(delivery[j].audience, delivery[j].target)
               d == [delivery[j] EXCEPT !.pc = "fan_out", !.todo = todo]
    <2>1. todo \subseteq Accounts \cup {None}
      BY MessagesAssumption DEF TargetUserIDs, DeliveryRun
    <2>2. /\ d \in DeliveryRun /\ d.pc = "fan_out"
          /\ d.notice = delivery[j].notice /\ d.todo = todo
      BY <2>1 DEF DeliveryRun
    <2>3. delivery' = [delivery EXCEPT ![j] = d] /\ delivery[j].pc = "resolve"
          /\ UNCHANGED <<notice, feed, twice, mirror>>
      BY <1>1 DEF ResolveAudience, NoTokens, DeliveryOnly
    <2> HIDE DEF d, todo
    <2>4. delivery[j].notice \in Notices /\ InNoFeed(feed, delivery[j].notice)
      BY <2>3 DEF Running
    <2> QED
      BY <2>2, <2>3, <2>4, DeliveryStep DEF Running, InNoFeed
  <1>2. CASE DeliveryEnds(j)
    BY <1>2, NoDeliveryIs, DeliveryStep
       DEF DeliveryEnds, NoTokens, DeliveryOnly
  <1>3. ASSUME NEW u \in Accounts, SendToAllDevices(j, u) PROVE MessagesInv'
    <2> DEFINE n == delivery[j].notice
               todo == delivery[j].todo \ {u}
               d == [delivery[j] EXCEPT !.todo = todo,
                                        !.push = @ \cup ListDeviceTokens(u)]
    <2>1. ListDeviceTokens(u) \subseteq PushTokens
      BY DEF ListDeviceTokens
    <2>2. /\ d \in DeliveryRun /\ d.pc = delivery[j].pc /\ d.notice = n
          /\ d.todo = todo
      BY <2>1 DEF DeliveryRun
    <2>3. /\ delivery' = [delivery EXCEPT ![j] = d]
          /\ delivery[j].pc = "fan_out" /\ u \in delivery[j].todo
          /\ UNCHANGED <<notice, mirror>>
          /\ PersistNotice(u, n) \/ UNCHANGED <<feed, twice>>
      BY <1>3 DEF SendToAllDevices, NoTokens, DeliveryOnly, DeliveryRun
    <2> HIDE DEF d
    <2>4. n \in Notices /\ ~Unsent(notice[n]) /\ feed[<<u, n>>] = "none"
      BY <2>3 DEF Running
    <2>5. CASE UNCHANGED <<feed, twice>>
      BY <2>2, <2>3, <2>5, DeliveryStep DEF Running
    <2>6. CASE PersistNotice(u, n)
      <3>1. twice' = twice /\ feed' = [feed EXCEPT ![<<u, n>>] = "unread"]
        BY <2>4, <2>6 DEF PersistNotice
      <3>2. /\ feed' \in [Accounts \X Notices -> FeedRows]
            /\ \A v \in Accounts, m \in Notices :
                  v # u \/ m # n => feed'[<<v, m>>] = feed[<<v, m>>]
        BY <3>1, <2>4 DEF FeedRows
      <3>3. /\ delivery' \in [Deliveries -> DeliveryRun] /\ delivery'[j] = d
            /\ \A i \in Deliveries \ {j} : delivery'[i] = delivery[i]
        BY <2>2, <2>3
      <3>4. \A i \in Deliveries \ {j} : Running(i) =>
               delivery[i].notice \in Notices /\ delivery[i].notice # n
        BY <2>3 DEF Running
      <3>5. \A m \in Notices : Unsent(notice'[m]) = Unsent(notice[m])
        BY <2>3 DEF Unsent
      <3>6. \A m \in Notices \ {n} : InNoFeed(feed, m) => InNoFeed(feed', m)
        BY <3>2 DEF InNoFeed
      <3>7. \A i \in Deliveries : delivery'[i].pc # "idle" =>
               delivery'[i].notice \in Notices /\ ~Unsent(notice'[delivery'[i].notice])
        BY <2>2, <2>3, <3>3, <3>5 DEF Running
      <3>8. \A i, k \in Deliveries : delivery'[i].pc # "idle" /\ delivery'[k].pc # "idle"
               /\ delivery'[i].notice = delivery'[k].notice => i = k
        BY <2>2, <2>3, <3>3 DEF Running
      <3>9. \A m \in Notices : Unsent(notice'[m]) => InNoFeed(feed', m)
        BY <2>4, <3>5, <3>6
      <3>10. \A i \in Deliveries : delivery'[i].pc = "resolve" =>
                InNoFeed(feed', delivery'[i].notice)
        BY <2>2, <2>3, <3>3, <3>4, <3>6 DEF Running
      <3>11. \A i \in Deliveries : delivery'[i].pc = "fan_out" =>
                \A v \in delivery'[i].todo \cap Accounts :
                    feed'[<<v, delivery'[i].notice>>] = "none"
        <4>1. ASSUME NEW i \in Deliveries \ {j}, delivery[i].pc = "fan_out",
                     NEW v \in delivery[i].todo \cap Accounts
              PROVE  feed'[<<v, delivery[i].notice>>] = "none"
          BY <3>2, <3>4, <4>1 DEF Running
        <4>2. ASSUME NEW v \in todo \cap Accounts
              PROVE  feed'[<<v, n>>] = "none"
          BY <2>3, <2>4, <3>2
        <4> QED
          BY <2>2, <3>3, <4>1, <4>2
      <3>12. MessagesType'
        BY <2>3, <3>2, <3>3
      <3> QED
        BY <3>1, <3>7, <3>8, <3>9, <3>10, <3>11, <3>12
           DEF Running, NoticeArrivesOnce
    <2> QED
      BY <2>3, <2>5, <2>6
  <1>4. ASSUME NEW t \in PushTokens, PushNotice(j, t) PROVE MessagesInv'
    <2> DEFINE d == [delivery[j] EXCEPT !.push = @ \ {t}]
    <2>1. /\ d \in DeliveryRun /\ d.pc = delivery[j].pc
          /\ d.notice = delivery[j].notice /\ d.todo = delivery[j].todo
      BY DEF DeliveryRun
    <2>2. /\ delivery' = [delivery EXCEPT ![j] = d]
          /\ UNCHANGED <<notice, feed, twice>>
      BY <1>4 DEF PushNotice, DeliveryOnly, DeliveryRun
    <2>3. mirror' \in [Accounts -> PushTokens \cup {None}]
      BY <1>4 DEF PushNotice, PruneDeviceToken
    <2> HIDE DEF d
    <2> QED
      BY <2>1, <2>2, <2>3, DeliveryStep DEF Running
  <1> QED
    BY <1>1, <1>2, <1>3, <1>4

\* What users do to their feeds and their devices.
LEMMA UserKept ==
    ASSUME MessagesInv,
           \/ \E u \in Accounts :
                 \/ MarkAllRead(u)
                 \/ \E n \in Notices : MarkRead(u, n) \/ MarkUnread(u, n)
                                       \/ DeleteRow(u, n)
                 \/ \E t \in PushTokens :
                       RegisterDeviceToken(u, t) \/ UnregisterDeviceToken(u, t)
           \/ \E t \in PushTokens : AppRemoved(t)
    PROVE  MessagesInv'
  <1> USE DEF MessagesInv, MessagesType
  <1>row. ASSUME NEW u \in Accounts, NEW n \in Notices,
                 NEW r \in {"read", "unread", "deleted"},
                 feed[<<u, n>>] # "none", SetRow(u, n, r)
          PROVE  MessagesInv'
    <2>1. /\ feed' \in [Accounts \X Notices -> FeedRows]
          /\ \A x \in Accounts \X Notices : feed[x] = "none" => feed'[x] = "none"
      BY <1>row DEF SetRow, FeedRows
    <2> QED
      BY <1>row, <2>1, UserStep DEF SetRow, UserOnly, NoTokens
  <1>1. ASSUME NEW u \in Accounts, MarkAllRead(u) PROVE MessagesInv'
    <2>1. /\ feed' \in [Accounts \X Notices -> FeedRows]
          /\ \A x \in Accounts \X Notices : feed[x] = "none" => feed'[x] = "none"
      BY <1>1 DEF MarkAllRead, FeedRows
    <2> QED
      BY <1>1, <2>1, UserStep DEF MarkAllRead, UserOnly, NoTokens
  <1>2. ASSUME NEW u \in Accounts, NEW n \in Notices,
               MarkRead(u, n) \/ MarkUnread(u, n) \/ DeleteRow(u, n)
        PROVE  MessagesInv'
    <2>1. /\ feed[<<u, n>>] # "none"
          /\ SetRow(u, n, "read") \/ SetRow(u, n, "unread") \/ SetRow(u, n, "deleted")
      BY <1>2 DEF MarkRead, MarkUnread, DeleteRow
    <2> QED
      BY <2>1, <1>row
  <1>3. ASSUME NEW u \in Accounts, NEW t \in PushTokens, RegisterDeviceToken(u, t)
        PROVE  MessagesInv'
    <2>1. mirror' \in [Accounts -> PushTokens \cup {None}]
      BY <1>3 DEF RegisterDeviceToken, UpsertDeviceToken
    <2> QED
      BY <1>3, <2>1, UserStep DEF RegisterDeviceToken, UserOnly
  <1>4. ASSUME NEW u \in Accounts, NEW t \in PushTokens, UnregisterDeviceToken(u, t)
        PROVE  MessagesInv'
    <2>1. mirror' \in [Accounts -> PushTokens \cup {None}]
      BY <1>4 DEF UnregisterDeviceToken, DeleteDeviceToken
    <2> QED
      BY <1>4, <2>1, UserStep DEF UnregisterDeviceToken, UserOnly
  <1>5. ASSUME NEW t \in PushTokens, AppRemoved(t) PROVE MessagesInv'
    BY <1>5, UserStep DEF AppRemoved, UserOnly
  <1> QED
    BY <1>1, <1>2, <1>3, <1>4, <1>5

\* The console, a delivery, a user, or time.
LEMMA MessagesKept == ASSUME MessagesInv, MessagesNext PROVE MessagesInv'
  BY CampaignKept, DeliveryKept, UserKept DEF MessagesNext

-----------------------------------------------------------------------------
(* Limits.                                                                  *)

\* The calls of the counter's window, and those of earlier ones, or of counters
\* that are lost, that are not yet as old as a window.
Began == lapse + expires - Window
OfWindow == {x \in served : x[1] >= Began /\ x[3] = losses}
Before == {x \in served : ~(x[1] >= Began /\ x[3] = losses)}
Strict == limiter = "otp" \/ (limiter = "ip" /\ production) \/ outages = 0
LimitsType ==
    /\ limiter \in Limiters /\ production \in BOOLEAN
    /\ lapse \in Nat /\ outages \in Nat /\ losses \in Nat
    /\ counter \in (Nat \ {0}) \cup {None}
    /\ expires \in 0..Window
    /\ served \subseteq Nat \X Nat \X Nat /\ IsFiniteSet(served)
    /\ \A x \in served : x[1] <= lapse /\ x[3] <= losses
\* The calls of this tick are numbered from 0: none is counted as another.
Now == {x \in served : x[1] = lapse}
Numbered == \A x \in Now : x[2] < Cardinality(Now)
LimitsInv ==
    /\ LimitsType
    /\ Numbered
    /\ counter = None <=> expires = 0
    /\ Strict /\ counter = None =>
          /\ Cardinality(served) < (1 + losses) * MaxRequests
          /\ \A x \in served : x[1] < lapse \/ x[3] < losses
    /\ Strict /\ counter # None =>
          /\ Cardinality(OfWindow) <= counter /\ Cardinality(OfWindow) <= MaxRequests
          /\ Cardinality(Before) < (1 + losses) * MaxRequests
          /\ \E x \in OfWindow : x[1] = Began
          /\ \A x \in Before : x[1] <= Began

\* Fewer at least as old, no more of a set than of one that holds it.
LEMMA PartOf ==
    ASSUME NEW S, NEW T, IsFiniteSet(T), S \subseteq T
    PROVE  /\ IsFiniteSet(S) /\ Cardinality(S) \in Nat /\ Cardinality(T) \in Nat
           /\ Cardinality(S) <= Cardinality(T)
           /\ \A x \in T : x \notin S => Cardinality(S) < Cardinality(T)
  BY FS_Subset, FS_CardinalityType

\* Nothing is counted and nothing was let through.
LEMMA LimitsInvInit == LimitsInit => LimitsInv
  <1>1. IsFiniteSet({}) /\ Cardinality({}) = 0
    BY FS_EmptySet
  <1>2. (1 + 0) * MaxRequests > 0
    BY LimitsAssumption
  <1> QED
    BY <1>1, <1>2, LimitsAssumption
       DEF LimitsInit, LimitsInv, LimitsType, Numbered, Now

\* One more call let through, now.
LEMMA ServedOne ==
    ASSUME LimitsInv, Serve, lapse' = lapse
    PROVE  /\ Numbered'
           /\ \E x : /\ x \in Nat \X Nat \X Nat /\ x \notin served
                    /\ x[1] = lapse /\ x[3] = losses
                    /\ served' = served \cup {x}
  <1> USE DEF LimitsInv, LimitsType
  <1> DEFINE x == <<lapse, Cardinality(Now), losses>>
  <1>1. Cardinality(Now) \in Nat /\ IsFiniteSet(Now)
    BY PartOf DEF Now
  <1>2. /\ x \in Nat \X Nat \X Nat
        /\ x[1] = lapse /\ x[2] = Cardinality(Now) /\ x[3] = losses
    BY <1>1
  <1>3. x \notin Now
    BY <1>1, <1>2 DEF Numbered
  <1>4. served' = served \cup {x}
    BY DEF Serve, Now
  <1> HIDE DEF x
  <1>5. Now' = Now \cup {x}
    BY <1>2, <1>4 DEF Now
  <1>6. Cardinality(Now') = Cardinality(Now) + 1
    BY <1>1, <1>3, <1>5, FS_AddElement
  <1>7. \A y \in Now : y[2] \in Nat
    BY DEF Now
  <1>8. Numbered'
    BY <1>1, <1>2, <1>5, <1>6, <1>7 DEF Numbered
  <1> QED
    BY <1>2, <1>3, <1>4, <1>8 DEF Now

\* The numbers given to calls stay while no call is let through.
LEMMA NumbersStay == Numbered /\ UNCHANGED <<served, lapse>> => Numbered'
  BY DEF Numbered, Now

\* A call that the counter lets through, or not: the window it is of has no
\* more than the limit, and begins with it if there was none.
LEMMA LimitedCall ==
    ASSUME LimitsInv, Limited, UNCHANGED <<limiter, production, losses, lapse>>
    PROVE  LimitsInv'
  <1> USE LimitsAssumption DEF LimitsInv, LimitsType
  <1>1. /\ counter' = Count /\ Count \in Nat \ {0}
        /\ expires' = (IF Count = 1 THEN Window ELSE expires)
        /\ outages' = outages
    BY DEF Limited, atomicIncr, Count
  <1>2. (counter = None <=> Count = 1) /\ expires' # 0
    BY <1>1 DEF Count
  <1>strict. Strict' <=> Strict
    BY <1>1 DEF Strict
  <1>3. CASE Count > MaxRequests
    <2>1. served' = served /\ expires' = expires /\ counter # None
      BY <1>1, <1>2, <1>3 DEF Limited, Refuse
    <2>2. OfWindow' = OfWindow /\ Before' = Before /\ Began' = Began
      BY <2>1 DEF OfWindow, Before, Began
    <2>3. Cardinality(OfWindow) \in Nat
      BY PartOf DEF OfWindow
    <2> QED
      BY <1>1, <1>2, <1>3, <1>strict, <2>1, <2>2, <2>3, NumbersStay
  <1>4. CASE ~(Count > MaxRequests)
    <2>1. Serve
      BY <1>4 DEF Limited
    <2>num. Numbered'
      BY <2>1, ServedOne
    <2>2. PICK x : /\ x \in Nat \X Nat \X Nat /\ x[1] = lapse /\ x[3] = losses
                   /\ served' = served \cup {x}
      BY <2>1, ServedOne
    <2>3. /\ served' \subseteq Nat \X Nat \X Nat /\ IsFiniteSet(served')
          /\ \A y \in served' : y[1] <= lapse' /\ y[3] <= losses'
      BY <2>2, FS_AddElement
    <2>4. LimitsType'
      BY <1>1, <1>2, <2>3
    <2>5. counter' # None /\ expires' # 0
      BY <1>1, <1>2
    <2>6. ASSUME Strict
          PROVE  /\ Cardinality(OfWindow') <= counter'
                 /\ Cardinality(OfWindow') <= MaxRequests
                 /\ Cardinality(Before') < (1 + losses) * MaxRequests
                 /\ \E y \in OfWindow' : y[1] = Began'
                 /\ \A y \in Before' : y[1] <= Began'
      <3>1. CASE counter = None
        <4>1. Began' = lapse /\ counter' = 1
          BY <1>1, <1>2, <3>1 DEF Began
        <4>2. OfWindow' = {x} /\ Before' = served
          BY <2>2, <2>6, <3>1, <4>1 DEF OfWindow, Before
        <4>3. Cardinality({x}) = 1
          BY FS_Singleton
        <4> QED
          BY <2>2, <2>3, <2>6, <3>1, <4>1, <4>2, <4>3
      <3>2. CASE counter # None
        <4>1. expires' = expires /\ Began' = Began /\ Began <= lapse
          BY <1>1, <1>2, <3>2 DEF Began
        <4>2. OfWindow' = OfWindow \cup {x} /\ Before' = Before
          <5>1. \A y \in Nat \X Nat \X Nat : y[1] \in Nat /\ y[3] \in Nat
            OBVIOUS
          <5>2. Began \in Int /\ x[1] >= Began /\ x[3] = losses
            BY <2>2, <4>1 DEF Began
          <5> QED
            BY <2>2, <4>1, <5>1, <5>2 DEF OfWindow, Before
        <4>3. /\ IsFiniteSet(OfWindow) /\ Cardinality(OfWindow) \in Nat
          BY PartOf DEF OfWindow
        <4>4. Cardinality(OfWindow \cup {x}) <= Cardinality(OfWindow) + 1
              /\ Cardinality(OfWindow \cup {x}) \in Nat
          <5>1. Cardinality(OfWindow \cup {x}) = Cardinality(OfWindow)
                \/ Cardinality(OfWindow \cup {x}) = Cardinality(OfWindow) + 1
            BY <4>3, FS_AddElement
          <5> QED
            BY <4>3, <5>1
        <4>5. counter' = counter + 1 /\ counter' <= MaxRequests
          BY <1>1, <1>4, <3>2 DEF Count
        <4> QED
          BY <2>2, <2>6, <3>2, <4>1, <4>2, <4>3, <4>4, <4>5
      <3> QED
        BY <3>1, <3>2
    <2> QED
      BY <1>strict, <2>num, <2>4, <2>5, <2>6
  <1> QED
    BY <1>3, <1>4

\* A call that an unreachable Redis lets through is of no strict limiter.
LEMMA UnlimitedCall ==
    ASSUME LimitsInv, Unreachable, Serve \/ Refuse,
           UNCHANGED <<limiter, production, losses, lapse>>,
           Strict' => Refuse
    PROVE  LimitsInv'
  <1> USE LimitsAssumption DEF LimitsInv, LimitsType
  <1>1. outages' = outages + 1 /\ UNCHANGED <<counter, expires>>
    BY DEF Unreachable
  <1>2. CASE Refuse
    <2>1. served' = served /\ OfWindow' = OfWindow /\ Before' = Before /\ Began' = Began
      BY <1>1, <1>2 DEF Refuse, OfWindow, Before, Began
    <2>2. Strict' => Strict
      BY <1>1 DEF Strict
    <2> QED
      BY <1>1, <2>1, <2>2, NumbersStay
  <1>3. CASE Serve /\ ~Strict'
    <2>num. Numbered'
      BY <1>3, ServedOne
    <2>1. PICK x : /\ x \in Nat \X Nat \X Nat /\ x[1] = lapse /\ x[3] = losses
                   /\ served' = served \cup {x}
      BY <1>3, ServedOne
    <2>2. /\ served' \subseteq Nat \X Nat \X Nat /\ IsFiniteSet(served')
          /\ \A y \in served' : y[1] <= lapse' /\ y[3] <= losses'
      BY <2>1, FS_AddElement
    <2> QED
      BY <1>1, <1>3, <2>num, <2>2
  <1> QED
    BY <1>2, <1>3

\* The limit, and as much for each counter lost.
LEMMA LossBound ==
    ASSUME NEW n \in Nat
    PROVE  /\ (1 + n) * MaxRequests \in Nat /\ MaxRequests <= (1 + n) * MaxRequests
           /\ (2 + n) * MaxRequests = (1 + n) * MaxRequests + MaxRequests
           /\ (1 + (n + 1)) * MaxRequests = (1 + n) * MaxRequests + MaxRequests
  <1>1. MaxRequests \in Nat
    BY LimitsAssumption
  <1>2. n * MaxRequests \in Nat
    BY <1>1
  <1>3. /\ (1 + n) * MaxRequests = n * MaxRequests + MaxRequests
        /\ (2 + n) * MaxRequests = n * MaxRequests + 2 * MaxRequests
        /\ (1 + (n + 1)) * MaxRequests = n * MaxRequests + 2 * MaxRequests
    BY <1>1
  <1> QED
    BY <1>1, <1>2, <1>3

\* The calls of the last window are those of the counter's and the others.
LEMMA BothWindows ==
    ASSUME LimitsInv
    PROVE  /\ Cardinality(served) = Cardinality(OfWindow) + Cardinality(Before)
           /\ Cardinality(OfWindow) \in Nat /\ Cardinality(Before) \in Nat
  <1>1. served = OfWindow \cup Before /\ OfWindow \cap Before = {}
    BY DEF OfWindow, Before
  <1>2. IsFiniteSet(OfWindow) /\ IsFiniteSet(Before)
    BY PartOf DEF OfWindow, Before, LimitsInv, LimitsType
  <1>3. Cardinality(OfWindow \cap Before) = 0
    BY <1>1, FS_EmptySet
  <1>4. Cardinality(OfWindow) \in Nat /\ Cardinality(Before) \in Nat
    BY <1>2, FS_CardinalityType
  <1>5. Cardinality(OfWindow \cup Before)
           = Cardinality(OfWindow) + Cardinality(Before) - 0
    BY <1>2, <1>3, FS_Union
  <1> QED
    BY <1>1, <1>4, <1>5

\* A counter lost: its calls are of no window now.
LEMMA LostKept == ASSUME LimitsInv, CounterLost PROVE LimitsInv'
  <1> USE DEF LimitsInv, LimitsType
  <1>1. /\ counter # None /\ counter' = None /\ expires' = 0 /\ losses' = losses + 1
        /\ UNCHANGED <<limiter, production, served, outages, lapse>>
    BY DEF CounterLost
  <1>2. LimitsType' /\ Numbered' /\ (Strict' <=> Strict)
    BY <1>1, LimitsAssumption, NumbersStay DEF Strict
  <1>3. Strict => Cardinality(served) < (1 + (losses + 1)) * MaxRequests
    BY <1>1, BothWindows, LossBound, LimitsAssumption
  <1>4. \A x \in served : x[3] < losses + 1
    OBVIOUS
  <1> QED
    BY <1>1, <1>2, <1>3, <1>4

\* A tick: the calls of a window ago go, and with the counter its window's
\* first one.
LEMMA TickKept == ASSUME LimitsInv, TimePasses PROVE LimitsInv'
  <1> USE LimitsAssumption DEF LimitsInv, LimitsType
  <1>1. /\ lapse' = lapse + 1 /\ outages' = outages
        /\ counter' = (IF expires <= 1 THEN None ELSE counter)
        /\ expires' = (IF expires = 0 THEN 0 ELSE expires - 1)
        /\ served' = {x \in served : x[1] + Window > lapse + 1}
        /\ UNCHANGED <<limiter, production, losses>>
    BY DEF TimePasses
  <1>2. served' \subseteq served /\ IsFiniteSet(served')
        /\ Cardinality(served') \in Nat /\ Cardinality(served') <= Cardinality(served)
    BY <1>1, PartOf
  <1>3. LimitsType'
    BY <1>1, <1>2
  <1>4. (counter' = None <=> expires' = 0) /\ (Strict' <=> Strict) /\ losses' = losses
    BY <1>1 DEF Strict
  <1>5. \A x \in served' : x[1] < lapse'
    BY <1>1
  <1>bound. (1 + losses) * MaxRequests \in Nat
            /\ MaxRequests <= (1 + losses) * MaxRequests
    BY LossBound
  <1>6. ASSUME Strict, counter' = None
        PROVE  Cardinality(served') < (1 + losses) * MaxRequests
    <2>1. CASE counter = None
      <3>1. Cardinality(served) < (1 + losses) * MaxRequests
            /\ Cardinality(served) \in Nat
        BY <1>6, <2>1, FS_CardinalityType
      <3> QED
        BY <1>2, <1>bound, <3>1
    <2>2. CASE counter # None
      <3>1. expires = 1 /\ Began = lapse + 1 - Window
        BY <1>1, <1>6, <2>2 DEF Began
      <3>2. PICK y \in OfWindow : y[1] = Began
        BY <1>6, <2>2
      <3>3. y \in OfWindow /\ y \notin served' /\ served' \subseteq OfWindow
        <4>1. \A x \in Before : x[1] <= Began /\ x[1] \in Nat
          BY <1>6, <2>2 DEF Before
        <4>2. \A x \in served' : x \notin Before
          BY <1>1, <3>1, <4>1
        <4>3. \A x \in served : x \in OfWindow \/ x \in Before
          BY DEF OfWindow, Before
        <4> QED
          BY <1>1, <1>2, <3>1, <3>2, <4>2, <4>3
      <3>4. IsFiniteSet(OfWindow) /\ Cardinality(OfWindow) \in Nat
        BY PartOf DEF OfWindow
      <3>5. Cardinality(served') < Cardinality(OfWindow)
        BY <3>3, <3>4, PartOf
      <3> QED
        BY <1>2, <1>6, <1>bound, <2>2, <3>4, <3>5
    <2> QED
      BY <2>1, <2>2
  <1>7. ASSUME Strict, counter' # None
        PROVE  /\ Cardinality(OfWindow') <= counter'
               /\ Cardinality(OfWindow') <= MaxRequests
               /\ Cardinality(Before') < (1 + losses) * MaxRequests
               /\ \E x \in OfWindow' : x[1] = Began'
               /\ \A x \in Before' : x[1] <= Began'
    <2>1. expires > 1 /\ counter' = counter /\ counter # None /\ Began' = Began
      BY <1>1, <1>7 DEF Began
    <2>2. OfWindow' \subseteq OfWindow /\ Before' \subseteq Before
      BY <1>1, <2>1 DEF OfWindow, Before
    <2>3. IsFiniteSet(OfWindow) /\ Cardinality(OfWindow) \in Nat
          /\ IsFiniteSet(Before) /\ Cardinality(Before) \in Nat
      BY PartOf DEF OfWindow, Before
    <2>4. /\ Cardinality(OfWindow') \in Nat /\ Cardinality(Before') \in Nat
          /\ Cardinality(OfWindow') <= Cardinality(OfWindow)
          /\ Cardinality(Before') <= Cardinality(Before)
      BY <2>2, <2>3, PartOf
    <2>5. \E x \in OfWindow' : x[1] = Began'
      BY <1>1, <1>7, <2>1 DEF Began, OfWindow
    <2>6. \A x \in Before' : x[1] <= Began'
      BY <1>7, <2>1, <2>2
    <2> QED
      BY <1>7, <1>bound, <2>1, <2>3, <2>4, <2>5, <2>6
  <1>8. Numbered'
    <2>1. \A x \in served : x[1] # lapse + 1
      OBVIOUS
    <2>2. Now' = {}
      BY <1>1, <2>1 DEF Now
    <2> QED
      BY <2>2 DEF Numbered
  <1> QED
    BY <1>3, <1>4, <1>5, <1>6, <1>7, <1>8

\* A call to a strict limiter, one to a loose one, Redis, or time.
LEMMA LimitsKept == ASSUME LimitsInv, LimitsNext PROVE LimitsInv'
  <1>1. CASE TimePasses
    BY <1>1, TickKept
  <1>3. CASE CounterLost
    BY <1>3, LostKept
  <1>2. CASE /\ OTPRateLimit \/ IPRateLimit \/ UserRateLimit \/ UserRateLimit429
             /\ UNCHANGED <<limiter, production, losses, lapse>>
    <2>1. CASE Limited
      BY <1>2, <2>1, LimitedCall
    <2>2. CASE Unreachable /\ ~Limited
      <3>1. Serve \/ Refuse
        BY <1>2, <2>2
           DEF OTPRateLimit, IPRateLimit, UserRateLimit, UserRateLimit429
      <3>2. ASSUME Strict' PROVE Refuse
        <4>1. limiter = "otp" \/ (limiter = "ip" /\ production)
          BY <1>2, <2>2, <3>2 DEF Strict, Unreachable, LimitsInv, LimitsType
        <4> QED
          BY <1>2, <2>2, <4>1 DEF OTPRateLimit, IPRateLimit, UserRateLimit,
                UserRateLimit429
      <3> QED
        BY <1>2, <2>2, <3>1, <3>2, UnlimitedCall
    <2> QED
      BY <1>2, <2>1, <2>2
         DEF OTPRateLimit, IPRateLimit, UserRateLimit, UserRateLimit429
  <1> QED
    BY <1>1, <1>2, <1>3 DEF LimitsNext

\* What the windows hold together.
LEMMA LimitsSafe == LimitsInv => NeverTwiceTheLimit
  <1> SUFFICES ASSUME LimitsInv, Strict
               PROVE  Cardinality(served) < (2 + losses) * MaxRequests
    BY DEF NeverTwiceTheLimit, Strict
  <1> USE DEF LimitsInv, LimitsType
  <1>1. Cardinality(served) \in Nat
    BY FS_CardinalityType
  <1>2. CASE counter = None
    BY <1>1, <1>2, LossBound, LimitsAssumption
  <1>3. CASE counter # None
    BY <1>3, BothWindows, LossBound, LimitsAssumption
  <1> QED
    BY <1>2, <1>3

-----------------------------------------------------------------------------
(* Roles.                                                                   *)

Capabilities == {"DRIVER_ACTIVE", "DRIVER_SUSPENDED", "DRIVER_PENDING",
                 "CUSTOMER_ONLY"}
SwitchRun == [pc : {"idle", "count", "write", "revoke"}, read : Standings,
              late : BOOLEAN]
IssueRun == [pc : {"idle", "heal", "issue"}, role : Capabilities \cup {None},
             want : Capabilities \cup {None}, late : BOOLEAN, old : BOOLEAN]
AccessRun == [role : Capabilities \cup {None}, old : BOOLEAN,
              crossed : BOOLEAN, spared : BOOLEAN]
RolesType ==
    /\ access \subseteq AccessRun
    /\ switch \in [Switches -> SwitchRun]
    /\ issue \in [Issues -> IssueRun]
    /\ stray \in BOOLEAN
    /\ approval \in Standings /\ roleState \in Capabilities
RolesInv ==
    /\ RolesType
    /\ RoleIsCapability
    \* What no decision overtook was read as it still is.
    /\ \A q \in Switches :
          switch[q].pc \in {"count", "write"} /\ ~switch[q].late =>
              switch[q].read = approval
    /\ \A i \in Issues :
          issue[i].pc = "heal" =>
              /\ issue[i].want \in Capabilities
              /\ ~issue[i].late => issue[i].want = Capability(approval)
    /\ SwitchRenewsClaims


\* Every status of a profile has one capability.
LEMMA CapabilityIsOne == \A status : Capability(status) \in Capabilities
  BY DEF Capability, Capabilities

\* Everybody starts as a customer, in the row and in the tokens.
LEMMA RolesInvInit == RolesInit => RolesInv
  <1>1. NoSwitch \in SwitchRun /\ NoSwitch.pc = "idle"
    BY DEF NoSwitch, SwitchRun, Standings
  <1>2. NoIssue \in IssueRun /\ NoIssue.pc = "idle"
    BY DEF NoIssue, IssueRun
  <1>3. Legacy \in AccessRun /\ Legacy.spared
    BY DEF Legacy, AccessRun, Capabilities
  <1> QED
    BY <1>1, <1>2, <1>3, CapabilityIsOne
       DEF RolesInit, RolesInv, RolesType, RoleIsCapability,
           SwitchRenewsClaims

\* What is read before a decision is marked as such.
LEMMA Overtaken ==
    ASSUME RolesType, Overtake
    PROVE  /\ \A q \in Switches : switch'[q].pc = switch[q].pc
           /\ \A q \in Switches : switch'[q].pc # "idle" => switch'[q].late
           /\ \A i \in Issues : issue'[i].pc = issue[i].pc
           /\ \A i \in Issues : issue'[i].want = issue[i].want
           /\ \A i \in Issues : issue'[i].pc = "heal" => issue'[i].late
           /\ switch' \in [Switches -> SwitchRun] /\ issue' \in [Issues -> IssueRun]
  BY DEF RolesType, Overtake, SwitchRun, IssueRun

\* One step per statement: what was read before another write is marked.
LEMMA RolesKept == ASSUME RolesInv, RolesNext PROVE RolesInv'
  <1> USE CapabilityIsOne
  <1>1. ASSUME NEW status \in Standings, Rule(status) PROVE RolesInv'
    <2>1. /\ \A q \in Switches : switch'[q].pc = switch[q].pc
          /\ \A q \in Switches : switch'[q].pc # "idle" => switch'[q].late
          /\ \A i \in Issues : issue'[i].pc = issue[i].pc
          /\ \A i \in Issues : issue'[i].want = issue[i].want
          /\ \A i \in Issues : issue'[i].pc = "heal" => issue'[i].late
          /\ switch' \in [Switches -> SwitchRun] /\ issue' \in [Issues -> IssueRun]
      BY <1>1, Overtaken DEF Rule, Ruling, RolesInv
    <2> QED
      BY <1>1, <2>1 DEF Rule, Ruling, RolesInv, RolesType, RoleIsCapability,
                        SwitchRenewsClaims
  <1>2. ASSUME NEW status \in Standings, RuleProfile(status) PROVE RolesInv'
    <2>1. /\ \A q \in Switches : switch'[q].pc = switch[q].pc
          /\ \A q \in Switches : switch'[q].pc # "idle" => switch'[q].late
          /\ \A i \in Issues : issue'[i].pc = issue[i].pc
          /\ \A i \in Issues : issue'[i].want = issue[i].want
          /\ \A i \in Issues : issue'[i].pc = "heal" => issue'[i].late
          /\ switch' \in [Switches -> SwitchRun] /\ issue' \in [Issues -> IssueRun]
      BY <1>2, Overtaken DEF RuleProfile, Ruling, RolesInv
    <2> QED
      BY <1>2, <2>1 DEF RuleProfile, Ruling, RolesInv, RolesType,
                        RoleIsCapability, SwitchRenewsClaims
  <1>3. ASSUME NEW role \in {"DRIVER_ACTIVE", "DRIVER_PENDING"}, RuleRole(role)
        PROVE  RolesInv'
    BY <1>3 DEF RuleRole, RolesInv, RolesType, RoleIsCapability,
                SwitchRenewsClaims, Capabilities
  <1>4. CASE SetPolicyAccepted
    BY <1>4 DEF SetPolicyAccepted, RolesInv, RolesType, RoleIsCapability,
                SwitchRenewsClaims
  <1>5. ASSUME NEW q \in Switches, NEW mode \in {"customer", "driver"},
               SwitchRead(q, mode)
        PROVE  RolesInv'
    <2>1. PICK read \in {approval, None} :
             switch' = [switch EXCEPT ![q] =
                [pc |-> "count", read |-> read, late |-> read # approval]]
      BY <1>5 DEF SwitchRead
    <2>2. [pc |-> "count", read |-> read, late |-> read # approval] \in SwitchRun
      BY DEF SwitchRun, RolesInv, RolesType, Standings
    <2>3. switch' \in [Switches -> SwitchRun]
          /\ switch'[q].read = read /\ switch'[q].pc = "count"
          /\ (~switch'[q].late => read = approval)
          /\ \A w \in Switches \ {q} : switch'[w] = switch[w]
      BY <2>1, <2>2 DEF RolesInv, RolesType
    <2>4. switch[q].pc = "idle"
      BY <1>5 DEF SwitchRead
    <2> QED
      BY <1>5, <2>3, <2>4
         DEF SwitchRead, RolesInv, RolesType, RoleIsCapability,
             SwitchRenewsClaims
  <1>6. ASSUME NEW q \in Switches, SwitchCount(q) PROVE RolesInv'
    <2>1. NoSwitch \in SwitchRun /\ [switch[q] EXCEPT !.pc = "write"] \in SwitchRun
      BY DEF NoSwitch, SwitchRun, Standings, RolesInv, RolesType
    <2>2. switch' \in [Switches -> SwitchRun]
          /\ \A w \in Switches \ {q} : switch'[w] = switch[w]
      BY <1>6, <2>1 DEF SwitchCount, RolesInv, RolesType
    <2>3. \/ switch'[q].pc = "idle"
          \/ switch'[q].pc = "write" /\ switch'[q].read = switch[q].read
             /\ switch'[q].late = switch[q].late
      BY <1>6 DEF SwitchCount, RolesInv, RolesType, NoSwitch, SwitchRun
    <2>4. switch[q].pc = "count"
      BY <1>6 DEF SwitchCount
    <2> QED
      BY <1>6, <2>2, <2>3, <2>4 DEF SwitchCount, RolesInv, RolesType,
            RoleIsCapability, SwitchRenewsClaims
  <1>7. ASSUME NEW q \in Switches, SwitchWrite(q) PROVE RolesInv'
    <2> USE DEF SwitchWrite, SwitchWritten
    <2>1. [switch[q] EXCEPT !.pc = "revoke"] \in SwitchRun
      BY DEF SwitchRun, RolesInv, RolesType
    <2>2. switch' \in [Switches -> SwitchRun] /\ switch'[q].pc = "revoke"
          /\ \A w \in Switches \ {q} : switch'[w] = switch[w]
      BY <1>7, <2>1 DEF RolesInv, RolesType, SwitchRun
    <2>3. issue' \in [Issues -> IssueRun]
          /\ (\A i \in Issues : issue'[i].pc = issue[i].pc)
          /\ (\A i \in Issues : issue'[i].late = issue[i].late)
          /\ (\A i \in Issues : issue'[i].want = issue[i].want)
      BY <1>7 DEF RolesInv, RolesType, IssueRun
    <2>4. SwitchRenewsClaims'
      BY <2>2 DEF SwitchRenewsClaims
    <2>access. access' \subseteq AccessRun
      <3>1. \A t \in AccessRun : [t EXCEPT !.old = TRUE] \in AccessRun
        BY DEF AccessRun
      <3> QED
        BY <1>7, <3>1 DEF RolesInv, RolesType
    <2>5. RolesType'
      BY <1>7, <2>2, <2>3, <2>access DEF RolesInv, RolesType, SwitchRun
    <2>6. RoleIsCapability'
      BY <1>7 DEF RolesInv, RolesType, RoleIsCapability, SwitchRun
    <2> QED
      BY <1>7, <2>2, <2>3, <2>4, <2>5, <2>6 DEF RolesInv
  <1>8. ASSUME NEW q \in Switches, SwitchRevoke(q) PROVE RolesInv'
    <2>1. NoSwitch \in SwitchRun /\ NoSwitch.pc = "idle"
      BY DEF NoSwitch, SwitchRun, Standings
    <2>2. switch' \in [Switches -> SwitchRun] /\ switch'[q].pc = "idle"
          /\ \A w \in Switches \ {q} : switch'[w] = switch[w]
      BY <1>8, <2>1 DEF SwitchRevoke, RolesInv, RolesType
    <2>3. PICK seen \in SUBSET access :
             /\ \A t \in access \ seen : ~t.old \/ t.crossed
             /\ \E failed \in SUBSET seen :
                   access' = (access \ seen) \cup {t \in seen : t.spared}
                               \cup {[t EXCEPT !.spared = TRUE] : t \in failed}
      BY <1>8 DEF SwitchRevoke, revokeAccessSessionsOnly
    <2>4. ASSUME NEW t \in AccessRun
          PROVE  [t EXCEPT !.spared = TRUE] \in AccessRun
                 /\ [t EXCEPT !.spared = TRUE].spared
      BY DEF AccessRun
    <2>5. access \subseteq AccessRun
      BY DEF RolesInv, RolesType
    <2>6. access' \subseteq AccessRun
          /\ \A t \in access' : t.old => t.crossed \/ t.spared
      BY <2>3, <2>4, <2>5
    <2> QED
      BY <1>8, <2>2, <2>6 DEF SwitchRevoke, RolesInv, RolesType,
            RoleIsCapability, SwitchRenewsClaims
  <1>9. ASSUME NEW i \in Issues, ReconcileRead(i) PROVE RolesInv'
    <2> DEFINE want == Capability(approval)
               pc == IF want = roleState THEN "issue" ELSE "heal"
               rec == [NoIssue EXCEPT !.pc = pc, !.role = roleState, !.want = want]
    <2>1. rec \in IssueRun /\ rec.want = want
      BY DEF NoIssue, IssueRun, RolesInv, RolesType
    <2>2. issue' = [issue EXCEPT ![i] = rec]
      BY <1>9 DEF ReconcileRead
    <2> HIDE DEF rec
    <2>3. issue' \in [Issues -> IssueRun] /\ issue'[i].want = want
          /\ \A w \in Issues \ {i} : issue'[w] = issue[w]
      BY <2>1, <2>2 DEF RolesInv, RolesType
    <2> QED
      BY <1>9, <2>3 DEF ReconcileRead, RolesInv, RolesType, RoleIsCapability,
                        SwitchRenewsClaims
  <1>10. ASSUME NEW i \in Issues, ReconcileWrite(i) PROVE RolesInv'
    <2>1. [issue[i] EXCEPT !.pc = "issue"] \in IssueRun
          /\ [issue[i] EXCEPT !.pc = "issue", !.role = issue[i].want] \in IssueRun
          /\ [issue[i] EXCEPT !.pc = "issue"].pc = "issue"
          /\ [issue[i] EXCEPT !.pc = "issue", !.role = issue[i].want].pc = "issue"
          /\ issue[i].late \in BOOLEAN
      BY DEF IssueRun, RolesInv, RolesType
    <2>2. issue' = [issue EXCEPT ![i].pc = "issue", ![i].role = issue[i].want]
          => issue' = [issue EXCEPT ![i] =
                        [issue[i] EXCEPT !.pc = "issue", !.role = issue[i].want]]
      BY DEF RolesInv, RolesType, IssueRun
    <2>3. issue' \in [Issues -> IssueRun] /\ issue'[i].pc = "issue"
          /\ \A w \in Issues \ {i} : issue'[w] = issue[w]
      BY <1>10, <2>1, <2>2 DEF ReconcileWrite, RolesInv, RolesType
    <2>4. issue[i].pc = "heal"
      BY <1>10 DEF ReconcileWrite
    <2>5. \/ UNCHANGED <<roleState, stray>>
          \/ roleState' = issue[i].want /\ stray' = issue[i].late
      BY <1>10 DEF ReconcileWrite
    <2>6. RoleIsCapability' /\ stray' \in BOOLEAN /\ roleState' \in Capabilities
      <3>1. CASE UNCHANGED <<roleState, stray>>
        BY <1>10, <3>1
           DEF ReconcileWrite, RolesInv, RolesType, RoleIsCapability
      <3>2. CASE roleState' = issue[i].want /\ stray' = issue[i].late
        <4>1. ~issue[i].late => issue[i].want = Capability(approval)
          BY <2>4 DEF RolesInv
        <4>2. issue[i].want \in Capabilities
          BY <2>4 DEF RolesInv
        <4> QED
          BY <1>10, <2>1, <3>2, <4>1, <4>2
             DEF ReconcileWrite, RolesInv, RolesType, RoleIsCapability,
                 IssueRun
      <3> QED
        BY <2>5, <3>1, <3>2
    <2> QED
      BY <1>10, <2>3, <2>6 DEF ReconcileWrite, RolesInv, RolesType,
                               SwitchRenewsClaims
  <1>11. ASSUME NEW i \in Issues, RefreshRead(i) PROVE RolesInv'
    <2> DEFINE rec == [NoIssue EXCEPT !.pc = "issue", !.role = roleState]
    <2>1. rec \in IssueRun /\ rec.pc = "issue"
      BY DEF NoIssue, IssueRun, RolesInv, RolesType
    <2>2. issue' = [issue EXCEPT ![i] = rec]
      BY <1>11 DEF RefreshRead
    <2> HIDE DEF rec
    <2>3. issue' \in [Issues -> IssueRun] /\ issue'[i].pc = "issue"
          /\ \A w \in Issues \ {i} : issue'[w] = issue[w]
      BY <2>1, <2>2 DEF RolesInv, RolesType
    <2> QED
      BY <1>11, <2>3 DEF RefreshRead, RolesInv, RolesType, RoleIsCapability,
                        SwitchRenewsClaims
  <1>12. ASSUME NEW i \in Issues, IssueAccess(i) PROVE RolesInv'
    <2>1. NoIssue \in IssueRun /\ NoIssue.pc = "idle"
      BY DEF NoIssue, IssueRun
    <2>2. issue' \in [Issues -> IssueRun] /\ issue'[i].pc = "idle"
          /\ \A w \in Issues \ {i} : issue'[w] = issue[w]
      BY <1>12, <2>1 DEF IssueAccess, RolesInv, RolesType
    <2>3. \A t \in access' : t \in access \/ (t.old => t.crossed)
      BY <1>12 DEF IssueAccess
    <2>4. access' \subseteq AccessRun
      <3>1. issue[i].role \in Capabilities \cup {None} /\ issue[i].old \in BOOLEAN
            /\ access \subseteq AccessRun
        BY DEF RolesInv, RolesType, IssueRun
      <3> DEFINE rec == [role |-> issue[i].role, old |-> issue[i].old,
                         crossed |-> issue[i].old, spared |-> FALSE]
      <3>2. rec \in AccessRun
        BY <3>1 DEF AccessRun
      <3>3. access' = access \cup {rec}
        BY <1>12 DEF IssueAccess
      <3> HIDE DEF rec
      <3> QED
        BY <3>1, <3>2, <3>3
    <2> QED
      BY <1>12, <2>2, <2>3, <2>4 DEF IssueAccess, RolesInv, RolesType,
            RoleIsCapability, SwitchRenewsClaims
  <1>13. ASSUME NEW t \in access, AccessExpires(t) PROVE RolesInv'
    BY <1>13 DEF AccessExpires, RolesInv, RolesType, RoleIsCapability,
                 SwitchRenewsClaims
  <1> QED
    BY <1>1, <1>2, <1>3, <1>4, <1>5, <1>6, <1>7, <1>8, <1>9, <1>10, <1>11,
       <1>12, <1>13 DEF RolesNext

-----------------------------------------------------------------------------
(* Places.                                                                  *)

Versions == Nat \cup {None}
SavedRows == [id : Nat, whole : BOOLEAN, beside : BOOLEAN]
VisitRun == [pc : {"idle", "fill", "drop"}, kind : Kinds, has : Versions,
             passed : BOOLEAN]
ReplaceRun == [pc : {"idle", "lock", "insert"}, sees : SUBSET SavedRows,
               beside : BOOLEAN]
PlacesType ==
    /\ stored \in [Kinds -> Versions]
    /\ cached \in [Kinds -> Versions]
    /\ passed \in [Kinds -> BOOLEAN]
    /\ visit \in [Visits -> VisitRun]
    /\ saved \subseteq SavedRows
    /\ replacing \in [Visits -> ReplaceRun]
    /\ visits \in Nat
Replacing(v) == replacing[v].pc # "idle"

\* What no write has passed was read as it still is.
CopiesInv ==
    /\ CopiesFresh
    /\ \A v \in Visits : visit[v].pc = "fill" /\ ~visit[v].passed =>
          visit[v].has # None /\ visit[v].has = stored[visit[v].kind]

\* A replacement sees every whole set but that of one that ran beside it.
SavedInv ==
    /\ \A v \in Visits : Replacing(v) =>
          \A r \in saved : r.whole =>
              r \in replacing[v].sees \/ (r.beside /\ replacing[v].beside)
    /\ \A v, w \in Visits : Replacing(v) /\ Replacing(w) /\ v # w =>
          replacing[v].beside
    /\ OneSetSaved
PlacesInv == PlacesType /\ CopiesInv /\ SavedInv

\* A run of the reconciler is of one user.
LEMMA RunsAreOf ==
    /\ NoVisit \in VisitRun /\ NoVisit.pc = "idle"
    /\ NoReplace \in ReplaceRun /\ NoReplace.pc = "idle"
  BY DEF NoVisit, VisitRun, Kinds, Versions, NoReplace, ReplaceRun

\* Nothing is copied and nothing is saved.
LEMMA PlacesInvInit == PlacesInit => PlacesInv
  <1> SUFFICES ASSUME PlacesInit PROVE PlacesInv
    OBVIOUS
  <1> USE RunsAreOf DEF PlacesInit
  <1>1. PlacesType
    BY DEF PlacesType, Kinds, Versions
  <1>2. CopiesInv
    BY DEF CopiesInv, CopiesFresh
  <1>3. SavedInv
    BY DEF SavedInv, Replacing, OneSetSaved
  <1> QED
    BY <1>1, <1>2, <1>3 DEF PlacesInv

\* What leaves the copies, and what leaves the saved sets, alone.
LEMMA CopiesAlone == CopiesInv /\ UNCHANGED copyVars => CopiesInv'
  BY DEF CopiesInv, CopiesFresh, copyVars

LEMMA SavedAlone == SavedInv /\ UNCHANGED savedVars => SavedInv'
  BY DEF SavedInv, Replacing, OneSetSaved, savedVars

\* A copy in Redis is made from the row it is a copy of.
LEMMA CopiesKept ==
    ASSUME PlacesType, CopiesInv, UNCHANGED savedVars,
           \/ \E v \in Visits, k \in Kinds : Get(v, k) \/ Store(v, k)
           \/ \E v \in Visits : Fill(v) \/ UpsertRoute(v) \/ Drop(v) \/ DropFails(v)
           \/ \E k \in Kinds : CopyLapses(k)
    PROVE  PlacesType' /\ CopiesInv'
  <1> USE DEF PlacesType
  <1> SUFFICES ASSUME TRUE
               PROVE  /\ stored' \in [Kinds -> Versions]
                      /\ cached' \in [Kinds -> Versions]
                      /\ passed' \in [Kinds -> BOOLEAN]
                      /\ visit' \in [Visits -> VisitRun]
                      /\ visits' \in Nat
                      /\ CopiesInv'
    BY DEF savedVars
  <1>arrive. ASSUME NEW v \in Visits, Arrive(v)
             PROVE  visit[v].pc = "idle" /\ visits' \in Nat
    BY <1>arrive DEF Arrive
  <1>1. ASSUME NEW v \in Visits, NEW k \in Kinds, Get(v, k)
        PROVE  /\ stored' \in [Kinds -> Versions] /\ cached' \in [Kinds -> Versions]
               /\ passed' \in [Kinds -> BOOLEAN] /\ visit' \in [Visits -> VisitRun]
               /\ visits' \in Nat /\ CopiesInv'
    <2>0. PICK has \in {stored[k], 0} :
             visit' = [visit EXCEPT ![v] = [pc |-> "fill", kind |-> k, has |-> has,
                                            passed |-> has # stored[k]]]
      BY <1>1 DEF Get
    <2>1. [pc |-> "fill", kind |-> k, has |-> has, passed |-> has # stored[k]]
             \in VisitRun
      BY DEF VisitRun, Versions
    <2>2. /\ visit' \in [Visits -> VisitRun]
          /\ visit'[v].kind = k /\ visit'[v].pc = "fill"
          /\ ~visit'[v].passed => visit'[v].has = stored[k]
          /\ \A w \in Visits \ {v} : visit'[w] = visit[w]
      BY <2>0, <2>1
    <2> QED
      BY <1>1, <2>2, <1>arrive DEF Get, CopiesInv, CopiesFresh
  <1>2. ASSUME NEW v \in Visits, NEW k \in Kinds, Store(v, k)
        PROVE  /\ stored' \in [Kinds -> Versions] /\ cached' \in [Kinds -> Versions]
               /\ passed' \in [Kinds -> BOOLEAN] /\ visit' \in [Visits -> VisitRun]
               /\ visits' \in Nat /\ CopiesInv'
    <2>1. [NoVisit EXCEPT !.pc = "drop", !.kind = k] \in VisitRun
          /\ [NoVisit EXCEPT !.pc = "drop", !.kind = k].pc = "drop"
          /\ [NoVisit EXCEPT !.pc = "drop", !.kind = k].kind = k
      BY DEF VisitRun, NoVisit, Versions
    <2>2. ASSUME NEW w \in Visits
          PROVE  /\ [visit[w] EXCEPT !.passed = @ \/ visit[w].kind = k] \in VisitRun
                 /\ [visit[w] EXCEPT !.passed = @ \/ visit[w].kind = k].pc = visit[w].pc
                 /\ [visit[w] EXCEPT !.passed = @ \/ visit[w].kind = k].kind = visit[w].kind
                 /\ [visit[w] EXCEPT !.passed = @ \/ visit[w].kind = k].has = visit[w].has
                 /\ ([visit[w] EXCEPT !.passed = @ \/ visit[w].kind = k].passed
                       <=> visit[w].passed \/ visit[w].kind = k)
      BY DEF VisitRun
    <2>3. /\ visit' \in [Visits -> VisitRun]
          /\ visit'[v].pc = "drop" /\ visit'[v].kind = k
          /\ \A w \in Visits \ {v} : visit'[w].pc = visit[w].pc
          /\ \A w \in Visits \ {v} : visit'[w].kind = visit[w].kind
          /\ \A w \in Visits \ {v} : visit'[w].has = visit[w].has
          /\ \A w \in Visits \ {v} : ~visit'[w].passed =>
                ~visit[w].passed /\ visit[w].kind # k
      BY <1>2, <2>1, <2>2 DEF Store
    <2>4. stored' \in [Kinds -> Versions] /\ \A i \in Kinds \ {k} : stored'[i] = stored[i]
      <3>1. (IF stored[k] = None THEN None ELSE stored[k] + 1) \in Versions
        BY DEF Versions
      <3>2. stored' = [stored EXCEPT ![k] =
                          IF stored[k] = None THEN None ELSE stored[k] + 1]
        BY <1>2 DEF Store
      <3> QED
        BY <3>1, <3>2
    <2>5. visit[v].pc = "idle" /\ visits' \in Nat
      BY <1>2, <1>arrive DEF Store
    <2>6. CopiesFresh'
      <3>1. UNCHANGED <<cached, passed>>
        BY <1>2 DEF Store
      <3>2. ASSUME NEW i \in Kinds
            PROVE  \/ cached'[i] = None \/ passed'[i] \/ cached'[i] = stored'[i]
                   \/ \E w \in Visits : visit'[w].pc = "drop" /\ visit'[w].kind = i
        <4>1. CASE i = k
          BY <2>3, <4>1
        <4>2. CASE i # k
          <5>1. stored'[i] = stored[i]
            BY <2>4, <4>2
          <5>2. \A w \in Visits : visit[w].pc = "drop" /\ visit[w].kind = i =>
                   visit'[w].pc = "drop" /\ visit'[w].kind = i
            BY <2>3, <2>5
          <5> QED
            BY <3>1, <5>1, <5>2 DEF CopiesInv, CopiesFresh
        <4> QED
          BY <4>1, <4>2
      <3> QED
        BY <3>2 DEF CopiesFresh
    <2>7. \A w \in Visits : visit'[w].pc = "fill" /\ ~visit'[w].passed =>
             visit'[w].has # None /\ visit'[w].has = stored'[visit'[w].kind]
      BY <2>3, <2>4 DEF CopiesInv, VisitRun
    <2> QED
      BY <1>2, <2>3, <2>4, <2>5, <2>6, <2>7 DEF Store, CopiesInv
  <1>3. ASSUME NEW v \in Visits, Fill(v)
        PROVE  /\ stored' \in [Kinds -> Versions] /\ cached' \in [Kinds -> Versions]
               /\ passed' \in [Kinds -> BOOLEAN] /\ visit' \in [Visits -> VisitRun]
               /\ visits' \in Nat /\ CopiesInv'
    <2> DEFINE k == visit[v].kind
    <2>1. k \in Kinds /\ visit[v].has \in Versions /\ visit[v].passed \in BOOLEAN
      BY DEF VisitRun
    <2>2. /\ visit' \in [Visits -> VisitRun] /\ visit'[v].pc = "idle"
          /\ \A w \in Visits \ {v} : visit'[w] = visit[w]
      BY <1>3, RunsAreOf DEF Fill
    <2>3. /\ cached' \in [Kinds -> Versions] /\ cached'[k] = visit[v].has
          /\ \A i \in Kinds \ {k} : cached'[i] = cached[i]
      BY <1>3, <2>1 DEF Fill
    <2>4. /\ passed' \in [Kinds -> BOOLEAN] /\ passed'[k] = visit[v].passed
          /\ \A i \in Kinds \ {k} : passed'[i] = passed[i]
      BY <1>3, <2>1 DEF Fill
    <2>5. visit[v].pc = "fill" /\ UNCHANGED <<stored, visits>>
      BY <1>3 DEF Fill
    <2>6. ASSUME NEW i \in Kinds
          PROVE  \/ cached'[i] = None \/ passed'[i] \/ cached'[i] = stored'[i]
                 \/ \E w \in Visits : visit'[w].pc = "drop" /\ visit'[w].kind = i
      <3>1. CASE i = k
        BY <2>1, <2>3, <2>4, <2>5, <3>1 DEF CopiesInv
      <3>2. CASE i # k
        BY <2>2, <2>3, <2>4, <2>5, <3>2 DEF CopiesInv, CopiesFresh
      <3> QED
        BY <3>1, <3>2
    <2> QED
      BY <2>2, <2>3, <2>4, <2>5, <2>6 DEF CopiesInv, CopiesFresh
  <1>4. ASSUME NEW v \in Visits, UpsertRoute(v)
        PROVE  /\ stored' \in [Kinds -> Versions] /\ cached' \in [Kinds -> Versions]
               /\ passed' \in [Kinds -> BOOLEAN] /\ visit' \in [Visits -> VisitRun]
               /\ visits' \in Nat /\ CopiesInv'
    <2>1. /\ stored' \in [Kinds -> Versions]
          /\ \A i \in Kinds : stored[i] # None => stored'[i] = stored[i]
      BY <1>4 DEF UpsertRoute, Versions, Kinds
    <2> DEFINE rec == [NoVisit EXCEPT !.pc = "fill", !.has = stored'["route"],
                                      !.passed = TRUE]
    <2>2. rec \in VisitRun /\ rec.passed /\ rec.pc = "fill"
      BY <2>1 DEF VisitRun, NoVisit, Kinds
    <2>3. visit' = [visit EXCEPT ![v] = rec]
      BY <1>4 DEF UpsertRoute
    <2> HIDE DEF rec
    <2>4. /\ visit' \in [Visits -> VisitRun]
          /\ visit'[v].passed /\ visit'[v].pc = "fill"
          /\ \A w \in Visits \ {v} : visit'[w] = visit[w]
      BY <2>2, <2>3
    <2>5. visit[v].pc = "idle" /\ visits' \in Nat /\ UNCHANGED <<cached, passed>>
      BY <1>4, <1>arrive DEF UpsertRoute
    <2>6. CopiesFresh'
      BY <2>1, <2>4, <2>5 DEF CopiesInv, CopiesFresh
    <2>7. \A w \in Visits : visit'[w].pc = "fill" /\ ~visit'[w].passed =>
             visit'[w].has # None /\ visit'[w].has = stored'[visit'[w].kind]
      BY <2>1, <2>4 DEF CopiesInv, VisitRun
    <2> QED
      BY <2>1, <2>4, <2>5, <2>6, <2>7 DEF CopiesInv
  <1>5. ASSUME NEW v \in Visits, Drop(v)
        PROVE  /\ stored' \in [Kinds -> Versions] /\ cached' \in [Kinds -> Versions]
               /\ passed' \in [Kinds -> BOOLEAN] /\ visit' \in [Visits -> VisitRun]
               /\ visits' \in Nat /\ CopiesInv'
    <2> DEFINE k == visit[v].kind
    <2>1. k \in Kinds
      BY DEF VisitRun
    <2>2. /\ visit' \in [Visits -> VisitRun] /\ visit'[v].pc = "idle"
          /\ \A w \in Visits \ {v} : visit'[w] = visit[w]
      BY <1>5, RunsAreOf DEF Drop
    <2>3. /\ cached' \in [Kinds -> Versions] /\ cached'[k] = None
          /\ \A i \in Kinds \ {k} : cached'[i] = cached[i]
      BY <1>5, <2>1 DEF Drop, Versions
    <2>4. UNCHANGED <<stored, passed, visits>>
      BY <1>5 DEF Drop
    <2> QED
      BY <2>1, <2>2, <2>3, <2>4 DEF CopiesInv, CopiesFresh
  <1>6. ASSUME NEW k \in Kinds, CopyLapses(k)
        PROVE  /\ stored' \in [Kinds -> Versions] /\ cached' \in [Kinds -> Versions]
               /\ passed' \in [Kinds -> BOOLEAN] /\ visit' \in [Visits -> VisitRun]
               /\ visits' \in Nat /\ CopiesInv'
    BY <1>6 DEF CopyLapses, CopiesInv, CopiesFresh, Versions
  <1>7. ASSUME NEW v \in Visits, DropFails(v)
        PROVE  /\ stored' \in [Kinds -> Versions] /\ cached' \in [Kinds -> Versions]
               /\ passed' \in [Kinds -> BOOLEAN] /\ visit' \in [Visits -> VisitRun]
               /\ visits' \in Nat /\ CopiesInv'
    <2> DEFINE k == visit[v].kind
    <2>1. k \in Kinds /\ visit[v].pc = "drop"
      BY <1>7 DEF VisitRun, DropFails
    <2>2. /\ visit' \in [Visits -> VisitRun] /\ visit'[v].pc = "idle"
          /\ \A w \in Visits \ {v} : visit'[w] = visit[w]
      BY <1>7, RunsAreOf DEF DropFails
    <2>3. /\ passed' \in [Kinds -> BOOLEAN] /\ passed'[k]
          /\ \A i \in Kinds \ {k} : passed'[i] = passed[i]
      BY <1>7, <2>1 DEF DropFails
    <2>4. UNCHANGED <<stored, cached, visits>>
      BY <1>7 DEF DropFails
    <2>5. ASSUME NEW i \in Kinds
          PROVE  \/ cached'[i] = None \/ passed'[i] \/ cached'[i] = stored'[i]
                 \/ \E w \in Visits : visit'[w].pc = "drop" /\ visit'[w].kind = i
      <3>1. CASE i = k
        BY <2>3, <3>1
      <3>2. CASE i # k
        BY <2>1, <2>2, <2>3, <2>4, <3>2 DEF CopiesInv, CopiesFresh
      <3> QED
        BY <3>1, <3>2
    <2> QED
      BY <2>2, <2>3, <2>4, <2>5 DEF CopiesInv, CopiesFresh
  <1> QED
    BY <1>1, <1>2, <1>3, <1>4, <1>5, <1>6, <1>7

\* Saved places are replaced in one transaction, or not at all.
LEMMA SavedKept ==
    ASSUME PlacesType, SavedInv, UNCHANGED copyVars,
           \E v \in Visits :
              \/ CreateSavedLocation(v) \/ DeleteSavedLocation(v) \/ ReplaceRead(v)
              \/ ReplaceLock(v) \/ ReplaceCommit(v) \/ ReplaceFails(v)
    PROVE  PlacesType' /\ SavedInv'
  <1> USE DEF PlacesType
  <1> SUFFICES ASSUME TRUE
               PROVE  /\ saved' \subseteq SavedRows
                      /\ replacing' \in [Visits -> ReplaceRun]
                      /\ visits' \in Nat
                      /\ SavedInv'
    BY DEF copyVars
  <1>arrive. ASSUME NEW v \in Visits, Arrive(v)
             PROVE  ~Replacing(v) /\ visits' \in Nat
    BY <1>arrive DEF Arrive, Replacing
  <1>1. ASSUME NEW v \in Visits, CreateSavedLocation(v)
        PROVE  /\ saved' \subseteq SavedRows /\ replacing' \in [Visits -> ReplaceRun]
               /\ visits' \in Nat /\ SavedInv'
    <2> DEFINE rec == [id |-> visits, whole |-> FALSE, beside |-> FALSE]
    <2>1. rec \in SavedRows /\ ~rec.whole
      BY DEF SavedRows
    <2>2. saved' = saved \cup {rec} /\ visits' \in Nat /\ replacing' = replacing
      BY <1>1, <1>arrive DEF CreateSavedLocation
    <2> HIDE DEF rec
    <2> QED
      BY <2>1, <2>2 DEF SavedInv, Replacing, OneSetSaved
  <1>2. ASSUME NEW v \in Visits, DeleteSavedLocation(v)
        PROVE  /\ saved' \subseteq SavedRows /\ replacing' \in [Visits -> ReplaceRun]
               /\ visits' \in Nat /\ SavedInv'
    <2>1. saved' \subseteq saved /\ visits' \in Nat /\ replacing' = replacing
      BY <1>2, <1>arrive DEF DeleteSavedLocation
    <2> QED
      BY <2>1 DEF SavedInv, Replacing, OneSetSaved
  <1>3. ASSUME NEW v \in Visits, ReplaceRead(v)
        PROVE  /\ saved' \subseteq SavedRows /\ replacing' \in [Visits -> ReplaceRun]
               /\ visits' \in Nat /\ SavedInv'
    <2> DEFINE others == {w \in Visits : replacing[w].pc # "idle"}
    <2>1. [pc |-> "lock", sees |-> saved, beside |-> others # {}] \in ReplaceRun
      BY DEF ReplaceRun
    <2>2. ASSUME NEW w \in Visits
          PROVE  /\ [replacing[w] EXCEPT !.beside = @ \/ w \in others] \in ReplaceRun
                 /\ [replacing[w] EXCEPT !.beside = @ \/ w \in others].pc
                       = replacing[w].pc
                 /\ [replacing[w] EXCEPT !.beside = @ \/ w \in others].sees
                       = replacing[w].sees
                 /\ (replacing[w].beside \/ w \in others =>
                       [replacing[w] EXCEPT !.beside = @ \/ w \in others].beside)
      BY DEF ReplaceRun
    <2>3. /\ replacing' \in [Visits -> ReplaceRun]
          /\ replacing'[v].sees = saved
          /\ others # {} => replacing'[v].beside
          /\ \A w \in Visits \ {v} : replacing'[w].pc = replacing[w].pc
          /\ \A w \in Visits \ {v} : replacing'[w].sees = replacing[w].sees
          /\ \A w \in Visits \ {v} : Replacing(w) => replacing'[w].beside
      BY <1>3, <2>1, <2>2 DEF ReplaceRead, Replacing
    <2>4. saved' = saved /\ visits' \in Nat
      BY <1>3, <1>arrive DEF ReplaceRead
    <2>5. \A w \in Visits : replacing'[w].pc # "idle" =>
             \A r \in saved' : r.whole =>
                r \in replacing'[w].sees \/ (r.beside /\ replacing'[w].beside)
      BY <2>3, <2>4 DEF SavedInv, Replacing
    <2>6. \A w, x \in Visits : replacing'[w].pc # "idle" /\ replacing'[x].pc # "idle"
             /\ w # x => replacing'[w].beside
      BY <2>3, <2>4 DEF SavedInv, Replacing
    <2> QED
      BY <2>3, <2>4, <2>5, <2>6 DEF SavedInv, Replacing, OneSetSaved
  <1>4. ASSUME NEW v \in Visits, ReplaceLock(v)
        PROVE  /\ saved' \subseteq SavedRows /\ replacing' \in [Visits -> ReplaceRun]
               /\ visits' \in Nat /\ SavedInv'
    <2> DEFINE rec == [replacing[v] EXCEPT !.pc = "insert", !.sees = @ \cap saved]
    <2>1. /\ rec \in ReplaceRun /\ rec.sees = replacing[v].sees \cap saved
          /\ rec.beside = replacing[v].beside
      BY DEF ReplaceRun
    <2>2. replacing' = [replacing EXCEPT ![v] = rec]
      BY <1>4 DEF ReplaceLock, ReplaceRun
    <2> HIDE DEF rec
    <2>3. /\ replacing' \in [Visits -> ReplaceRun]
          /\ replacing'[v].sees = replacing[v].sees \cap saved
          /\ replacing'[v].beside = replacing[v].beside
          /\ \A w \in Visits \ {v} : replacing'[w] = replacing[w]
      BY <2>1, <2>2
    <2>4. UNCHANGED <<saved, visits>> /\ Replacing(v)
      BY <1>4 DEF ReplaceLock, Replacing
    <2> QED
      BY <2>3, <2>4 DEF SavedInv, Replacing, OneSetSaved
  <1>5. ASSUME NEW v \in Visits, ReplaceCommit(v)
        PROVE  /\ saved' \subseteq SavedRows /\ replacing' \in [Visits -> ReplaceRun]
               /\ visits' \in Nat /\ SavedInv'
    <2> DEFINE rec == [id |-> visits, whole |-> TRUE, beside |-> replacing[v].beside]
    <2>1. rec \in SavedRows /\ rec.whole /\ rec.beside = replacing[v].beside
      BY DEF SavedRows, ReplaceRun
    <2>2. saved' = (saved \ replacing[v].sees) \cup {rec} /\ visits' \in Nat
      BY <1>5 DEF ReplaceCommit
    <2> HIDE DEF rec
    <2>3. /\ replacing' \in [Visits -> ReplaceRun] /\ replacing'[v].pc = "idle"
          /\ \A w \in Visits \ {v} : replacing'[w] = replacing[w]
      BY <1>5, RunsAreOf DEF ReplaceCommit
    <2>4. Replacing(v)
      BY <1>5 DEF ReplaceCommit, Replacing
    <2>5. \A r \in saved \ replacing[v].sees :
             r.whole => r.beside /\ replacing[v].beside
      BY <2>4 DEF SavedInv
    <2>6. \A w \in Visits \ {v} :
             Replacing(w) => replacing[w].beside /\ replacing[v].beside
      BY <2>4 DEF SavedInv
    <2>7. \A w \in Visits : replacing'[w].pc # "idle" =>
             \A r \in saved' : r.whole =>
                r \in replacing'[w].sees \/ (r.beside /\ replacing'[w].beside)
      BY <2>1, <2>2, <2>3, <2>6 DEF SavedInv, Replacing
    <2>8. \A w, x \in Visits : replacing'[w].pc # "idle" /\ replacing'[x].pc # "idle"
             /\ w # x => replacing'[w].beside
      BY <2>3 DEF SavedInv, Replacing
    <2>9. OneSetSaved'
      BY <2>1, <2>2, <2>5 DEF SavedInv, OneSetSaved
    <2>10. saved' \subseteq SavedRows
      BY <2>1, <2>2
    <2> QED
      BY <2>2, <2>3, <2>7, <2>8, <2>9, <2>10 DEF SavedInv, Replacing
  <1>6. ASSUME NEW v \in Visits, ReplaceFails(v)
        PROVE  /\ saved' \subseteq SavedRows /\ replacing' \in [Visits -> ReplaceRun]
               /\ visits' \in Nat /\ SavedInv'
    <2>1. /\ replacing' \in [Visits -> ReplaceRun] /\ replacing'[v].pc = "idle"
          /\ \A w \in Visits \ {v} : replacing'[w] = replacing[w]
      BY <1>6, RunsAreOf DEF ReplaceFails
    <2>2. UNCHANGED <<saved, visits>>
      BY <1>6 DEF ReplaceFails
    <2> QED
      BY <2>1, <2>2 DEF SavedInv, Replacing, OneSetSaved
  <1> QED
    BY <1>1, <1>2, <1>3, <1>4, <1>5, <1>6

\* The copies or the saved places; the other is left alone.
LEMMA PlacesKept == ASSUME PlacesInv, PlacesNext PROVE PlacesInv'
  <1>1. CASE \/ \E v \in Visits, k \in Kinds : Get(v, k) \/ Store(v, k)
             \/ \E v \in Visits : Fill(v) \/ UpsertRoute(v) \/ Drop(v) \/ DropFails(v)
             \/ \E k \in Kinds : CopyLapses(k)
    <2>1. UNCHANGED savedVars
      BY <1>1 DEF Get, Store, Fill, UpsertRoute, Drop, DropFails, CopyLapses,
                  savedVars
    <2> QED
      BY <1>1, <2>1, CopiesKept, SavedAlone DEF PlacesInv
  <1>2. CASE \E v \in Visits :
              \/ CreateSavedLocation(v) \/ DeleteSavedLocation(v) \/ ReplaceRead(v)
              \/ ReplaceLock(v) \/ ReplaceCommit(v) \/ ReplaceFails(v)
    <2>1. UNCHANGED copyVars
      BY <1>2 DEF CreateSavedLocation, DeleteSavedLocation, ReplaceRead,
            ReplaceLock, ReplaceCommit, ReplaceFails, copyVars
    <2> QED
      BY <1>2, <2>1, SavedKept, CopiesAlone DEF PlacesInv
  <1> QED
    BY <1>1, <1>2 DEF PlacesNext

-----------------------------------------------------------------------------
(* The whole.                                                               *)

AccountsInv ==
    /\ SignupInv /\ TeamInv /\ MethodsInv /\ RatingsInv /\ MessagesInv
    /\ LimitsInv /\ RolesInv /\ PlacesInv

\* Every part starts as it should.
LEMMA AccountsInvInit == AccountsInit => AccountsInv
  BY SignupInvInit, TeamInvInit, MethodsInvInit, RatingsInvInit,
     MessagesInvInit, LimitsInvInit, RolesInvInit, PlacesInvInit
     DEF AccountsInit, AccountsInv

\* A step is one of a part, or leaves it alone.
LEMMA AccountsInvNext == AccountsInv /\ [AccountsNext]_accountsVars => AccountsInv'
  <1> SUFFICES ASSUME AccountsInv, [AccountsNext]_accountsVars PROVE AccountsInv'
    OBVIOUS
  <1> USE DEF AccountsInv, AccountsNext, accountsVars
  <1>1. SignupInv'
    <2>1. CASE UNCHANGED signupVars
      BY <2>1 DEF signupVars, SignupInv, Guessing, Counted, Counter, PurposeOf
    <2> QED
      BY <2>1, SignupKept
  <1>2. TeamInv'
    <2>1. CASE UNCHANGED teamVars
      BY <2>1, TeamAlone DEF teamVars, TeamInv, AdminType
    <2> QED
      BY <2>1, TeamKept
  <1>3. MethodsInv'
    <2>1. CASE UNCHANGED payMethodsVars
      BY <2>1 DEF payMethodsVars, MethodsInv, Rows
    <2> QED
      BY <2>1, MethodsKept
  <1>4. RatingsInv'
    <2>1. CASE UNCHANGED ratingsVars
      BY <2>1 DEF ratingsVars, RatingsInv, AvgScore, Rated, Updating,
                  ProfileShowsAverage
    <2> QED
      BY <2>1, RatingsKept
  <1>5. MessagesInv'
    <2>1. CASE UNCHANGED messagesVars
      BY <2>1, UserStep DEF messagesVars, MessagesInv, MessagesType
    <2> QED
      BY <2>1, MessagesKept
  <1>6. LimitsInv'
    <2>1. CASE UNCHANGED limitVars
      BY <2>1 DEF limitVars, LimitsInv, LimitsType, Numbered, Now, Strict,
                  OfWindow, Before, Began
    <2> QED
      BY <2>1, LimitsKept
  <1>7. RolesInv'
    <2>1. CASE UNCHANGED rolesVars
      BY <2>1 DEF rolesVars, RolesInv, RolesType, RoleIsCapability,
                  SwitchRenewsClaims
    <2> QED
      BY <2>1, RolesKept
  <1>8. PlacesInv'
    <2>1. CASE UNCHANGED placesVars
      BY <2>1, CopiesAlone, SavedAlone
         DEF placesVars, copyVars, savedVars, PlacesInv, PlacesType
    <2> QED
      BY <2>1, PlacesKept
  <1> QED
    BY <1>1, <1>2, <1>3, <1>4, <1>5, <1>6, <1>7, <1>8

\* Every reachable state is as the parts should be.
LEMMA AccountsInvariance == AccountsSpec => []AccountsInv
  BY AccountsInvInit, AccountsInvNext, PTL DEF AccountsSpec

\* Requests that run at once overrun the cap on wrong codes by one less than
\* there are of them at most, unless Redis failed a call (auth/service.go:184),
\* for any cap and any number of requests.
THEOREM WrongCodesAreCapped == AccountsSpec => []GuessesCapped
  <1>1. AccountsInv => GuessesCapped
    BY SignupSafe DEF AccountsInv
  <1> QED
    BY <1>1, AccountsInvariance, PTL

\* A console session ends with its chain at the latest, and is gone for good
\* when a reset of the password found it and its sweep succeeded (RenewSession,
\* ResetPassword); for any members, requests and session lengths.
THEOREM ConsoleSessionsEnd == AccountsSpec => []SessionsEnd
  <1>1. AccountsInv => SessionsEnd
    BY TeamSafe DEF AccountsInv
  <1> QED
    BY <1>1, AccountsInvariance, PTL

\* What is stored a second time agrees with what it was made from: the average
\* on the profile rated last, the role of a user and in the tokens the sweep
\* reached, the copies in Redis, a set of saved places; for any number of
\* writers, unless two of them overlapped or an ignored error of Redis or of a
\* query left the copy behind (updateCachedRating, SwitchMode,
\* ReconcileRoleState, RecordAgreedFare, ReplaceSavedLocations).
THEOREM CopiesAgree == AccountsSpec => []StoredTwiceAgrees
  <1>1. AccountsInv => StoredTwiceAgrees
    BY DEF AccountsInv, RatingsInv, RolesInv, PlacesInv, CopiesInv, SavedInv,
           StoredTwiceAgrees
  <1> QED
    BY <1>1, AccountsInvariance, PTL

\* However often a campaign is sent, by hand and by every replica's tick,
\* nobody gets it twice (dispatchDueCampaigns, deliverCampaignPush).
THEOREM DeliveredOnce == AccountsSpec => []NoticeArrivesOnce
  <1>1. AccountsInv => NoticeArrivesOnce
    BY DEF AccountsInv, MessagesInv
  <1> QED
    BY <1>1, AccountsInvariance, PTL

\* In any span as long as its window a limiter lets through fewer calls of a
\* key than twice its limit, and once more the limit for each counter that Redis
\* lost (ratelimit.go), for any limit and any window; those that let calls
\* through when Redis does not answer, while it does.
THEOREM LimitHeldTwice == AccountsSpec => []NeverTwiceTheLimit
  <1>1. AccountsInv => NeverTwiceTheLimit
    BY LimitsSafe DEF AccountsInv
  <1> QED
    BY <1>1, AccountsInvariance, PTL

\* A step takes a customer's last default only by deleting its row or by a
\* request that said so; a refused double tap never does
\* (paymentmethods/repository.go).
THEOREM DefaultIsKept == AccountsSpec => DefaultKept
  <1> DEFINE Kept == DefaultMethods # {} /\ DefaultMethods' = {} => Excused
  <1>1. AccountsInv /\ [AccountsNext]_accountsVars => [Kept]_payMethodsVars
    BY DefaultStays DEF AccountsInv, AccountsNext, accountsVars
  <1>2. AccountsSpec => [][Kept]_payMethodsVars
    BY <1>1, AccountsInvariance, PTL DEF AccountsSpec
  <1> QED
    BY <1>2, PTL DEF DefaultKept, Excused

=============================================================================
