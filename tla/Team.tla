-------------------------------- MODULE Team --------------------------------
(***************************************************************************)
(* The console's own accounts (internal/team): invitations, suspension,    *)
(* sign-in with or without a second factor, the sliding session, password  *)
(* reset.                                                                  *)
(*                                                                         *)
(* A session is one Redis key with a lifetime of Idle; renewing issues a   *)
(* new one and carries the time of the first sign-in along.  A password is *)
(* a model value; authenticator codes, mail, the audit log and tokens from *)
(* before login_at was signed into them (510) are left out.                *)
(***************************************************************************)
EXTENDS Naturals, FiniteSets, Absent

CONSTANTS Colleagues, Passwords, Codes, Tokens,
          Calls,                 \* requests in flight
          Idle, SessionMax,      \* cfg.JWT.AdminIdleExpiry, AdminSessionMax
          MaxClock               \* bound: the clock

\* expires: of the key; login: the claim login_at; since: when the holder
\* signed in (a ghost).
TeamSessions == [of : Colleagues, expires : Nat, login : Nat, since : Nat]

ASSUME TeamAssumption ==
    /\ {Idle, SessionMax} \subseteq Nat \ {0} /\ MaxClock \in Nat
    /\ None \notin Passwords \cup Tokens \cup TeamSessions

VARIABLES
    admin,   \* admin_accounts rows; None: no row
    token,   \* Redis session:<admin>:<jti>; None: no such key
    reset,   \* Redis admin:reset_otp and admin:reset_token of each admin
    call,    \* the requests in flight
    clock,
    ended    \* ghost: the sessions that a password reset found and ended
teamVars == <<admin, token, reset, call, clock, ended>>

\* at: when its current request began; login: the claim login_at of the
\* session it renews; since: when that one's holder signed in (a ghost).
NoCall == [pc |-> "idle", of |-> None, with |-> None, at |-> 0, login |-> 0,
           since |-> 0, seen |-> {}]
Begun == [NoCall EXCEPT !.at = clock]
Open(c, rec) == call' = [call EXCEPT ![c] = rec]
Step(c, pc) == call' = [call EXCEPT ![c].pc = pc]
Waits(c) == call[c].pc \in {"idle", "challenge"}
Close(c) == call' = [call EXCEPT ![c] = NoCall]
IsLive(t) == token[t] # None /\ clock < token[t].expires
\* A jti is used once; a name nobody remembers any more serves again.
FreshToken(t) == /\ token[t] = None
            /\ \A c \in Calls : call[c].with # t /\ t \notin call[c].seen
SessionsOf(a) == {t \in Tokens : token[t] # None /\ token[t].of = a}

TeamInit ==
    /\ admin = [a \in Colleagues |-> None]
    /\ token = [t \in Tokens |-> None]
    /\ reset = [a \in Colleagues |-> "none"]
    /\ call = [c \in Calls |-> NoCall]
    /\ clock = 0
    /\ ended = {}

\* A request takes less than a tick, so at most one passes over it.
Tick ==
    /\ clock < MaxClock
    /\ \A c \in Calls : Waits(c) \/ call[c].at = clock
    /\ clock' = clock + 1
    \* A key that lapses is gone; so is a code or token of a password reset.
    /\ token' = [t \in Tokens |->
                   IF token[t] # None /\ token[t].expires <= clock + 1
                   THEN None ELSE token[t]]
    /\ reset' = [a \in Colleagues |-> "none"]
    /\ UNCHANGED <<admin, call, ended>>

-----------------------------------------------------------------------------
(* Members (service.go, repository.go).                                     *)

\* repo.SetPassword writes the status too: whoever gets a password is ACTIVE.
SetPassword(a, w) ==
    admin' = [admin EXCEPT ![a].password = w, ![a].status = "ACTIVE"]

UpdateStatus(a, status) == admin' = [admin EXCEPT ![a].status = status]

\* The row first; a password that came along is a second statement.
Invite(a, c, w) ==
    /\ admin[a] = None
    /\ admin' = [admin EXCEPT ![a] =
                   [status |-> "INVITED", password |-> None,
                    twoFactor |-> FALSE, codes |-> {}]]
    /\ IF w = None THEN UNCHANGED call
       ELSE /\ call[c] = NoCall
            /\ Open(c, [Begun EXCEPT !.pc = "password", !.of = a, !.with = w])
    /\ UNCHANGED <<token, reset, clock, ended>>

InvitePassword(c) ==
    LET a == call[c].of IN
    /\ call[c].pc = "password"
    /\ IF admin[a] = None THEN UNCHANGED admin ELSE SetPassword(a, call[c].with)
    /\ Close(c)
    /\ UNCHANGED <<token, reset, clock, ended>>

\* Neither touches the sessions that are open.
Suspend(a) ==
    /\ admin[a] # None /\ UpdateStatus(a, "SUSPENDED")
    /\ UNCHANGED <<token, reset, call, clock, ended>>
Reinstate(a) ==
    /\ admin[a] # None /\ UpdateStatus(a, "ACTIVE")
    /\ UNCHANGED <<token, reset, call, clock, ended>>
Remove(a) ==
    /\ admin[a] # None
    /\ admin' = [admin EXCEPT ![a] = None]
    /\ UNCHANGED <<token, reset, call, clock, ended>>

\* The handlers' SetPassword and ChangePassword, of an admin signed in.
ChangePassword(a, t, w) ==
    /\ IsLive(t) /\ token[t].of = a /\ admin[a] # None
    /\ SetPassword(a, w)
    /\ UNCHANGED <<token, reset, call, clock, ended>>

\* SaveTOTP, then SaveBackupCodes (also ResetTOTP).
Enable2FA(a, c) ==
    /\ admin[a] # None /\ call[c] = NoCall
    /\ admin' = [admin EXCEPT ![a].twoFactor = TRUE]
    /\ Open(c, [Begun EXCEPT !.pc = "codes", !.of = a])
    /\ UNCHANGED <<token, reset, clock, ended>>

SaveBackupCodes(c) ==
    LET a == call[c].of IN
    /\ call[c].pc = "codes"
    /\ admin' = IF admin[a] = None THEN admin
                ELSE [admin EXCEPT ![a].codes = Codes]
    /\ Close(c)
    /\ UNCHANGED <<token, reset, clock, ended>>

\* Disable2FA of one's own, ResetMember2FA of another's.
ClearTOTP(a) ==
    /\ admin[a] # None /\ admin[a].twoFactor
    /\ admin' = [admin EXCEPT ![a].twoFactor = FALSE, ![a].codes = {}]
    /\ UNCHANGED <<token, reset, call, clock, ended>>

-----------------------------------------------------------------------------
(* Sign-in and the sliding session.                                         *)

\* The row is read and the password compared; the token comes later.
Login(a, c, w) ==
    /\ call[c] = NoCall
    /\ admin[a] # None /\ admin[a].status # "SUSPENDED"
    /\ w # None /\ admin[a].password = w
    /\ Open(c, [Begun EXCEPT
                   !.pc = IF admin[a].twoFactor THEN "challenge" ELSE "issue",
                   !.of = a])
    /\ UNCHANGED <<admin, token, reset, clock, ended>>

\* The pre-auth token and a code; the status is not read again.
Verify2FA(c) ==
    LET a == call[c].of IN
    /\ call[c].pc = "challenge"
    /\ IF admin[a] # None /\ admin[a].twoFactor
       THEN call' = [call EXCEPT ![c].pc = "issue", ![c].at = clock]
       ELSE Close(c)
    /\ UNCHANGED <<admin, token, reset, clock, ended>>

\* One of the unused backup codes, of the list as it was read ...
VerifyBackupCode(c, code) ==
    LET a == call[c].of IN
    /\ call[c].pc = "challenge"
    /\ admin[a] # None /\ code \in admin[a].codes
    /\ call' = [call EXCEPT ![c].pc = "spend", ![c].at = clock,
                            ![c].seen = admin[a].codes \ {code}]
    /\ UNCHANGED <<admin, token, reset, clock, ended>>

\* ... which is written back whole.
SpendBackupCode(c) ==
    LET a == call[c].of IN
    /\ call[c].pc = "spend"
    /\ IF admin[a] = None THEN Close(c) /\ UNCHANGED admin
       ELSE /\ admin' = [admin EXCEPT ![a].codes = call[c].seen]
            /\ Step(c, "issue")
    /\ UNCHANGED <<token, reset, clock, ended>>

PreAuthLapses(c) ==
    /\ call[c].pc = "challenge"
    /\ Close(c)
    /\ UNCHANGED <<admin, token, reset, clock, ended>>

\* issueAccessTokenAt: the key lives for Idle from now; a renewal then has
\* the old key to revoke.
IssueAccessToken(c, t) ==
    LET renewal == call[c].with # None IN
    /\ call[c].pc = "issue" /\ FreshToken(t)
    /\ token' = [token EXCEPT ![t] =
                   [of |-> call[c].of, expires |-> clock + Idle,
                    login |-> IF renewal THEN call[c].login ELSE clock,
                    since |-> IF renewal THEN call[c].since ELSE clock]]
    /\ IF renewal THEN Step(c, "revoke") ELSE Close(c)
    /\ ended' = ended \ {t}
    /\ UNCHANGED <<admin, reset, clock>>

\* Mutant: a renewed session starts anew (issueAccessToken, not ...At).
MutRenewSession(t, c) ==
    /\ call[c] = NoCall /\ IsLive(t)
    /\ clock - token[t].login <= SessionMax
    /\ admin[token[t].of] # None /\ admin[token[t].of].status # "SUSPENDED"
    /\ Open(c, [Begun EXCEPT !.pc = "issue", !.of = token[t].of, !.with = t,
                             !.login = clock, !.since = token[t].since])
    /\ UNCHANGED <<admin, token, reset, clock, ended>>

\* RenewSession: the chain's age and the account are read.
RenewSession(t, c) ==
    /\ call[c] = NoCall /\ IsLive(t)
    /\ clock - token[t].login <= SessionMax
    /\ admin[token[t].of] # None /\ admin[token[t].of].status # "SUSPENDED"
    /\ Open(c, [Begun EXCEPT !.pc = "issue", !.of = token[t].of, !.with = t,
                             !.login = token[t].login,
                             !.since = token[t].since])
    /\ UNCHANGED <<admin, token, reset, clock, ended>>

\* Best effort: the old key may stay until it lapses.
RevokeOld(c) ==
    /\ call[c].pc = "revoke"
    /\ \/ token' = [token EXCEPT ![call[c].with] = None]
       \/ UNCHANGED token
    /\ Close(c)
    /\ UNCHANGED <<admin, reset, clock, ended>>

LogoutAdmin(t) ==
    /\ IsLive(t)
    /\ token' = [token EXCEPT ![t] = None]
    /\ UNCHANGED <<admin, reset, call, clock, ended>>

-----------------------------------------------------------------------------
(* Password reset by mail.                                                  *)

ForgotPassword(a) ==
    /\ admin[a] # None
    /\ reset' = [reset EXCEPT ![a] = "code"]
    /\ UNCHANGED <<admin, token, call, clock, ended>>

VerifyResetOTP(a) ==
    /\ reset[a] = "code"
    /\ reset' = [reset EXCEPT ![a] = "token"]
    /\ UNCHANGED <<admin, token, call, clock, ended>>

\* Get, Del; then FindByEmail and SetPassword; then every key is deleted.
ResetPassword(a, c, w) ==
    /\ call[c] = NoCall /\ reset[a] = "token"
    /\ reset' = [reset EXCEPT ![a] = "none"]
    /\ Open(c, [Begun EXCEPT !.pc = "reset", !.of = a, !.with = w])
    /\ UNCHANGED <<admin, token, clock, ended>>

ResetWrites(c) ==
    LET a == call[c].of IN
    /\ call[c].pc = "reset"
    /\ IF admin[a] = None THEN Close(c) /\ UNCHANGED admin
       ELSE /\ SetPassword(a, call[c].with)
            /\ call' = [call EXCEPT ![c].pc = "sweep",
                                    ![c].seen = SessionsOf(a)]
    /\ UNCHANGED <<token, reset, clock, ended>>

\* Mutant: one page of the SCAN, whatever cursor it came back with.
MutRevokeAll(c) ==
    /\ call[c].pc = "sweep"
    /\ \E keys \in SUBSET SessionsOf(call[c].of) :
          token' = [t \in Tokens |-> IF t \in keys THEN None ELSE token[t]]
    /\ ended' = ended \cup call[c].seen
    /\ Close(c)
    /\ UNCHANGED <<admin, reset, clock>>

\* revokeAllAdminSessions: SCAN returns every key there all along, and may
\* or may not return one that came meanwhile. Best effort: an error of SCAN
\* ends it, one of DEL leaves a page of keys, and the reset is answered as done.
RevokeAll(c) ==
    /\ call[c].pc = "sweep"
    /\ \E keys \in SUBSET SessionsOf(call[c].of) :
          /\ token' = [t \in Tokens |-> IF t \in keys THEN None ELSE token[t]]
          /\ \/ /\ call[c].seen \cap SessionsOf(call[c].of) \subseteq keys
                /\ ended' = ended \cup call[c].seen
             \/ UNCHANGED ended
    /\ Close(c)
    /\ UNCHANGED <<admin, reset, clock>>

TeamNext ==
    \/ Tick
    \/ \E a \in Colleagues :
          \/ \E c \in Calls, w \in Passwords \cup {None} : Invite(a, c, w)
          \/ Suspend(a) \/ Reinstate(a) \/ Remove(a) \/ ClearTOTP(a)
          \/ \E t \in Tokens, w \in Passwords : ChangePassword(a, t, w)
          \/ \E c \in Calls : Enable2FA(a, c)
          \/ \E c \in Calls, w \in Passwords :
                Login(a, c, w) \/ ResetPassword(a, c, w)
          \/ ForgotPassword(a) \/ VerifyResetOTP(a)
    \/ \E c \in Calls :
          \/ InvitePassword(c) \/ SaveBackupCodes(c)
          \/ Verify2FA(c) \/ SpendBackupCode(c) \/ PreAuthLapses(c)
          \/ \E code \in Codes : VerifyBackupCode(c, code)
          \/ RevokeOld(c) \/ ResetWrites(c) \/ RevokeAll(c)
    \/ \E t \in Tokens :
          \/ \E c \in Calls : IssueAccessToken(c, t) \/ RenewSession(t, c)
          \/ LogoutAdmin(t)

-----------------------------------------------------------------------------
\* However a session is renewed, it ends SessionMax and one idle time after
\* its holder signed in, and the tick a last renewal took (service.go:501
\* "the chain is capped at JWT_ADMIN_SESSION_MAX_HOURS").
RenewalCapped ==
    \A t \in Tokens :
        token[t] # None =>
            token[t].expires <= token[t].since + SessionMax + Idle + 1

\* A session that was open when a password reset was written is gone when the
\* reset is answered, and stays so (service.go:764 "must not leave old sessions
\* valid"), if no call of the sweep failed. A sign-in or renewal in flight may
\* still open another, and a sweep that failed leaves them to RenewalCapped.
ResetEndsOldSessions == \A t \in ended : token[t] = None

\* A console session ends: at the latest with its chain, and at once with a
\* reset of the password whose sweep succeeds (RenewSession, ResetPassword).
SessionsEnd == ResetEndsOldSessions /\ RenewalCapped
=============================================================================
