------------------------------ MODULE Sessions ------------------------------
(***************************************************************************)
(* One account and the sessions of its devices: sign-in, refresh, logout,  *)
(* the mode switch, and the four ways to suspend (penalty ban, indefinite  *)
(* penalty, admin suspension, admin ban).                                  *)
(*                                                                         *)
(* A token pair is two Redis keys, session:<user>:<jti>.  Suspending an    *)
(* account writes its row and then scans and deletes keys; refreshing      *)
(* reads a key, reads the row and then writes keys.  Nothing orders the    *)
(* two, so every statement is a step.  A key that is "revoked", deleted or *)
(* expired is not live.  Time: a suspension's end may pass, a key may      *)
(* expire and a day may end at any moment.                                 *)
(*                                                                         *)
(* A device has one request at a time: two refreshes of one token at once, *)
(* both of which may read its key before either revokes it, are left out.  *)
(***************************************************************************)
EXTENDS Naturals, FiniteSets, TLC, Absent

CONSTANTS
    Devices,            \* the user's phones
    Pairs,              \* token pairs (jtis); one nobody holds is new again
    Jobs,               \* requests that may suspend the account or switch mode
    BanAt,              \* cfg.Customer.CancelBanThreshold
    BansBeforeSuspend,  \* cfg.Penalty.BansBeforeSuspend
    MaxDays, MaxLost    \* bounds: days, answers lost on the way back

ASSUME SessionsAssumption ==
    /\ {BanAt, BansBeforeSuspend} \subseteq Nat \ {0}
    /\ {MaxDays, MaxLost} \subseteq Nat
    /\ None \notin Pairs

VARIABLES
    account,   \* the users row: suspended, until when, ban_count
    access,    \* pairs whose access session is live
    refresh,   \* pairs whose refresh session is live
    device,    \* per device: the pair it holds, and its request in flight
    job,       \* the other requests in flight
    cancels,   \* Redis daily cancel counter
    days,      \* days gone by
    lost,      \* answers lost so far
    excused    \* devices whose session ended for a reason they must accept
sessionVars == <<account, access, refresh, device, job, cancels, days, lost,
                 excused>>

NoRequest == [held |-> None, pc |-> "idle", next |-> None,
              suspended |-> FALSE, until |-> "never"]
NoJob == [op |-> None, pc |-> "idle", keys |-> {}, n |-> 0]

Held(d) == device[d].held
Fresh == Pairs \ (access \cup refresh
                  \cup {device[d].held : d \in Devices}
                  \cup {device[d].next : d \in Devices})
\* What was read of the row is used once, and then forgotten.
Goto(d, pc) ==
    device' = [device EXCEPT ![d] = [NoRequest EXCEPT !.pc = pc,
                                                      !.held = Held(d)]]
\* The request is over; the device keeps, replaces or forgets its pair.
Answer(d, pair) ==
    device' = [device EXCEPT ![d] = [NoRequest EXCEPT !.held = pair]]
\* What the request remembers of the row it read.
ReadAccount(d, pc) ==
    device' = [device EXCEPT ![d].pc = pc,
                             ![d].suspended = account.suspended,
                             ![d].until = account.until]

SessionsInit ==
    /\ account = [suspended |-> FALSE, until |-> "never", bans |-> 0]
    /\ access = {} /\ refresh = {}
    /\ device = [d \in Devices |-> NoRequest]
    /\ job = [j \in Jobs |-> NoJob]
    /\ cancels = 0 /\ days = 0 /\ lost = 0
    /\ excused = [d \in Devices |-> FALSE]

-----------------------------------------------------------------------------
(* A device signs in, refreshes, signs out (internal/auth/service.go).      *)

\* Login, and VerifyOTP of a known number: the row is read.
SignIn(d) ==
    /\ device[d].pc = "idle" /\ Held(d) = None
    /\ ReadAccount(d, "lift")
    /\ UNCHANGED <<account, access, refresh, job, cancels, days, lost, excused>>

\* RefreshTokens: the refresh key must still be live.
RefreshKey(d) ==
    /\ device[d].pc = "idle" /\ Held(d) # None
    /\ IF Held(d) \in refresh THEN Goto(d, "user") ELSE Answer(d, None)
    /\ UNCHANGED <<account, access, refresh, job, cancels, days, lost, excused>>

RefreshUser(d) ==
    /\ device[d].pc = "user"
    /\ ReadAccount(d, "lift")
    /\ UNCHANGED <<account, access, refresh, job, cancels, days, lost, excused>>

\* Mutant: RefreshTokens trusts the token and never looks at the suspension.
MutLift(d) ==
    /\ device[d].pc = "lift"
    /\ IF device[d].suspended /\ Held(d) = None THEN Answer(d, None)
       ELSE Goto(d, IF Held(d) = None THEN "issue" ELSE "revoke")
    /\ UNCHANGED <<account, access, refresh, job, cancels, days, lost, excused>>

\* liftExpiredSuspension: decided on the row read, written to the row there
\* is.  A suspended user is turned away, and a refresh kills its session.
Lift(d) ==
    LET req == device[d]
        over == req.suspended /\ req.until = "past" IN
    /\ req.pc = "lift"
    /\ account' = IF over
                  THEN [account EXCEPT !.suspended = FALSE, !.until = "never"]
                  ELSE account
    /\ IF req.suspended /\ ~over
       THEN /\ refresh' = refresh \ {Held(d)}
            /\ Answer(d, None)
       ELSE /\ Goto(d, IF Held(d) = None THEN "issue" ELSE "revoke")
            /\ UNCHANGED refresh
    /\ UNCHANGED <<access, job, cancels, days, lost, excused>>

\* The old session is revoked BEFORE the new pair exists (rotation).
RefreshRevoke(d) ==
    /\ device[d].pc = "revoke"
    /\ refresh' = refresh \ {Held(d)}
    /\ Goto(d, "issue")
    /\ UNCHANGED <<account, access, job, cancels, days, lost, excused>>

\* issueTokenPair: first the refresh session, then the access session.
IssueRefresh(d) ==
    /\ device[d].pc = "issue"
    /\ \E p \in Fresh :
           /\ refresh' = refresh \cup {p}
           /\ device' = [device EXCEPT ![d].pc = "access", ![d].next = p]
    /\ excused' = [excused EXCEPT ![d] = FALSE]
    /\ UNCHANGED <<account, access, job, cancels, days, lost>>

IssueAccess(d) ==
    LET p == device[d].next IN
    /\ device[d].pc = "access"
    /\ access' = access \cup {p}
    /\ \/ Answer(d, p) /\ UNCHANGED <<lost, excused>>
       \/ /\ lost < MaxLost                   \* the answer never arrives
          /\ lost' = lost + 1
          /\ Answer(d, Held(d))
          /\ excused' = [excused EXCEPT ![d] = TRUE]
    /\ UNCHANGED <<account, refresh, job, cancels, days>>

\* Logout: both sessions of the pair.  An app that sends no refresh token
\* leaves that session live, with nobody who holds it: left out.
Logout(d) ==
    /\ device[d].pc = "idle" /\ Held(d) \in access
    /\ access' = access \ {Held(d)} /\ refresh' = refresh \ {Held(d)}
    /\ Answer(d, None)
    /\ UNCHANGED <<account, job, cancels, days, lost, excused>>

-----------------------------------------------------------------------------
(* Requests that suspend the account or switch its mode.                   *)

Begin(j, op, pc) == job' = [job EXCEPT ![j] = [NoJob EXCEPT !.op = op,
                                                            !.pc = pc]]
JobTo(j, pc) == job' = [job EXCEPT ![j].pc = pc]

\* Mutant: the counter is read and compared with at least.
MutCount(j) ==
    /\ cancels < BanAt + 1 /\ (cancels + 1 >= BanAt => job[j] = NoJob)
    /\ cancels' = cancels + 1
    /\ IF cancels + 1 >= BanAt THEN Begin(j, "penalty", "ban")
                               ELSE UNCHANGED job
    /\ UNCHANGED <<account, access, refresh, device, days, lost, excused>>

\* recordCancelPenalty: INCR, and only the request that lands on BanAt acts.
Count(j) ==
    /\ cancels < BanAt + 1 /\ (cancels + 1 = BanAt => job[j] = NoJob)
    /\ cancels' = cancels + 1
    /\ IF cancels + 1 = BanAt THEN Begin(j, "penalty", "ban")
                              ELSE UNCHANGED job
    /\ UNCHANGED <<account, access, refresh, device, days, lost, excused>>

IncrementUserBanCount(j) ==
    /\ job[j].pc = "ban"
    /\ account' = [account EXCEPT !.bans = @ + 1]
    /\ job' = [job EXCEPT ![j].pc = "sentence", ![j].n = account.bans + 1]
    /\ UNCHANGED <<access, refresh, device, cancels, days, lost, excused>>

\* SuspendUserIndefinitely from the last ban on, else BanUserUntil.
Sentence(j) ==
    /\ job[j].pc = "sentence"
    /\ account' = [account EXCEPT !.suspended = TRUE,
                     !.until = IF job[j].n >= BansBeforeSuspend THEN "never"
                               ELSE "ahead"]
    /\ JobTo(j, "scan")
    /\ UNCHANGED <<access, refresh, device, cancels, days, lost, excused>>

\* The admin's SuspendUser, for some hours.
SuspendUser(j) ==
    /\ job[j] = NoJob
    /\ account' = [account EXCEPT !.suspended = TRUE, !.until = "ahead"]
    /\ Begin(j, "suspend", "scan")
    /\ UNCHANGED <<access, refresh, device, cancels, days, lost, excused>>

\* SwitchMode writes the role the next token is to carry.
SwitchMode(j) ==
    /\ job[j] = NoJob /\ \E d \in Devices : Held(d) \in access
    /\ Begin(j, "switch", "scan")
    /\ UNCHANGED <<account, access, refresh, device, cancels, days, lost,
                   excused>>

\* SCAN session:<user>:*: a key written later is not seen.
ScanKeys(j) ==
    /\ job[j].pc = "scan"
    /\ job' = [job EXCEPT ![j].pc = "drop", ![j].keys = access \cup refresh]
    /\ UNCHANGED <<account, access, refresh, device, cancels, days, lost,
                   excused>>

\* Mutant: the mode switch drops every session, as it used to.
MutDropKeys(j) ==
    LET keys == job[j].keys IN
    /\ job[j].pc = "drop"
    /\ access' = access \ keys
    /\ refresh' = refresh \ keys
    /\ excused' = [d \in Devices |->
           \/ excused[d]
           \/ job[j].op # "switch" /\ {Held(d), device[d].next} \cap keys # {}]
    /\ job' = [job EXCEPT ![j] = NoJob]
    /\ UNCHANGED <<account, device, cancels, days, lost>>

\* revokeUserSessions deletes what was scanned; revokeAccessSessionsOnly
\* leaves the refresh sessions.
DropKeys(j) ==
    LET keys == job[j].keys
        all == job[j].op # "switch" IN
    /\ job[j].pc = "drop"
    /\ access' = access \ keys
    /\ refresh' = IF all THEN refresh \ keys ELSE refresh
    /\ excused' = [d \in Devices |->
           excused[d] \/ (all /\ {Held(d), device[d].next} \cap keys # {})]
    /\ job' = [job EXCEPT ![j] = NoJob]
    /\ UNCHANGED <<account, device, cancels, days, lost>>

\* BanCustomer: the flag alone.  An earlier suspension's end stays, and no
\* session is touched.
BanCustomer ==
    /\ ~account.suspended
    /\ account' = [account EXCEPT !.suspended = TRUE]
    /\ UNCHANGED <<access, refresh, device, job, cancels, days, lost, excused>>

ReinstateUser ==
    /\ account.suspended
    /\ account' = [account EXCEPT !.suspended = FALSE, !.until = "never"]
    /\ UNCHANGED <<access, refresh, device, job, cancels, days, lost, excused>>

-----------------------------------------------------------------------------
(* Time.                                                                   *)

SuspensionEnds ==
    /\ account.until = "ahead"
    /\ account' = [account EXCEPT !.until = "past"]
    /\ UNCHANGED <<access, refresh, device, job, cancels, days, lost, excused>>

\* ExpireAt(endOfDay) on the counter.
DayEnds ==
    /\ days < MaxDays
    /\ days' = days + 1 /\ cancels' = 0
    /\ UNCHANGED <<account, access, refresh, device, job, lost, excused>>

AccessExpires(p) ==
    /\ p \in access
    /\ access' = access \ {p}
    /\ UNCHANGED <<account, refresh, device, job, cancels, days, lost, excused>>

RefreshExpires(p) ==
    /\ p \in refresh \ access
    /\ refresh' = refresh \ {p}
    /\ excused' = [d \in Devices |->
                       excused[d] \/ p \in {Held(d), device[d].next}]
    /\ UNCHANGED <<account, access, device, job, cancels, days, lost>>

DeviceStep(d) ==
    \/ RefreshUser(d) \/ Lift(d) \/ RefreshRevoke(d)
    \/ IssueRefresh(d) \/ IssueAccess(d)
JobStep(j) ==
    \/ IncrementUserBanCount(j) \/ Sentence(j) \/ ScanKeys(j) \/ DropKeys(j)
SessionsNext ==
    \/ \E d \in Devices :
           SignIn(d) \/ RefreshKey(d) \/ DeviceStep(d) \/ Logout(d)
    \/ \E j \in Jobs :
           Count(j) \/ SuspendUser(j) \/ SwitchMode(j) \/ JobStep(j)
    \/ BanCustomer \/ ReinstateUser \/ SuspensionEnds \/ DayEnds
    \/ \E p \in Pairs : AccessExpires(p) \/ RefreshExpires(p)

\* Requests finish, and Redis drops an access session when its TTL is over.
SessionsFairness ==
    /\ \A d \in Devices : WF_sessionVars(DeviceStep(d))
    /\ \A j \in Jobs : WF_sessionVars(JobStep(j))
    /\ \A p \in Pairs : WF_sessionVars(AccessExpires(p))

-----------------------------------------------------------------------------
\* However many cancellations run at once, a day costs at most one ban
\* ("Apply the penalty exactly once", ride/service.go:291).
BannedOncePerDay == account.bans <= days + 1

\* A device between requests can refresh, unless its session was ended by a
\* suspension, by age, or by an answer it never got.  A mode switch is none
\* of these (location/service.go:597).
StaysSignedIn ==
    \A d \in Devices :
        device[d].pc = "idle" /\ Held(d) # None =>
            Held(d) \in refresh \/ excused[d]

\* An account that stays suspended is in the end shut out of every request,
\* also when a refresh slipped its new pair past the scan: the pair is not
\* renewed again (middleware/role.go:70).
SuspensionReachesEveryDevice ==
    <>[]account.suspended => <>[](access = {})
=============================================================================
