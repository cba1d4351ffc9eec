-------------------------------- MODULE Roles --------------------------------
(***************************************************************************)
(* What a user may do, in three copies: the status of the driver's profile,*)
(* users.role_state derived from it, and the role that the access tokens   *)
(* carry.  Switching the app between customer and driver                   *)
(* (location.SwitchMode) and signing in (auth.ReconcileRoleState) derive   *)
(* the role anew; the decisions on the profile are those of Papers.        *)
(***************************************************************************)
EXTENDS Naturals, FiniteSets, Absent

CONSTANTS
    Switches, Issues,        \* mode switches, sign-ins and renewals
    MaxRulings, MaxGrants    \* bounds: decisions, access tokens

ASSUME RolesAssumption == MaxRulings \in Nat /\ MaxGrants \in Nat

VARIABLES
    approval,   \* driver_profiles.approval_status, or None
    accepted,   \* policy_accepted
    roleState,  \* users.role_state
    switch, issue,
    access,     \* live access tokens: their role, whether it was read before
                \* the last switch wrote, whether by a request that the switch
                \* overtook, and whether the sweep passed over it: its key holds
                \* the "valid" of an older build, or Redis failed a call
    stray,      \* was one written without the other, or from an older one?
    rulings
rolesVars == <<approval, accepted, roleState, switch, issue, access, stray, rulings>>

Standings == {None, "PENDING_REVIEW", "APPROVED", "SUSPENDED", "REJECTED"}
Capability(status) ==
    CASE status = "APPROVED" -> "DRIVER_ACTIVE"
      [] status = "SUSPENDED" -> "DRIVER_SUSPENDED"
      [] status = "PENDING_REVIEW" -> "DRIVER_PENDING"
      [] OTHER -> "CUSTOMER_ONLY"

NoSwitch == [pc |-> "idle", read |-> None, late |-> FALSE]
NoIssue == [pc |-> "idle", role |-> None, want |-> None,
            late |-> FALSE, old |-> FALSE]

\* From before the kind of a session was in its key's value.
Legacy == [role |-> "CUSTOMER_ONLY", old |-> FALSE, crossed |-> FALSE,
           spared |-> TRUE]

RolesInit ==
    /\ approval \in Standings /\ accepted = FALSE
    /\ roleState = Capability(approval)
    /\ switch = [q \in Switches |-> NoSwitch]
    /\ issue = [i \in Issues |-> NoIssue]
    /\ access \in {{}, {Legacy}} /\ stray = FALSE /\ rulings = 0

-----------------------------------------------------------------------------
(* The profile, and who had read it before.                                 *)

Overtake ==
    /\ switch' = [q \in Switches |-> [switch[q] EXCEPT !.late = @ \/ switch[q].pc # "idle"]]
    /\ issue' = [i \in Issues |-> [issue[i] EXCEPT !.late = @ \/ issue[i].pc = "heal"]]
Ruling(status) ==
    /\ rulings < MaxRulings /\ rulings' = rulings + 1
    /\ approval' = status /\ Overtake /\ UNCHANGED <<accepted, access>>

\* SuspendDriver, ReinstateDriver: both rows in a transaction.
Rule(status) ==
    /\ status \in {"SUSPENDED", "APPROVED"} /\ approval \notin {None, status}
    /\ Ruling(status) /\ roleState' = Capability(status)
    /\ stray' = FALSE

\* Apply, RejectDriver, UpdateDriver, GPS suspension, deletion: the profile,
\* and the role in another statement or never.
RuleProfile(status) ==
    /\ approval # status
    /\ approval = None => status = "PENDING_REVIEW"
    /\ Ruling(status) /\ UNCHANGED roleState
    /\ stray' = TRUE

\* ApproveDriver, UploadDocument, CreateDriverFromAdmin: the role alone.
RuleRole(role) ==
    /\ rulings < MaxRulings /\ rulings' = rulings + 1
    /\ roleState' = role /\ stray' = TRUE
    /\ UNCHANGED <<approval, accepted, switch, issue, access>>

SetPolicyAccepted ==
    /\ approval # None /\ ~accepted /\ accepted' = TRUE
    /\ UNCHANGED <<approval, roleState, switch, issue, access, stray, rulings>>

-----------------------------------------------------------------------------
(* SwitchMode.                                                              *)

\* A driver must be approved and have accepted the policy; a read that fails
\* finds no profile.
SwitchRead(q, mode) ==
    /\ switch[q].pc = "idle"
    /\ \E read \in {approval, None} :
          /\ mode = "driver" => read = "APPROVED" /\ accepted
          /\ switch' = [switch EXCEPT ![q] =
                [pc |-> "count", read |-> read, late |-> read # approval]]
    /\ UNCHANGED <<approval, accepted, roleState, issue, access, stray, rulings>>

\* Refused during a ride; a COUNT that fails counts none.
SwitchCount(q) ==
    /\ switch[q].pc = "count"
    /\ \/ switch' = [switch EXCEPT ![q].pc = "write"]
       \/ switch' = [switch EXCEPT ![q] = NoSwitch]
    /\ UNCHANGED <<approval, accepted, roleState, issue, access, stray, rulings>>

\* Whoever has read the role by now, or carries it, has the one before.
SwitchWritten(q, role) ==
    /\ switch[q].pc = "write"
    /\ roleState' = role
    /\ switch' = [switch EXCEPT ![q].pc = "revoke"]
    /\ issue' = [i \in Issues |-> [issue[i] EXCEPT !.old = @ \/ issue[i].pc # "idle"]]
    /\ access' = {[t EXCEPT !.old = TRUE] : t \in access}
    /\ stray' = switch[q].late
    /\ UNCHANGED <<approval, accepted, rulings>>

\* Mutant: a driver who looks at the app as a customer becomes one.
MutSwitchWrite(q) == SwitchWritten(q, "CUSTOMER_ONLY")

SwitchWrite(q) == SwitchWritten(q, Capability(switch[q].read))

\* Mutant: the access tokens are left as they are.
MutRevokeAccessSessionsOnly == UNCHANGED access

\* SCAN, and of each key GET and DEL: of those written meanwhile it may see
\* any.  An error ends the SCAN, or leaves that key, and is not looked at.
revokeAccessSessionsOnly ==
    \E seen \in SUBSET access :
        /\ \A t \in access \ seen : ~t.old \/ t.crossed
        /\ \E failed \in SUBSET seen :
              access' = (access \ seen) \cup {t \in seen : t.spared}
                          \cup {[t EXCEPT !.spared = TRUE] : t \in failed}
SwitchRevoke(q) ==
    /\ switch[q].pc = "revoke" /\ revokeAccessSessionsOnly
    /\ switch' = [switch EXCEPT ![q] = NoSwitch]
    /\ UNCHANGED <<approval, accepted, roleState, issue, stray, rulings>>

-----------------------------------------------------------------------------
(* Signing in and renewing.                                                 *)

\* ReconcileRoleState: both copies in one query, ...
ReconcileRead(i) ==
    LET want == Capability(approval) IN
    /\ issue[i].pc = "idle"
    /\ issue' = [issue EXCEPT ![i] =
          [NoIssue EXCEPT !.pc = IF want = roleState THEN "issue" ELSE "heal",
                          !.role = roleState, !.want = want]]
    /\ UNCHANGED <<approval, accepted, roleState, switch, access, stray, rulings>>

\* ... the write if they differ.  An error leaves what was read.
ReconcileWrite(i) ==
    /\ issue[i].pc = "heal"
    /\ \/ /\ roleState' = issue[i].want /\ stray' = issue[i].late
          /\ issue' = [issue EXCEPT ![i].pc = "issue", ![i].role = issue[i].want]
       \/ /\ issue' = [issue EXCEPT ![i].pc = "issue"]
          /\ UNCHANGED <<roleState, stray>>
    /\ UNCHANGED <<approval, accepted, switch, access, rulings>>

\* RefreshTokens takes the role as it is.
RefreshRead(i) ==
    /\ issue[i].pc = "idle"
    /\ issue' = [issue EXCEPT ![i] = [NoIssue EXCEPT !.pc = "issue", !.role = roleState]]
    /\ UNCHANGED <<approval, accepted, roleState, switch, access, stray, rulings>>

\* issueTokenPair: the claim is signed, then the session key is written.
IssueAccess(i) ==
    /\ issue[i].pc = "issue"
    /\ access' = access \cup {[role |-> issue[i].role, old |-> issue[i].old,
                               crossed |-> issue[i].old, spared |-> FALSE]}
    /\ Cardinality(access') <= MaxGrants
    /\ issue' = [issue EXCEPT ![i] = NoIssue]
    /\ UNCHANGED <<approval, accepted, roleState, switch, stray, rulings>>

\* The TTL of a session key.
AccessExpires(t) ==
    /\ access' = access \ {t}
    /\ UNCHANGED <<approval, accepted, roleState, switch, issue, stray, rulings>>

RolesNext ==
    \/ \E status \in Standings : Rule(status) \/ RuleProfile(status)
    \/ \E role \in {"DRIVER_ACTIVE", "DRIVER_PENDING"} : RuleRole(role)
    \/ SetPolicyAccepted
    \/ \E q \in Switches :
          \/ \E mode \in {"customer", "driver"} : SwitchRead(q, mode)
          \/ SwitchCount(q) \/ SwitchWrite(q) \/ SwitchRevoke(q)
    \/ \E i \in Issues :
          ReconcileRead(i) \/ ReconcileWrite(i) \/ RefreshRead(i) \/ IssueAccess(i)
    \/ \E t \in access : AccessExpires(t)

-----------------------------------------------------------------------------
(* Properties.                                                              *)

\* The role is what the profile makes of it, in whichever mode the app is, and
\* again after a switch or a sign-in that no decision overtook ("role_state
\* tracks CAPABILITY", "any drifted account self-heals").
RoleIsCapability == ~stray => roleState = Capability(approval)

\* Once a switch is answered every access token has been issued since, by a
\* request that had read the role before, or is one that the sweep passed over
\* ("the token must be re-issued for the new role to take effect").
SwitchRenewsClaims ==
    (\A q \in Switches : switch[q].pc # "revoke") =>
        \A t \in access : t.old => t.crossed \/ t.spared
=============================================================================
