-------------------------------- MODULE Papers ------------------------------
(***************************************************************************)
(* A driver's application: the profile row, the role on the users row, the *)
(* versions of one document, and the administrator who decides.            *)
(*                                                                         *)
(* Approval is about the papers on file when it is given.  An upload reads *)
(* the profile, stores the new version in one transaction, and only then   *)
(* reopens the review; a decision writes the profile and then the role.    *)
(***************************************************************************)
EXTENDS Naturals, FiniteSets, Absent

CONSTANTS
    Uploads,      \* uploads of the driver's app
    MaxVersions   \* bound: versions of the document

Statuses == {"PENDING_REVIEW", "NEEDS_MORE_INFO", "APPROVED", "REJECTED",
             "SUSPENDED", "PENDING"}

ASSUME PapersAssumption == MaxVersions \in Nat \ {0} /\ None \notin Statuses

VARIABLES
    profile,    \* driver_profiles.approval_status, or None
    role,       \* users.role_state
    live,       \* the live version: its number (0: none), reviewed or not
    files,      \* the versions whose file is on record
    judged,     \* the version the approval is about
    upload,     \* the uploads in flight
    apply,      \* the application in flight
    decision,   \* the approval in flight
    oddRole,    \* has a writer set the role alone?
    oddPapers   \* has the live paper changed without a review being due?
paperVars == <<profile, role, live, files, judged, upload, apply, decision,
               oddRole, oddPapers>>

NoUpload == [pc |-> "idle", approved |-> FALSE]
NoPaper == [version |-> 0, reviewed |-> FALSE]

\* A new user; or a driver approved before papers were reviewed one by one
\* (migration 077 marks what was on file then).
PapersInit ==
    /\ \/ /\ profile = None /\ role = "CUSTOMER" /\ live = NoPaper
          /\ files = {} /\ judged = 0
       \/ /\ profile = "APPROVED" /\ role = "DRIVER_ACTIVE"
          /\ live = [version |-> 1, reviewed |-> TRUE]
          /\ files = {1} /\ judged = 1
    /\ upload = [u \in Uploads |-> NoUpload]
    /\ apply = "idle" /\ decision = "idle"
    /\ oddRole = FALSE /\ oddPapers = FALSE

-----------------------------------------------------------------------------
(* Statements.                                                              *)

\* SetApprovalStatus, and the UPDATEs of approval_status in admin/drivers.go
SetStatus(status) == profile' = status
UpdateUserRoleState(r) == role' = r

\* UpsertDocument: the live row is superseded and the next one inserted.  A
\* reviewed one is locked to the driver (no window is ever opened).
UpsertDocument(asAdmin) ==
    /\ live.version < MaxVersions
    /\ asAdmin \/ ~live.reviewed
    /\ live' = [version |-> live.version + 1, reviewed |-> FALSE]
    /\ files' = files \cup {live.version + 1}

-----------------------------------------------------------------------------
(* The driver (driver/service.go).                                          *)

UploadTo(u, pc) == upload' = [upload EXCEPT ![u].pc = pc]

\* UploadDocument: is the profile approved?
UploadRead(u) ==
    /\ upload[u].pc = "idle" /\ profile # None
    /\ upload' = [upload EXCEPT ![u] = [pc |-> "store",
                                        approved |-> profile = "APPROVED"]]
    /\ UNCHANGED <<profile, role, live, files, judged, apply, decision,
                   oddRole, oddPapers>>

\* A profile that was not approved when it was read is not looked at again:
\* an approval given in between stands on the paper before this one.
UploadStore(u) ==
    /\ upload[u].pc = "store" /\ profile # None /\ UpsertDocument(FALSE)
    /\ UploadTo(u, IF upload[u].approved THEN "reopen" ELSE "idle")
    /\ oddPapers' = (oddPapers \/ (~upload[u].approved
                                   /\ profile \in {"APPROVED", "SUSPENDED"}))
    /\ UNCHANGED <<profile, role, judged, apply, decision, oddRole>>

\* The paper is locked, or the profile is gone.
UploadRefused(u) ==
    /\ upload[u].pc = "store" /\ (live.reviewed \/ profile = None)
    /\ UploadTo(u, "idle")
    /\ UNCHANGED <<profile, role, live, files, judged, apply, decision,
                   oddRole, oddPapers>>

\* Mutant: the replaced paper leaves the approval as it is.
MutUploadReopen(u) ==
    /\ upload[u].pc = "reopen" /\ UploadTo(u, "idle")
    /\ UNCHANGED <<profile, role, live, files, judged, apply, decision,
                   oddRole, oddPapers>>

\* The review is reopened, by a status no decision starts from; an error here
\* is logged and the upload has succeeded.
UploadReopen(u) ==
    /\ upload[u].pc = "reopen"
    /\ \/ /\ SetStatus(IF profile = None THEN None ELSE "PENDING")
          /\ UploadTo(u, "role")
          /\ UNCHANGED oddPapers
       \/ /\ UploadTo(u, "idle") /\ oddPapers' = TRUE
          /\ UNCHANGED profile
    /\ UNCHANGED <<role, live, files, judged, apply, decision, oddRole>>

\* Mutant: the role is not taken back with the approval.
MutUploadDemote(u) ==
    /\ upload[u].pc = "role" /\ UploadTo(u, "idle")
    /\ UNCHANGED <<profile, role, live, files, judged, apply, decision,
                   oddRole, oddPapers>>

UploadDemote(u) ==
    /\ upload[u].pc = "role" /\ UploadTo(u, "idle")
    /\ \/ UpdateUserRoleState("DRIVER_PENDING") /\ UNCHANGED oddRole
       \/ UNCHANGED role /\ oddRole' = TRUE
    /\ UNCHANGED <<profile, live, files, judged, apply, decision, oddPapers>>

\* Apply: a first application, or another after a rejection.
ApplyRead ==
    /\ apply = "idle"
    /\ \/ profile = None /\ apply' = "create"
       \/ profile = "REJECTED" /\ apply' = "resubmit"
    /\ UNCHANGED <<profile, role, live, files, judged, upload, decision,
                   oddRole, oddPapers>>

\* CreateProfile (user_id is unique), UpdateProfileForResubmission.
ApplyWrite ==
    /\ apply \in {"create", "resubmit"}
    /\ IF apply = "create" /\ profile # None
       THEN apply' = "idle" /\ UNCHANGED profile
       ELSE IF profile = None /\ apply = "resubmit"
       THEN apply' = "role" /\ UNCHANGED profile
       ELSE apply' = "role" /\ SetStatus("PENDING_REVIEW")
    /\ UNCHANGED <<role, live, files, judged, upload, decision, oddRole,
                   oddPapers>>

ApplyRole ==
    /\ apply = "role" /\ apply' = "idle"
    /\ UpdateUserRoleState("DRIVER_PENDING")
    /\ UNCHANGED <<profile, live, files, judged, upload, decision, oddRole,
                   oddPapers>>

-----------------------------------------------------------------------------
(* The administrator (admin/drivers.go).                                    *)

\* ApproveDriver: a profile waiting for review becomes APPROVED, ...
ApproveRow ==
    /\ decision = "idle" /\ profile # None
    /\ decision' = "role"
    /\ IF profile = "PENDING_REVIEW"
       THEN /\ SetStatus("APPROVED") /\ judged' = live.version
            /\ UNCHANGED oddRole
       ELSE oddRole' = TRUE /\ UNCHANGED <<profile, judged>>
    /\ UNCHANGED <<role, live, files, upload, apply, oddPapers>>

\* ... and whether or not it did, the user becomes an active driver.
ApproveRole ==
    /\ decision = "role" /\ decision' = "idle"
    /\ UpdateUserRoleState("DRIVER_ACTIVE")
    /\ oddRole' = (oddRole \/ profile # "APPROVED")
    /\ UNCHANGED <<profile, live, files, judged, upload, apply, oddPapers>>

RejectDriver ==
    /\ profile = "PENDING_REVIEW" /\ SetStatus("REJECTED")
    /\ UNCHANGED <<role, live, files, judged, upload, apply, decision,
                   oddRole, oddPapers>>

\* No decision, and no new application, starts from NEEDS_MORE_INFO.
RequestDriverMoreInfo ==
    /\ profile = "PENDING_REVIEW" /\ SetStatus("NEEDS_MORE_INFO")
    /\ UNCHANGED <<role, live, files, judged, upload, apply, decision,
                   oddRole, oddPapers>>

SuspendProfile ==
    /\ profile \notin {None, "SUSPENDED"}
    /\ SetStatus("SUSPENDED") /\ UpdateUserRoleState("DRIVER_SUSPENDED")
    /\ UNCHANGED <<live, files, judged, upload, apply, decision, oddRole,
                   oddPapers>>

\* ReinstateDriver asks for no status: it approves whatever is there.
ReinstateProfile ==
    /\ profile \notin {None, "APPROVED"}
    /\ SetStatus("APPROVED") /\ UpdateUserRoleState("DRIVER_ACTIVE")
    /\ oddPapers' = (oddPapers \/ judged # live.version)
    /\ UNCHANGED <<live, files, judged, upload, apply, decision, oddRole>>

\* UpdateLocation's third anomaly writes the profile and not the role.
GpsSuspends ==
    /\ profile = "APPROVED" /\ SetStatus("SUSPENDED") /\ oddRole' = TRUE
    /\ UNCHANGED <<role, live, files, judged, upload, apply, decision,
                   oddPapers>>

\* UpsertDriverDocument: the administrator's own upload decides nothing.
UpsertDriverDocument ==
    /\ profile # None /\ UpsertDocument(TRUE)
    /\ oddPapers' = TRUE
    /\ UNCHANGED <<profile, role, judged, upload, apply, decision, oddRole>>

\* UpdateDriver: approval_status is a field like any other.
UpdateDriver(status) ==
    /\ profile \notin {None, status} /\ SetStatus(status)
    /\ oddRole' = TRUE
    /\ oddPapers' = (oddPapers \/ judged # live.version)
    /\ UNCHANGED <<role, live, files, judged, upload, apply, decision>>

\* CreateDriverFromAdmin promotes the user before it looks for a profile.
CreateDriverFromAdmin ==
    /\ UpdateUserRoleState("DRIVER_ACTIVE")
    /\ IF profile = None
       THEN /\ SetStatus("APPROVED") /\ judged' = live.version
            /\ UNCHANGED oddRole
       ELSE oddRole' = TRUE /\ UNCHANGED <<profile, judged>>
    /\ UNCHANGED <<live, files, upload, apply, decision, oddPapers>>

\* The papers go with the profile; the role stays.
DeleteDriver ==
    /\ profile # None /\ SetStatus(None)
    /\ live' = NoPaper /\ files' = {} /\ judged' = 0
    /\ oddRole' = TRUE
    /\ UNCHANGED <<role, upload, apply, decision, oddPapers>>

\* The console's two switches, over the same operations.
VerifyDriver(action) ==
    \/ action = "approve" /\ ApproveRow
    \/ action = "reject" /\ RejectDriver
UpdateDriverStatus(status) ==
    \/ status = "Suspended" /\ SuspendProfile
    \/ status = "Active" /\ ReinstateProfile

PapersNext ==
    \/ \E u \in Uploads :
          \/ UploadRead(u) \/ UploadStore(u) \/ UploadRefused(u)
          \/ UploadReopen(u) \/ UploadDemote(u)
    \/ ApplyRead \/ ApplyWrite \/ ApplyRole
    \/ \E action \in {"approve", "reject"} : VerifyDriver(action)
    \/ \E status \in {"Suspended", "Active"} : UpdateDriverStatus(status)
    \/ ApproveRole \/ RequestDriverMoreInfo \/ GpsSuspends
    \/ UpsertDriverDocument
    \/ \E status \in Statuses : UpdateDriver(status)
    \/ CreateDriverFromAdmin \/ DeleteDriver

-----------------------------------------------------------------------------
(* Properties.                                                              *)

NothingInFlight == /\ apply = "idle" /\ decision = "idle"
                   /\ \A u \in Uploads : upload[u].pc = "idle"

\* Approval is a statement about specific papers (UploadDocument): an approved
\* driver's live paper is the one on file when approval was given, unless the
\* administrator chose otherwise, the review could not be reopened, or the
\* upload had read the profile before it was approved.
ApprovedOnSeenPapers ==
    NothingInFlight /\ profile = "APPROVED" =>
        judged = live.version \/ oddPapers

\* Who may act as a driver (users.role_state) is an approved driver, unless a
\* writer set one of the two without the other.
ActiveMeansApproved ==
    NothingInFlight /\ role = "DRIVER_ACTIVE" =>
        profile = "APPROVED" \/ oddRole
=============================================================================
