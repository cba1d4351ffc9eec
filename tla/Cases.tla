-------------------------------- MODULE Cases --------------------------------
(***************************************************************************)
(* What the console's staff works off: support tickets (internal/tickets), *)
(* safety incidents with their timeline (internal/incidents), contact-form *)
(* messages (internal/inbox) and generated reports (internal/reports).     *)
(* Every handler reads first and writes in statements of no transaction,   *)
(* so two members work on one case at once.  A request whose client is     *)
(* gone stops between two of them (its context is cancelled), and so does  *)
(* one whose statement fails, except where the code drops the error.       *)
(*                                                                         *)
(* There is one case of each kind; texts and files are left out.           *)
(***************************************************************************)
EXTENDS Naturals, Sequences, Absent

CONSTANTS Staff,       \* requests of staff members
          MaxCalls     \* bound on the requests made

ASSUME CasesAssumption ==
    /\ MaxCalls \in Nat
    /\ None \notin {"ACKNOWLEDGED", "ESCALATED", "RESOLVED"}

VARIABLES
    ticket,     \* support_tickets
    incident,   \* safety_incidents.status
    had,        \* every status the incident has had
    timeline,   \* incident_events: the kinds of what happened
    message,    \* inbox_messages
    report,     \* reports
    schedule,   \* scheduled_reports.is_active
    errand,     \* the request of a member; late: what it read has changed
    errands,    \* how many there have been
    tookBack     \* has a late request written?
casesVars ==
    <<ticket, incident, had, timeline, message, report, schedule, errand,
      errands, tookBack>>

NoErrand == [pc |-> "idle", read |-> None, late |-> FALSE]
CaseAt(m, pc) == errand[m].pc = pc
CaseGoes(m, pc) == errand' = [errand EXCEPT ![m] = [@ EXCEPT !.pc = pc]]
CaseEnds(m) == errand' = [errand EXCEPT ![m] = NoErrand]
CaseBegins(m, pc, read) ==
    /\ CaseAt(m, "idle") /\ errands < MaxCalls
    /\ errands' = errands + 1
    /\ errand' = [errand EXCEPT ![m] =
                     [pc |-> pc, read |-> read, late |-> FALSE]]
\* The requests at pcs come late for what now changes.
Overtaken(e, pcs) ==
    [m \in Staff |->
        IF e[m].pc \in pcs THEN [e[m] EXCEPT !.late = TRUE] ELSE e[m]]

CasesInit ==
    /\ ticket = None /\ incident = None /\ had = {} /\ timeline = {}
    /\ message = None /\ report = None /\ schedule = None
    /\ errand = [m \in Staff |-> NoErrand]
    /\ errands = 0 /\ tookBack = FALSE

TicketSteps == UNCHANGED <<incident, had, timeline, message, report, schedule>>
IncidentSteps == UNCHANGED <<ticket, message, report, schedule>>
InboxSteps ==
    UNCHANGED <<ticket, incident, had, timeline, report, schedule, tookBack>>
ReportSteps == UNCHANGED <<ticket, incident, had, timeline, message, tookBack>>

-----------------------------------------------------------------------------
(* Tickets.                                                                 *)

\* SubmitTicket names a driver by the role state "DRIVER_APPROVED", which no
\* account ever has: every ticket of the apps is a CUSTOMER's.
FromRole(role) == IF role = "DRIVER_APPROVED" THEN "DRIVER" ELSE "CUSTOMER"
InsertTicket(from) ==
    /\ ticket = None
    /\ ticket' = [status |-> "OPEN", from |-> from, closed |-> FALSE]
    /\ UNCHANGED <<errand, errands, tookBack>> /\ TicketSteps
CreateTicket == \E from \in {"CUSTOMER", "DRIVER"} : InsertTicket(from)
SubmitTicket ==
    \E role \in {"CUSTOMER", "DRIVER_ACTIVE"} : InsertTicket(FromRole(role))

\* closed: resolved, and not assigned again since
SetTicketStatus(status, closed) ==
    ticket' = [ticket EXCEPT !.status = status, !.closed = closed]

\* Reply: the ticket is read, ...
TicketReply(m) ==
    /\ ticket # None
    /\ CaseBegins(m, "reply", ticket.status)
    /\ UNCHANGED <<ticket, tookBack>> /\ TicketSteps
\* Mutant: a reply puts any ticket to PENDING.
MutAddTicketMessage(m) ==
    /\ CaseAt(m, "reply")
    /\ CaseGoes(m, "replied")
    /\ UNCHANGED <<ticket, errands, tookBack>> /\ TicketSteps
\* ... the message added, ...
AddTicketMessage(m) ==
    /\ CaseAt(m, "reply")
    /\ IF errand[m].read = "OPEN" THEN CaseGoes(m, "replied") ELSE CaseEnds(m)
    /\ UNCHANGED <<ticket, errands, tookBack>> /\ TicketSteps
\* ... and a ticket that was OPEN is PENDING, whatever it is now.
TicketReplied(m) ==
    /\ CaseAt(m, "replied")
    /\ SetTicketStatus("PENDING", ticket.closed)
    /\ tookBack' = (tookBack \/ errand[m].late)
    /\ CaseEnds(m) /\ UNCHANGED errands /\ TicketSteps

\* A resolved ticket too.
AssignTo == SetTicketStatus("PENDING", FALSE)
AssignTicket ==
    /\ ticket # None
    /\ AssignTo
    /\ UNCHANGED <<errand, errands, tookBack>> /\ TicketSteps
ResolveTicket ==
    /\ ticket # None
    /\ SetTicketStatus("RESOLVED", TRUE)
    /\ errand' = Overtaken(errand, {"reply", "replied"})
    /\ UNCHANGED <<errands, tookBack>> /\ TicketSteps
\* Any other status or a priority is answered 204 and does nothing.
PatchTicket(status, admin) ==
    \/ status = "RESOLVED" /\ ResolveTicket
    \/ status # "RESOLVED" /\ admin # None /\ AssignTicket

-----------------------------------------------------------------------------
(* Incidents: the status, then the event.                                   *)

\* What an incident's status becomes, it has had.
BecomesIncident(status) == incident' = status /\ had' = had \cup {status}
InsertIncident == incident = None /\ BecomesIncident("OPEN")
CreateIncident(m) ==
    /\ InsertIncident
    /\ CaseBegins(m, "created", None)
    /\ UNCHANGED <<timeline, tookBack>> /\ IncidentSteps

\* Mutant: acknowledges whatever it finds.
MutAcknowledge(m) ==
    /\ incident # None
    /\ CaseBegins(m, "ACKNOWLEDGE", incident)
    /\ UNCHANGED <<incident, had, timeline, tookBack>> /\ IncidentSteps

\* Acknowledge refuses an incident it did not read OPEN.
Acknowledge(m) ==
    /\ incident = "OPEN"
    /\ CaseBegins(m, "ACKNOWLEDGE", incident)
    /\ UNCHANGED <<incident, had, timeline, tookBack>> /\ IncidentSteps
\* Escalate asks for nothing.
Escalate(m) ==
    /\ incident # None
    /\ CaseBegins(m, "ESCALATE", None)
    /\ UNCHANGED <<incident, had, timeline, tookBack>> /\ IncidentSteps
\* Resolve writes the notes first.
ResolveIncident(m) ==
    /\ incident # None
    /\ CaseBegins(m, "RESOLVE", None)
    /\ UNCHANGED <<incident, had, timeline, tookBack>> /\ IncidentSteps
\* PATCH takes the console's words for the three; each has an endpoint too.
IncidentUpdate(m, word) ==
    \/ word = "Acknowledged" /\ Acknowledge(m)
    \/ word = "Escalated" /\ Escalate(m)
    \/ word = "Resolved" /\ ResolveIncident(m)
PatchIncident(m) ==
    \E word \in {"Acknowledged", "Escalated", "Resolved"} : IncidentUpdate(m, word)
MoveIncident(m) == Acknowledge(m) \/ Escalate(m) \/ ResolveIncident(m)

StatusOf ==
    [ACKNOWLEDGE |-> "ACKNOWLEDGED", ESCALATE |-> "ESCALATED",
     RESOLVE |-> "RESOLVED"]
\* An acknowledgement is late once the incident is escalated or resolved.
SetIncidentStatus(m) ==
    LET status == StatusOf[errand[m].pc]
        gone == [errand EXCEPT ![m] = [@ EXCEPT !.pc = status]] IN
    /\ errand[m].pc \in DOMAIN StatusOf
    /\ BecomesIncident(status)
    /\ errand' = IF status = "ACKNOWLEDGED" THEN gone
                 ELSE Overtaken(gone, {"ACKNOWLEDGE"})
    /\ tookBack' = (tookBack \/ (status = "ACKNOWLEDGED" /\ errand[m].late))
    /\ UNCHANGED <<timeline, errands>> /\ IncidentSteps

EventKind ==
    [created |-> "OPEN", ACKNOWLEDGED |-> "ACKNOWLEDGED",
     ESCALATED |-> "ESCALATED", RESOLVED |-> "RESOLVED"]
\* The insert may fail; Create drops the error, the others answer it to a
\* console that finds the status changed.
AppendEvent(m) ==
    /\ errand[m].pc \in DOMAIN EventKind
    /\ timeline' \in {timeline, timeline \cup {EventKind[errand[m].pc]}}
    /\ CaseEnds(m)
    /\ UNCHANGED <<incident, had, errands, tookBack>> /\ IncidentSteps

AddIncidentMessage ==
    /\ incident # None
    /\ timeline' = timeline \cup {"MESSAGE"}
    /\ UNCHANGED <<incident, had, errand, errands, tookBack>> /\ IncidentSteps

-----------------------------------------------------------------------------
(* The inbox.  FindByID, then a statement on whatever row there is.          *)

SaveMessage ==
    /\ message = None
    /\ message' = [status |-> "NEW", replied |-> FALSE]
SubmitMessage ==
    /\ SaveMessage
    /\ UNCHANGED <<errand, errands>> /\ InboxSteps

FindMessage(m, then) ==
    /\ message # None
    /\ CaseBegins(m, then, None)
    /\ UNCHANGED message /\ InboxSteps
InboxUpdate(m, row) ==
    /\ message' = IF message = None THEN None ELSE row
    /\ CaseEnds(m) /\ UNCHANGED errands /\ InboxSteps

InboxReply(m) == FindMessage(m, "inbox_reply")
InboxReplied(m) ==
    /\ CaseAt(m, "inbox_reply")
    /\ InboxUpdate(m, [status |-> "REPLIED", replied |-> TRUE])
\* PATCH: any status, a reply's REPLIED included
InboxPatch(m) == FindMessage(m, "inbox_patch")
InboxPatched(m, status) ==
    /\ CaseAt(m, "inbox_patch")
    /\ IF message = None THEN InboxUpdate(m, None)
       ELSE InboxUpdate(m, [message EXCEPT !.status = status])
InboxDelete(m) == FindMessage(m, "inbox_delete")
InboxDeleted(m) == CaseAt(m, "inbox_delete") /\ InboxUpdate(m, None)
\* Archive and MarkSpam read nothing.
FileMessage(status) ==
    /\ message # None
    /\ message' = [message EXCEPT !.status = status]
    /\ UNCHANGED <<errand, errands>> /\ InboxSteps
ArchiveMessage == FileMessage("ARCHIVED")
SpamMessage == FileMessage("SPAM")

-----------------------------------------------------------------------------
(* Reports.                                                                 *)

\* Generate: the row, ...
InsertReport == report = None /\ report' = "PENDING"
GenerateReport(m) ==
    /\ InsertReport
    /\ CaseBegins(m, "build", None)
    /\ UNCHANGED schedule /\ ReportSteps
\* ... the content, built from live data, ...
BuildReport(m) ==
    /\ CaseAt(m, "build")
    /\ CaseGoes(m, "built") \/ CaseGoes(m, "failed")
    /\ UNCHANGED <<report, schedule, errands>> /\ ReportSteps
\* UPDATE ... WHERE id: nothing, if the row was deleted
MarkReport(status) ==
    report' = IF report = None THEN None ELSE status
\* ... and READY with it, ...
MarkReady(m) ==
    /\ CaseAt(m, "built")
    /\ \/ MarkReport("READY") /\ CaseEnds(m)
       \/ UNCHANGED report /\ CaseGoes(m, "failed")
    /\ UNCHANGED <<schedule, errands>> /\ ReportSteps
\* ... or FAILED, unless that write fails too: its error is dropped.
MarkFailed(m) ==
    /\ CaseAt(m, "failed")
    /\ MarkReport("FAILED") \/ UNCHANGED report
    /\ CaseEnds(m) /\ UNCHANGED <<schedule, errands>> /\ ReportSteps

FindReport(m) ==
    /\ report # None
    /\ CaseBegins(m, "report_delete", None)
DeleteReport(m) ==
    /\ FindReport(m)
    /\ UNCHANGED <<report, schedule>> /\ ReportSteps
ReportDeleted(m) ==
    /\ CaseAt(m, "report_delete")
    /\ report' = None
    /\ CaseEnds(m) /\ UNCHANGED <<schedule, errands>> /\ ReportSteps

\* Nothing ever runs a schedule.
InsertScheduled == schedule = None /\ schedule' = TRUE
CreateScheduled ==
    /\ InsertScheduled
    /\ UNCHANGED <<report, errand, errands>> /\ ReportSteps
SwitchScheduled == schedule # None /\ schedule' = ~schedule
ToggleScheduled ==
    /\ SwitchScheduled
    /\ UNCHANGED <<report, errand, errands>> /\ ReportSteps

-----------------------------------------------------------------------------
\* The client is gone: what the request has left is refused.
RequestDies(m) ==
    /\ ~CaseAt(m, "idle")
    /\ CaseEnds(m)
    /\ UNCHANGED <<ticket, incident, had, timeline, message, report, schedule,
                   errands, tookBack>>

CasesNext ==
    \/ CreateTicket \/ SubmitTicket \/ AddIncidentMessage
    \/ SubmitMessage \/ ArchiveMessage \/ SpamMessage
    \/ CreateScheduled \/ ToggleScheduled
    \/ \E status \in {"RESOLVED", "OPEN"}, admin \in {None, "admin"} :
          PatchTicket(status, admin)
    \/ \E m \in Staff :
          \/ TicketReply(m) \/ AddTicketMessage(m) \/ TicketReplied(m)
          \/ CreateIncident(m) \/ SetIncidentStatus(m) \/ AppendEvent(m)
          \/ MoveIncident(m) \/ PatchIncident(m)
          \/ InboxReply(m) \/ InboxReplied(m) \/ InboxPatch(m)
          \/ \E status \in {"NEW", "REPLIED"} : InboxPatched(m, status)
          \/ InboxDelete(m) \/ InboxDeleted(m)
          \/ GenerateReport(m) \/ BuildReport(m) \/ MarkReady(m) \/ MarkFailed(m)
          \/ DeleteReport(m) \/ ReportDeleted(m)
          \/ RequestDies(m)

-----------------------------------------------------------------------------
(* Properties.                                                              *)

\* What one member has finished another does not take back without having
\* seen it: an acknowledgement leaves an incident that was escalated or
\* resolved (Acknowledge reads, SetIncidentStatus writes), a reply leaves a
\* ticket resolved (TicketReply reads, TicketReplied writes), unless it had
\* read the case before that.  And the timeline tells of no status the
\* incident never had, whichever of the writes failed.
NothingTakenBack ==
    /\ ~tookBack =>
          /\ had \cap {"ESCALATED", "RESOLVED"} # {} =>
                incident # "ACKNOWLEDGED"
          /\ ticket # None => (ticket.closed => ticket.status = "RESOLVED")
    /\ timeline \subseteq had \cup {"MESSAGE"}
=============================================================================
