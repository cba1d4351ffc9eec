-------------------------------- MODULE Jobs --------------------------------
(***************************************************************************)
(* What a server process runs beside the requests.  The two daily jobs:    *)
(* the document-expiry notifier (driver/expiry_notifier.go) and the        *)
(* operators' digest (internal/digest).  A day has SlotsPerDay slots, a    *)
(* timer that fires is answered within its slot, a pass over the papers    *)
(* takes as long as its queries and sendings take, and the process may     *)
(* stop at any time and be started again.  The business events of          *)
(* internal/analytics: Publish writes each to the table and to a Redis     *)
(* stream, either of which may fail alone; a consumer group with one       *)
(* worker reads batches of what it was not given before, processes each    *)
(* entry and acknowledges it.                                              *)
(***************************************************************************)
EXTENDS Integers, Sequences, Absent

CONSTANTS Documents, ExpiryDays,     \* a driver's papers, dates they may carry
          expiryNotifyDays,          \* days left that are announced
          documentAlertWindowDays,
          SlotsPerDay, DigestSlot,
          MaxDay, MaxRedeploys       \* bounds on days and restarts

ASSUME JobsAssumption ==
    /\ SlotsPerDay \in Nat \ {0} /\ DigestSlot \in 0..SlotsPerDay - 1
    /\ MaxDay \in Nat /\ MaxRedeploys \in Nat /\ documentAlertWindowDays \in Nat
    /\ expiryNotifyDays \subseteq -1..documentAlertWindowDays

VARIABLES
    dated,      \* expiry dates of an approved driver's papers, or None
    now,        \* slots since the first midnight
    running,
    nextPass, nextDigest,   \* slots in which the jobs' timers fire
    ticking,    \* does the notifier wait for its ticker, not for the delay?
    passing, passBegan, left,   \* a pass over the papers: its start, what it has yet to send
    overnight,  \* did the process's first pass run into today?
    told,       \* papers announced today
    failed,     \* papers whose notice of today failed
    digests,    \* digests sent today
    redeploys
passVars == <<ticking, passing, passBegan, left>>
jobVars == <<dated, now, running, nextPass, nextDigest, passVars, overnight,
             told, failed, digests, redeploys>>

DayOf(slot) == slot \div SlotsPerDay
Today == DayOf(now)

\* The next DigestSlot after now: tomorrow's, if it is that slot already.
\* Mutant: a digest slot that is now is still to come.
MutUntilNextRun ==
    LET next == Today * SlotsPerDay + DigestSlot IN
    IF next >= now THEN next ELSE next + SlotsPerDay

UntilNextRun ==
    LET next == Today * SlotsPerDay + DigestSlot IN
    IF next > now THEN next ELSE next + SlotsPerDay

\* Two minutes after the start: in that slot or in the one that follows.
\* Mutant: the first pass comes when a ticker made at the start fires.
MutFirstPass == {now + SlotsPerDay}

FirstPass == {now, now + 1}

JobsInit ==
    /\ dated \in [Documents -> ExpiryDays \cup {None}]
    /\ now = 0 /\ running = TRUE
    /\ nextPass \in FirstPass /\ nextDigest = UntilNextRun
    /\ ticking = FALSE /\ passing = FALSE /\ passBegan = 0 /\ left = {}
    /\ overnight = FALSE /\ told = {} /\ failed = {}
    /\ digests = 0 /\ redeploys = 0

DaysLeft(d) == dated[d] - Today
ListProfilesWithExpiringDocs ==
    \E d \in Documents : dated[d] # None /\ DaysLeft(d) \in -1..documentAlertWindowDays
alertsFromDates ==
    {d \in Documents : dated[d] # None /\ DaysLeft(d) <= documentAlertWindowDays}
shouldNotifyExpiry(daysLeft) == daysLeft \in expiryNotifyDays

\* A pass reads who has a paper in the window and takes the date. A query that
\* fails ends it, and nothing repeats it that day.
notifyExpiringDocuments ==
    /\ running /\ ~passing /\ nextPass = now
    /\ passing' = TRUE /\ passBegan' = now
    /\ nextPass' = IF ticking THEN now + SlotsPerDay ELSE nextPass
    /\ \/ /\ left' = IF ListProfilesWithExpiringDocs
                     THEN {d \in alertsFromDates : shouldNotifyExpiry(DaysLeft(d))}
                     ELSE {}
          /\ UNCHANGED failed
       \/ left' = {} /\ failed' = Documents
    /\ UNCHANGED <<dated, now, running, nextDigest, ticking, overnight, told,
                   digests, redeploys>>

\* One notice: it reaches the driver, or both its row and its push fail, which
\* skips it. What is sent after midnight is of yesterday's mark.
\* Mutant: a notice that fails ends the pass.
MutSendToUser(d) ==
    /\ passing /\ d \in left
    /\ \/ left' = left \ {d} /\ told' = told \cup {d} /\ UNCHANGED failed
       \/ left' = {} /\ failed' = failed \cup {d} /\ UNCHANGED told
    /\ UNCHANGED <<dated, now, running, nextPass, nextDigest, ticking, passing,
                   passBegan, overnight, digests, redeploys>>

SendToUser(d) ==
    /\ passing /\ d \in left /\ left' = left \ {d}
    /\ \/ DayOf(passBegan) = Today /\ told' = told \cup {d} /\ UNCHANGED failed
       \/ DayOf(passBegan) = Today /\ failed' = failed \cup {d} /\ UNCHANGED told
       \/ DayOf(passBegan) # Today /\ UNCHANGED <<told, failed>>
    /\ UNCHANGED <<dated, now, running, nextPass, nextDigest, ticking, passing,
                   passBegan, overnight, digests, redeploys>>

\* The ticker is made when the first pass is over.
RunDocumentExpiryNotifier ==
    /\ passing /\ left = {} /\ passing' = FALSE
    /\ ticking' = TRUE
    /\ nextPass' = IF ticking THEN nextPass ELSE now + SlotsPerDay
    /\ UNCHANGED <<dated, now, running, nextDigest, passBegan, left, overnight, told,
                   failed, digests, redeploys>>

\* SendDaily: a query that fails loses the day's digest, and so does a process
\* that stops before Notify. The timer is set for the next day before that.
SendDaily ==
    /\ running /\ nextDigest = now
    /\ digests' \in {digests, digests + 1}
    /\ nextDigest' = UntilNextRun
    /\ UNCHANGED <<dated, now, running, nextPass, passVars, overnight, told, failed, redeploys>>

ServerStops ==
    /\ running /\ running' = FALSE
    /\ passing' = FALSE /\ left' = {}
    /\ UNCHANGED <<dated, now, nextPass, nextDigest, ticking, passBegan, overnight,
                   told, failed, digests, redeploys>>
ServerStarts ==
    /\ ~running /\ redeploys < MaxRedeploys
    /\ redeploys' = redeploys + 1
    /\ running' = TRUE
    /\ ticking' = FALSE /\ nextPass' \in FirstPass
    /\ nextDigest' = UntilNextRun
    /\ overnight' = FALSE
    /\ UNCHANGED <<dated, now, passing, passBegan, left, told, failed, digests>>

\* A pass takes less than a day.
JobsDue == running /\ (nextDigest = now \/ (~passing /\ nextPass = now))
ClockMoves ==
    /\ ~JobsDue /\ now + 1 < MaxDay * SlotsPerDay
    /\ passing => now + 1 < passBegan + SlotsPerDay
    /\ now' = now + 1
    /\ IF (now + 1) % SlotsPerDay = 0
       THEN /\ told' = {} /\ failed' = {} /\ digests' = 0
            /\ overnight' = (passing /\ ~ticking)
       ELSE UNCHANGED <<told, failed, digests, overnight>>
    /\ UNCHANGED <<dated, running, nextPass, nextDigest, passVars, redeploys>>

JobsNext ==
    \/ notifyExpiringDocuments \/ RunDocumentExpiryNotifier
    \/ \E d \in Documents : SendToUser(d)
    \/ SendDaily
    \/ ServerStops \/ ServerStarts \/ ClockMoves

-----------------------------------------------------------------------------
(* Properties.                                                              *)

\* The first pass of a process that was started in the day's last slot.
PassAhead == ~ticking /\ ~passing /\ nextPass = now + 1

\* However often and whenever the process is restarted, the operators get at
\* most one digest a day ("a restart never double-sends", digest/service.go:62),
\* and, if the process is up when a day ends, every paper at a mark that day has
\* been announced, or its own notice or the day's query failed, or its pass has
\* come to the others so far. "A redeploy never skips a day"
\* (expiry_notifier.go:141) has two exceptions: a start within the two minutes
\* before midnight, and a first pass that ran over midnight, whose ticker
\* fires on the next day but one.
RestartsLoseNothing ==
    /\ digests <= 1
    /\ running /\ ~JobsDue /\ (now + 1) % SlotsPerDay = 0 =>
          \/ PassAhead \/ overnight
          \/ \A d \in Documents :
                dated[d] # None /\ shouldNotifyExpiry(DaysLeft(d)) =>
                    d \in told \cup failed \cup left

-----------------------------------------------------------------------------
(* The business events.                                                     *)

CONSTANTS MaxEvents, batchSize, MaxStops   \* bounds: events, restarts

ASSUME EventsAssumption ==
    {MaxEvents, MaxStops} \subseteq Nat /\ batchSize \in Nat \ {0}

VARIABLES
    published,  \* how many
    table,      \* those in analytics_events
    stream,     \* those in the stream, in order
    delivered,  \* how far the group has read
    given,      \* entries the worker holds
    done,       \* has it processed the first of them?
    processed,  \* how often each was
    unacked,    \* pending entries of the group
    stops,      \* restarts, and answers of the stream that were lost
    lost        \* entries that one of them took from the worker
eventVars == <<published, table, stream, delivered, given, done, processed, unacked, stops, lost>>

EventsInit ==
    /\ published = 0 /\ table = {} /\ stream = <<>> /\ delivered = 0
    /\ given = <<>> /\ done = FALSE /\ processed = [e \in 1..MaxEvents |-> 0]
    /\ unacked = {} /\ stops = 0 /\ lost = {}

Publish ==
    LET e == published + 1 IN
    /\ published < MaxEvents /\ published' = e
    /\ table' \in {table, table \cup {e}}
    /\ stream' \in {stream, Append(stream, e)}
    /\ UNCHANGED <<delivered, given, done, processed, unacked, stops, lost>>

\* XREADGROUP with ">": the group moves on as it answers, and the answer may
\* not arrive.
Read ==
    LET to == IF delivered + batchSize < Len(stream)
              THEN delivered + batchSize ELSE Len(stream)
        batch == SubSeq(stream, delivered + 1, to)
        ids == {batch[i] : i \in DOMAIN batch}
    IN /\ given = <<>> /\ delivered < to /\ delivered' = to
       /\ unacked' = unacked \cup ids
       /\ \/ given' = batch /\ UNCHANGED <<stops, lost>>
          \/ /\ stops < MaxStops /\ stops' = stops + 1
             /\ lost' = lost \cup ids /\ UNCHANGED given
       /\ UNCHANGED <<published, table, stream, done, processed>>

\* Mutant: an entry is acknowledged, and not processed.
MutProcess ==
    /\ given # <<>> /\ ~done /\ done' = TRUE
    /\ unacked' = unacked \ {Head(given)}
    /\ UNCHANGED processed
    /\ UNCHANGED <<published, table, stream, delivered, given, stops, lost>>

process ==
    /\ given # <<>> /\ ~done /\ done' = TRUE
    /\ processed' = [processed EXCEPT ![Head(given)] = @ + 1]
    /\ UNCHANGED <<published, table, stream, delivered, given, unacked, stops, lost>>

\* XACK, whose failure leaves the entry pending.
Ack ==
    /\ given # <<>> /\ done /\ done' = FALSE
    /\ unacked' \in {unacked, unacked \ {Head(given)}}
    /\ given' = Tail(given)
    /\ UNCHANGED <<published, table, stream, delivered, processed, stops, lost>>

Stop ==
    /\ stops < MaxStops /\ stops' = stops + 1
    /\ lost' = lost \cup {given[i] : i \in DOMAIN given}
    /\ given' = <<>> /\ done' = FALSE
    /\ UNCHANGED <<published, table, stream, delivered, processed, unacked>>

EventsNext == Publish \/ Read \/ process \/ Ack \/ Stop

-----------------------------------------------------------------------------
(* Properties.                                                              *)

\* What the group has been given is processed once, or in hand, or
\* went with a restart or a lost answer, and is then still pending (Run).
EventsProcessed ==
    \A i \in 1..delivered :
        LET e == stream[i] IN
        /\ processed[e] = 0 => e \in unacked
        /\ \/ processed[e] = 1
           \/ e \in lost
           \/ \E j \in DOMAIN given : given[j] = e
=============================================================================
