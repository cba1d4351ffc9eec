-------------------------------- MODULE Alerts --------------------------------
(***************************************************************************)
(* The operators' Telegram chat of pkg/alerting, both ways.  shouldSend    *)
(* admits an error line by a cooldown per message and a cap per sliding    *)
(* hour, and queues it for the worker.  commandLoop (commands.go) polls    *)
(* Telegram for the commands typed there, with an offset, which tells it   *)
(* which updates have been seen, and answers those of each batch.          *)
(***************************************************************************)
EXTENDS Naturals, Sequences, FiniteSets, Absent

CONSTANTS
    Errors,                      \* messages logged at Error level
    perKeyCooldown, AlertHour,   \* in ticks
    globalHourlyCap, queueSize,
    MaxTicks                     \* bound

ASSUME AlertsAssumption ==
    /\ {perKeyCooldown, AlertHour, globalHourlyCap, queueSize} \subseteq Nat \ {0}
    /\ MaxTicks \in Nat /\ None \notin Nat

VARIABLES
    ticks,
    lastKey,    \* per message, when it was last admitted, or None
    sentLog,    \* the admitted ones whose times the notifier keeps
    queue,      \* messages the worker has not posted
    admitted,   \* all of this process: message, time, number
    refused     \* was one refused that neither rule explains?
alertVars == <<ticks, lastKey, sentLog, queue, admitted, refused>>

AlertsInit ==
    /\ ticks = 0 /\ lastKey = [m \in Errors |-> None]
    /\ sentLog = {} /\ queue = <<>> /\ admitted = {} /\ refused = FALSE

-----------------------------------------------------------------------------
(* The notifier.                                                            *)

\* Mutant: the hour is counted from the oldest one kept.
MutKeptLog(log, now) ==
    IF \E a \in log : a[2] + AlertHour <= now THEN {} ELSE log

KeptLog(log, now) == {a \in log : a[2] + AlertHour > now}

\* The log is pruned only past the cooldown; a full queue drops what was
\* admitted.
Log(m) ==
    LET cooling == lastKey[m] # None /\ ticks < lastKey[m] + perKeyCooldown
        kept == KeptLog(sentLog, ticks)
        room == Cardinality(kept) < globalHourlyCap
        recent == {a \in admitted : a[2] + AlertHour > ticks}
        alert == <<m, ticks, Cardinality(admitted)>>
    IN /\ IF ~cooling /\ room
          THEN /\ lastKey' = [lastKey EXCEPT ![m] = ticks]
               /\ sentLog' = kept \cup {alert}
               /\ queue' = IF Len(queue) < queueSize THEN Append(queue, m) ELSE queue
               /\ admitted' = admitted \cup {alert}
               /\ UNCHANGED refused
          ELSE /\ sentLog' = IF cooling THEN sentLog ELSE kept
               /\ refused' = (refused \/
                     /\ Cardinality(recent) < globalHourlyCap
                     /\ \A a \in admitted : a[1] = m => a[2] + perKeyCooldown <= ticks)
               /\ UNCHANGED <<lastKey, queue, admitted>>
       /\ UNCHANGED ticks

\* The worker drops a message Telegram does not take.
Post ==
    /\ queue # <<>> /\ queue' = Tail(queue)
    /\ UNCHANGED <<ticks, lastKey, sentLog, admitted, refused>>

AlertTick ==
    /\ ticks < MaxTicks /\ ticks' = ticks + 1
    /\ UNCHANGED <<lastKey, sentLog, queue, admitted, refused>>

\* A restart has neither log nor queue.
NotifierRestarts ==
    /\ admitted # {} /\ admitted' = {}
    /\ lastKey' = [m \in Errors |-> None] /\ sentLog' = {} /\ queue' = <<>>
    /\ UNCHANGED <<ticks, refused>>

AlertsNext == (\E m \in Errors : Log(m)) \/ Post \/ AlertTick \/ NotifierRestarts

-----------------------------------------------------------------------------
(* Properties.                                                              *)

\* No hour of a process has more than the cap, no message comes twice within
\* its cooldown, and nothing else is held back ("even many distinct errors
\* can't flood the group", "a crash loop produces one alert per window").
AlertsPaced ==
    /\ ~refused
    /\ \A a \in admitted :
          /\ Cardinality({b \in admitted : b[2] \in a[2]..(a[2] + AlertHour - 1)})
                <= globalHourlyCap
          /\ \A b \in admitted :
                (a[1] = b[1] /\ a # b) =>
                    a[2] + perKeyCooldown <= b[2] \/ b[2] + perKeyCooldown <= a[2]

-----------------------------------------------------------------------------
(* The commands typed in the chat.                                          *)

CONSTANTS
    Commands,     \* how many are typed in the chat: 1 .. Commands
    MaxReboots    \* bound: restarts

ASSUME ChatAssumption == {Commands, MaxReboots} \subseteq Nat

VARIABLES
    typed,      \* commands in the chat so far
    offset,     \* of the loop
    seenBelow,  \* the highest offset Telegram was given: it forgets those below
    batch,      \* updates in hand
    handled,    \* how often each was
    reboots
chatVars == <<typed, offset, seenBelow, batch, handled, reboots>>

ChatInit ==
    /\ typed = 0 /\ offset = 0 /\ seenBelow = 0 /\ batch = <<>>
    /\ handled = [u \in 1..Commands |-> 0] /\ reboots = 0

TypeCommand ==
    /\ typed < Commands /\ typed' = typed + 1
    /\ UNCHANGED <<offset, seenBelow, batch, handled, reboots>>

\* Mutant: the offset is that of the next request but one.
MutNextOffset(ids, from) == IF ids = <<>> THEN from ELSE ids[Len(ids)] + 2

NextOffset(ids, from) == IF ids = <<>> THEN from ELSE ids[Len(ids)] + 1

\* getUpdates: Telegram has the offset even if the answer does not arrive, and
\* hands out what it has not been told to forget.
getUpdates ==
    LET below == IF offset > seenBelow THEN offset ELSE seenBelow
        first == IF below > 1 THEN below ELSE 1
        ids == SubSeq([u \in 1..typed |-> u], first, typed)
    IN /\ batch = <<>> /\ seenBelow' = below
       /\ \/ batch' = ids /\ offset' = NextOffset(ids, offset)
          \/ UNCHANGED <<batch, offset>>
       /\ UNCHANGED <<typed, handled, reboots>>

\* One reply each; one that Telegram does not take is not repeated.
handleUpdate ==
    /\ batch # <<>> /\ batch' = Tail(batch)
    /\ handled' = [handled EXCEPT ![Head(batch)] = @ + 1]
    /\ UNCHANGED <<typed, offset, seenBelow, reboots>>

\* A restart has no offset; Telegram keeps its own.
Reboot ==
    /\ reboots < MaxReboots /\ reboots' = reboots + 1
    /\ offset' = 0 /\ batch' = <<>>
    /\ UNCHANGED <<typed, seenBelow, handled>>

ChatNext == TypeCommand \/ getUpdates \/ handleUpdate \/ Reboot

-----------------------------------------------------------------------------
(* Properties.                                                              *)

\* Telegram forgets no command that was not handled, and one is handled again
\* only after a restart (getUpdates' offset).
CommandsHandled ==
    /\ \A u \in 1..Commands : u < seenBelow => handled[u] > 0
    /\ \A u \in 1..Commands : handled[u] <= 1 + reboots
=============================================================================
