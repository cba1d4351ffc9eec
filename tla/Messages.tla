------------------------------- MODULE Messages -------------------------------
(***************************************************************************)
(* Messages to users: the campaigns of the console and their delivery      *)
(* (internal/admin/notifications.go), the in-app feed and the push tokens  *)
(* of a user's devices (internal/notification).  A campaign is claimed by  *)
(* one UPDATE and delivered by a goroutine of its own, which a restart     *)
(* loses; nothing resumes it.                                              *)
(*                                                                         *)
(* Texts, and what FCM does with a push, are left out; a notice to one     *)
(* driver (NotifyDriver) is a campaign of the audience SINGLE_DRIVER.      *)
(***************************************************************************)
EXTENDS Naturals, Absent

CONSTANTS Accounts, Riders, Motos,  \* Riders have a profile, Motos a MOTO_BIKE
          Notices, Deliveries,      \* admin_notifications, goroutines
          PushTokens,
          MaxMoves                  \* bound on what users and devices do

Audiences == {"ALL", "DRIVERS", "CUSTOMERS", "DRIVER_MOTO", "SINGLE_DRIVER"}
NoticeRows == [status : {"SENT", "DRAFT", "SCHEDULED", "DELETED"},
               audience : Audiences, target : Accounts \cup {None}]

ASSUME MessagesAssumption ==
    /\ Motos \subseteq Riders /\ Riders \subseteq Accounts
    /\ None \notin Accounts \cup Notices \cup PushTokens \cup NoticeRows
    /\ MaxMoves \in Nat

VARIABLES
    notice,     \* admin_notifications
    due,        \* notices whose scheduled_at has come
    delivery,   \* a goroutine of deliverCampaignPush
    feed,       \* notifications: the row of a notice in a user's feed
    twice,      \* feed rows inserted for a second time
    suspended,  \* users.is_suspended
    tokens,     \* device_tokens
    mirror,     \* users.fcm_token
    gone,       \* tokens FCM knows no more
    moves
messagesVars == <<notice, due, delivery, feed, twice, suspended, tokens,
                  mirror, gone, moves>>

NoDelivery == [pc |-> "idle", notice |-> None, audience |-> None,
               target |-> None, todo |-> {}, push |-> {}]
Moves == moves < MaxMoves /\ moves' = moves + 1

MessagesInit ==
    /\ notice = [n \in Notices |-> None]
    /\ due = {}
    /\ delivery = [j \in Deliveries |-> NoDelivery]
    /\ feed = [x \in Accounts \X Notices |-> "none"]
    /\ twice = {}
    /\ suspended \in SUBSET Accounts
    /\ tokens = {}
    /\ mirror = [u \in Accounts |-> None]
    /\ gone = {}
    /\ moves = 0

NoticeOnly == UNCHANGED <<due, feed, twice, suspended, tokens, mirror, gone, moves>>
DeliveryOnly == UNCHANGED <<notice, due, suspended, moves>>
UserOnly == UNCHANGED <<notice, due, delivery, twice, suspended>>
NoTokens == UNCHANGED <<tokens, mirror, gone>>

-----------------------------------------------------------------------------
(* The console.                                                             *)

\* deliverCampaign: go deliverCampaignPush
Deliver(j, n, row) ==
    /\ delivery[j].pc = "idle"
    /\ delivery' = [delivery EXCEPT ![j] =
          [NoDelivery EXCEPT !.pc = "resolve", !.notice = n,
                             !.audience = row.audience, !.target = row.target]]

\* resolveDriverUserID takes a profile's id or any user's.
ResolveDriver(audience) ==
    IF audience = "SINGLE_DRIVER" THEN Accounts ELSE {None}

\* A schedule in the past is a send-now; a draft has none.
InsertNotice(n, row) ==
    /\ notice[n] = None
    /\ notice' = [notice EXCEPT ![n] = row]
CreateNotice(n, audience, target, status) ==
    LET row == [status |-> status, audience |-> audience, target |-> target] IN
    /\ InsertNotice(n, row)
    /\ IF status = "SENT" THEN \E j \in Deliveries : Deliver(j, n, row)
       ELSE UNCHANGED delivery
    /\ NoticeOnly
CreateNotificationCampaign(n) ==
    \E audience \in Audiences, status \in {"SENT", "DRAFT", "SCHEDULED"} :
        \E target \in ResolveDriver(audience) :
            CreateNotice(n, audience, target, status)
NotifyDriver(n) ==
    \E target \in ResolveDriver("SINGLE_DRIVER") :
        CreateNotice(n, "SINGLE_DRIVER", target, "SENT")

\* Mutant: UPDATE ... WHERE id
MutClaimNotice(n) ==
    /\ notice[n] # None
    /\ notice' = [notice EXCEPT ![n].status = "SENT"]
\* UPDATE ... WHERE id AND status IN ('DRAFT', 'SCHEDULED')
ClaimNotice(n) ==
    /\ notice[n] # None /\ notice[n].status \in {"DRAFT", "SCHEDULED"}
    /\ notice' = [notice EXCEPT ![n].status = "SENT"]

SendNotificationCampaign(n) ==
    /\ ClaimNotice(n)
    /\ \E j \in Deliveries : Deliver(j, n, notice[n])
    /\ NoticeOnly

\* One replica's tick.  The claim is the UPDATE itself (SKIP LOCKED); the
\* process may die before it delivers what it claimed.
ClaimDue(n) ==
    /\ n \in due /\ notice[n] # None /\ notice[n].status = "SCHEDULED"
    /\ notice' = [notice EXCEPT ![n].status = "SENT"]
DispatchDueCampaigns(n) ==
    /\ ClaimDue(n)
    /\ \/ \E j \in Deliveries : Deliver(j, n, notice[n])
       \/ UNCHANGED delivery
    /\ NoticeOnly

\* A delivery that runs goes on.
DeleteNotice(n) ==
    /\ notice[n] # None /\ notice[n].status # "DELETED"
    /\ notice' = [notice EXCEPT ![n].status = "DELETED"]
DeleteNotificationCampaign(n) ==
    /\ DeleteNotice(n)
    /\ UNCHANGED delivery /\ NoticeOnly

-----------------------------------------------------------------------------
(* The delivery: deliverCampaignPush, SendToAllDevices.                     *)

\* targetUserIDs: the suspended are skipped, but for a targeted driver.
TargetUserIDs(audience, target) ==
    LET free == Accounts \ suspended
    IN  CASE audience = "SINGLE_DRIVER" -> {target}
          [] audience = "DRIVERS" -> Riders \cap free
          [] audience = "CUSTOMERS" -> free \ Riders
          [] audience = "DRIVER_MOTO" -> Motos \cap free
          [] OTHER -> free

ResolveAudience(j) ==
    LET d == delivery[j] IN
    /\ d.pc = "resolve"
    /\ delivery' = [delivery EXCEPT ![j] =
          [d EXCEPT !.pc = "fan_out",
                    !.todo = TargetUserIDs(d.audience, d.target)]]
    /\ UNCHANGED <<feed, twice>> /\ NoTokens /\ DeliveryOnly

\* users.fcm_token too, for users who registered before device_tokens
ListDeviceTokens(u) ==
    {t \in PushTokens : <<u, t>> \in tokens} \cup ({mirror[u]} \ {None})

\* A worker: the feed row, then the pushes.  A row that fails is logged.
PersistNotice(u, n) ==
    /\ twice' = IF feed[<<u, n>>] = "none" THEN twice ELSE twice \cup {<<u, n>>}
    /\ feed' = [feed EXCEPT ![<<u, n>>] = "unread"]
SendToAllDevices(j, u) ==
    LET d == delivery[j] IN
    /\ d.pc = "fan_out" /\ u \in d.todo
    /\ PersistNotice(u, d.notice) \/ UNCHANGED <<feed, twice>>
    /\ delivery' = [delivery EXCEPT ![j].todo = @ \ {u},
                                    ![j].push = @ \cup ListDeviceTokens(u)]
    /\ NoTokens /\ DeliveryOnly

\* A token FCM does not know is removed everywhere.
PruneDeviceToken(t) ==
    /\ tokens' = {x \in tokens : x[2] # t}
    /\ mirror' = [u \in Accounts |-> IF mirror[u] = t THEN None ELSE mirror[u]]
PushNotice(j, t) ==
    /\ t \in delivery[j].push
    /\ delivery' = [delivery EXCEPT ![j].push = @ \ {t}]
    /\ IF t \in gone THEN PruneDeviceToken(t) ELSE UNCHANGED <<tokens, mirror>>
    /\ UNCHANGED <<feed, twice, gone>> /\ DeliveryOnly

\* Nothing is left to do, the half hour is over, or the process restarts.
DeliveryEnds(j) ==
    /\ delivery[j].pc # "idle"
    /\ delivery' = [delivery EXCEPT ![j] = NoDelivery]
    /\ UNCHANGED <<feed, twice>> /\ NoTokens /\ DeliveryOnly

-----------------------------------------------------------------------------
(* The user: the feed, the devices.                                         *)

SetRow(u, n, row) ==
    /\ feed[<<u, n>>] # row
    /\ feed' = [feed EXCEPT ![<<u, n>>] = row]
    /\ UserOnly /\ NoTokens /\ Moves
\* WHERE id AND user_id: a deleted row is marked too, and stays deleted.
MarkRead(u, n) == feed[<<u, n>>] = "unread" /\ SetRow(u, n, "read")
MarkUnread(u, n) == feed[<<u, n>>] = "read" /\ SetRow(u, n, "unread")
DeleteRow(u, n) == feed[<<u, n>>] \in {"read", "unread"} /\ SetRow(u, n, "deleted")
MarkAllRead(u) ==
    /\ feed' = [x \in DOMAIN feed |->
          IF x[1] = u /\ feed[x] = "unread" THEN "read" ELSE feed[x]]
    /\ UserOnly /\ NoTokens /\ Moves

\* In a transaction: from any other user to this one.  The other's
\* users.fcm_token is left as it is.
UpsertDeviceToken(u, t) ==
    /\ tokens' = {x \in tokens : x[2] # t} \cup {<<u, t>>}
    /\ mirror' = [mirror EXCEPT ![u] = t]
RegisterDeviceToken(u, t) ==
    /\ t \notin gone
    /\ UpsertDeviceToken(u, t)
    /\ UNCHANGED <<feed, gone>> /\ UserOnly /\ Moves

DeleteDeviceToken(u, t) ==
    /\ tokens' = tokens \ {<<u, t>>}
    /\ mirror' = [mirror EXCEPT ![u] = IF @ = t THEN None ELSE @]
UnregisterDeviceToken(u, t) ==
    /\ t \in ListDeviceTokens(u)
    /\ DeleteDeviceToken(u, t)
    /\ UNCHANGED <<feed, gone>> /\ UserOnly /\ Moves

\* The app is removed from the device.
AppRemoved(t) ==
    /\ gone' = gone \cup {t} /\ t \notin gone
    /\ UNCHANGED <<feed, tokens, mirror>> /\ UserOnly /\ Moves

ScheduleComes(n) ==
    /\ n \notin due /\ due' = due \cup {n}
    /\ UNCHANGED <<notice, delivery, feed, twice, suspended, tokens, mirror,
                   gone, moves>>

MessagesNext ==
    \/ \E n \in Notices :
          \/ CreateNotificationCampaign(n) \/ NotifyDriver(n)
          \/ SendNotificationCampaign(n) \/ DispatchDueCampaigns(n)
          \/ DeleteNotificationCampaign(n) \/ ScheduleComes(n)
    \/ \E j \in Deliveries :
          \/ ResolveAudience(j) \/ DeliveryEnds(j)
          \/ \E u \in Accounts : SendToAllDevices(j, u)
          \/ \E t \in PushTokens : PushNotice(j, t)
    \/ \E u \in Accounts :
          \/ MarkAllRead(u)
          \/ \E n \in Notices : MarkRead(u, n) \/ MarkUnread(u, n)
                                \/ DeleteRow(u, n)
          \/ \E t \in PushTokens :
                RegisterDeviceToken(u, t) \/ UnregisterDeviceToken(u, t)
    \/ \E t \in PushTokens : AppRemoved(t)

-----------------------------------------------------------------------------
(* Properties.                                                              *)

\* However often a campaign is sent, by hand and by every replica's tick
\* ("cannot double-send", dispatchDueCampaigns), nobody gets it twice; and a
\* read, or deleted, row of the feed never comes back as new by it.
NoticeArrivesOnce == twice = {}

\* "A token can only belong to one account at a time, so any prior owner is
\* cleared first" (UpsertDeviceToken): pushes for two users never go to the
\* same device.
\* It does not hold: the prior owner's users.fcm_token stays.
TokenHasOneOwner ==
    \A u, v \in Accounts :
        u # v => ListDeviceTokens(u) \cap ListDeviceTokens(v) = {}
=============================================================================
