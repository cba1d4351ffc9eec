-------------------------------- MODULE Bonus --------------------------------
(***************************************************************************)
(* The registration bonus (internal/bonus): the tiers the console keeps,   *)
(* and the grant ApproveDriver makes in three statements (is there one     *)
(* already, which tier is active, insert), the last one a transaction.     *)
(* The granted rides go to driver_ride_credits, which the ride-credit      *)
(* ledger never reads.  The bonus of a purchase has no caller.             *)
(***************************************************************************)
EXTENDS Naturals, Sequences, Absent

CONSTANTS Newcomers,    \* drivers being approved
          Approvals,    \* calls of ApproveDriver
          MaxTiers,     \* bound on tiers made
          MaxSwitches   \* bound on their (de)activations

ASSUME BonusAssumption == MaxTiers \in Nat \ {0} /\ MaxSwitches \in Nat

VARIABLES
    tier,       \* bonus_tiers, in order of creation
    grants,     \* bonus_grants with trigger_credit_id NULL
    bonusCredits, \* driver_ride_credits made for a grant
    priced,     \* does the vehicle type have a package to name?
    approval,   \* an approval at work
    switches
bonusVars == <<tier, grants, bonusCredits, priced, approval, switches>>

Triggers == {"REGISTRATION", "PURCHASE_COUNT"}
NoApproval == [pc |-> "idle", driver |-> None, tier |-> None, seen |-> {}]

\* Migration 040 seeds one of each.
BonusInit ==
    /\ tier = <<[trigger |-> "REGISTRATION", active |-> TRUE]>>
    /\ grants = {} /\ bonusCredits = {}
    /\ priced \in BOOLEAN
    /\ approval = [a \in Approvals |-> NoApproval]
    /\ switches = 0

-----------------------------------------------------------------------------
(* The console.                                                             *)

CreateTier(trigger) ==
    /\ Len(tier) < MaxTiers
    /\ tier' = Append(tier, [trigger |-> trigger, active |-> TRUE])
    /\ UNCHANGED <<grants, bonusCredits, priced, approval, switches>>
AdminCreateTier == \E trigger \in Triggers : CreateTier(trigger)

SetTierActive(t, active) ==
    /\ switches < MaxSwitches /\ switches' = switches + 1
    /\ tier' = [tier EXCEPT ![t].active = active]
    /\ UNCHANGED <<grants, bonusCredits, priced, approval>>
AdminDeactivateTier(t) == SetTierActive(t, FALSE)
AdminActivateTier(t) == SetTierActive(t, TRUE)

-----------------------------------------------------------------------------
(* GrantRegistrationBonus.                                                  *)

GrantedTo(d) == {g \in grants : g.driver = d}

\* ORDER BY created_at
RegistrationTier ==
    LET fit == {t \in DOMAIN tier :
                   tier[t].trigger = "REGISTRATION" /\ tier[t].active}
    IN  IF fit = {} THEN None ELSE CHOOSE t \in fit : \A u \in fit : t <= u

\* Mutant: asks for a grant of the tier that is active now.
MutAlreadyGrantedRegistration(d) ==
    \E g \in GrantedTo(d) : g.tier = RegistrationTier
\* Of any REGISTRATION tier.
AlreadyGrantedRegistration(d) ==
    \E g \in GrantedTo(d) : tier[g.tier].trigger = "REGISTRATION"

CheckGranted(a, d) ==
    /\ approval[a].pc = "idle"
    /\ approval' = [approval EXCEPT ![a] =
          IF AlreadyGrantedRegistration(d) THEN NoApproval
          ELSE [pc |-> "tier", driver |-> d, tier |-> None,
                seen |-> GrantedTo(d)]]
    /\ UNCHANGED <<tier, grants, bonusCredits, priced, switches>>

ReadTier(a) ==
    /\ approval[a].pc = "tier"
    /\ approval' = [approval EXCEPT ![a] =
          IF RegistrationTier = None THEN NoApproval
          ELSE [@ EXCEPT !.pc = "insert", !.tier = RegistrationTier]]
    /\ UNCHANGED <<tier, grants, bonusCredits, priced, switches>>

\* The grant and its credits, in a transaction; uniq_bonus_registration
\* refuses a second one of the driver and tier.  Without any package of the
\* vehicle type the INSERT ... SELECT makes no credits, and the grant stands.
InsertGrant(a) ==
    LET p == approval[a]
        g == [driver |-> p.driver, tier |-> p.tier, seen |-> p.seen] IN
    /\ p.pc = "insert"
    /\ IF \E h \in GrantedTo(p.driver) : h.tier = p.tier
       THEN UNCHANGED <<grants, bonusCredits>>
       ELSE /\ grants' = grants \cup {g}
            /\ bonusCredits' = IF priced THEN bonusCredits \cup {<<p.driver, p.tier>>}
                          ELSE bonusCredits
    /\ approval' = [approval EXCEPT ![a] = NoApproval]
    /\ UNCHANGED <<tier, priced, switches>>

BonusNext ==
    \/ AdminCreateTier
    \/ \E t \in DOMAIN tier : AdminDeactivateTier(t) \/ AdminActivateTier(t)
    \/ \E a \in Approvals :
          \/ \E d \in Newcomers : CheckGranted(a, d)
          \/ ReadTier(a) \/ InsertGrant(a)

-----------------------------------------------------------------------------
(* Properties.                                                              *)

\* "Idempotent - safe to call multiple times" (GrantRegistrationBonus): a
\* driver has two registration grants only of two tiers, and only from two
\* approvals neither of which could see the other's grant.
RegistrationBonusOnce ==
    \A g, h \in grants :
        g.driver = h.driver /\ g # h
            => /\ g.tier # h.tier
               /\ ~(\E x \in g.seen : x.tier = h.tier)
               /\ ~(\E x \in h.seen : x.tier = g.tier)
=============================================================================
