------------------------------ MODULE MCOffice ------------------------------
(***************************************************************************)
(* What the console works on besides the rides: the claims of paid         *)
(* packages, the catalogue, the bonuses, support cases, prices, regions    *)
(* and adverts; and what runs beside it: the daily jobs that write to the  *)
(* drivers and the operators, the operators' chat, the analytics stream.   *)
(* They share no state that the modules speak of, and a behaviour is of    *)
(* one of them.                                                            *)
(***************************************************************************)
EXTENDS Claims, Catalogue, Bonus, Cases, Pricing, Settings, Jobs, Alerts,
        TLC

VARIABLE part   \* which of them this behaviour is of

Parts == {"claims", "catalogue", "bonus", "cases", "pricing", "settings",
          "adverts", "jobs", "alerts", "chat", "events"}

\* The others begin in one way.
OfficeInit ==
    /\ part \in Parts
    /\ ClaimsInit
    /\ CatalogueInit /\ (part = "catalogue" \/ campaigns = <<>>)
    /\ BonusInit /\ (part = "bonus" \/ priced)
    /\ CasesInit
    /\ PricingInit
    /\ SettingsInit
    /\ AdvertsInit
    /\ JobsInit /\ (part = "jobs" \/ dated = [d \in Documents |-> None])
    /\ AlertsInit
    /\ ChatInit
    /\ EventsInit

OfficeNext ==
    /\ UNCHANGED part
    /\ IF part = "claims" THEN ClaimsNext ELSE UNCHANGED <<vars, claimVars>>
    /\ IF part = "catalogue" THEN CatalogueNext ELSE UNCHANGED catalogueVars
    /\ IF part = "bonus" THEN BonusNext ELSE UNCHANGED bonusVars
    /\ IF part = "cases" THEN CasesNext ELSE UNCHANGED casesVars
    /\ IF part = "pricing" THEN PricingNext ELSE UNCHANGED pricingVars
    /\ IF part = "settings" THEN SettingsNext ELSE UNCHANGED settingsVars
    /\ IF part = "adverts" THEN AdvertsNext ELSE UNCHANGED advertVars
    /\ IF part = "jobs" THEN JobsNext ELSE UNCHANGED jobVars
    /\ IF part = "alerts" THEN AlertsNext ELSE UNCHANGED alertVars
    /\ IF part = "chat" THEN ChatNext ELSE UNCHANGED chatVars
    /\ IF part = "events" THEN EventsNext ELSE UNCHANGED eventVars

officeVars ==
    <<part, vars, claimVars, catalogueVars, bonusVars, casesVars,
      pricingVars, settingsVars, advertVars, jobVars, alertVars,
      chatVars, eventVars>>
OfficeSpec == OfficeInit /\ [][OfficeNext]_officeVars

-----------------------------------------------------------------------------
(* Properties.                                                              *)

\* What an admin edited stays as edited, of a region and of an advert, unless
\* another's edit overlapped (settings.Update, monetization.UpdateAdvert).
EditsStand == RegionsAsEdited /\ ShownAsOrdered

\* What runs beside the requests loses nothing by a restart that its own
\* record covers: an expiry notice is sent at its mark (but for a start just
\* before midnight, a pass that runs over it and a notice that failed), a
\* command typed in the chat is answered, an event read from the stream is
\* processed or still pending; and the chat is neither flooded nor kept in the
\* dark.
BackgroundKeepsUp ==
    RestartsLoseNothing /\ CommandsHandled /\ EventsProcessed /\ AlertsPaced

-----------------------------------------------------------------------------
(* Instances for TLC.                                                      *)

CONSTANTS c1, a1, a2, o1, o2,         \* claims, admins, sales
          g1, g2, m1, m2,             \* packages, members, also orders
          x1, x2                      \* further rows

\* Two admins take up the claim; one of the approvals finds a free package.
MCPath == [s \in Sales |-> "office"]
MCOffer == [s \in Sales |-> IF s = o1 THEN "free" ELSE "priced"]
MCKey == [s \in Sales |-> s]
MCReviews == {<<c1, a1>>, <<c1, a2>>}
MCSaleOf == [p \in Reviews |-> IF p[2] = a1 THEN o1 ELSE o2]
MCReports == [s \in Sales |-> {}]

\* Pricing: a seed, and forms with no or a large base fare, no first tier, a
\* night that wraps round midnight and one that does not, and dearer waiting.
MCSeed == [base |-> 2, baseKM |-> 1, tier1 |-> 3, tier1Max |-> 3, tier2 |-> 1,
           night |-> 50, from |-> 22, until |-> 5, perMin |-> 1, free |-> 1,
           min |-> 4]
MCTariffs == {[MCSeed EXCEPT !.base = b, !.tier1Max = m, !.from = f,
                             !.until = 6, !.night = 20, !.perMin = 2] :
                b \in {0, 3}, m \in {0, 2}, f \in {1, 6}}

\* Papers expire today, in two days, or have no date.
MCMarks == {2, 0, -1}

Symmetry == Permutations(Staff)

=============================================================================
