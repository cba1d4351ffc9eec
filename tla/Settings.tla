------------------------------ MODULE Settings ------------------------------
(***************************************************************************)
(* What the console edits by reading it, changing it and writing it back,  *)
(* in two statements of no transaction.  The platform's settings           *)
(* (internal/settings): keys that are overwritten, and the regions, all of *)
(* them in one JSON value.  The banner adverts of the customer app and the *)
(* partners who pay for them (internal/monetization): an edit names some   *)
(* fields, fills in the others from the row it read and writes the whole   *)
(* row; image, links, labels and priority are one field, copy.             *)
(***************************************************************************)
EXTENDS Naturals, Absent

CONSTANTS Regions, Secretaries,   \* regions, requests
          MaxAmendments           \* bound on edits of regions

ASSUME SettingsAssumption == MaxAmendments \in Nat /\ None \notin Regions

VARIABLES
    value,      \* a key that is overwritten, by its editor
    region,     \* platform_settings 'regions': their statuses
    desk,       \* a request that edits the regions
    fate,       \* what the last edit of a region asked for
    lossy,      \* did two edits overlap, or a read fail?
    amended
settingsVars == <<value, region, desk, fate, lossy, amended>>

Standing == {"Active", "Coming soon"}
NoDesk == [pc |-> "idle", id |-> None, status |-> None, read |-> None]

SettingsInit ==
    /\ value = None
    /\ region = [r \in Regions |-> None]
    /\ fate = region
    /\ desk = [s \in Secretaries |-> NoDesk]
    /\ lossy = FALSE /\ amended = 0

\* INSERT ... ON CONFLICT (key) DO UPDATE
SetKey(s) == value' = s
UpdateKey(s) ==
    /\ SetKey(s)
    /\ UNCHANGED <<region, desk, fate, lossy, amended>>

\* SELECT value ... WHERE key = 'regions'
ReadRegions(s, pc, r, status, read) ==
    /\ desk[s].pc = "idle" /\ amended < MaxAmendments
    /\ amended' = amended + 1
    /\ lossy' = (lossy \/ read # region
                       \/ \E t \in Secretaries : desk[t].pc # "idle")
    /\ desk' = [desk EXCEPT ![s] =
          [pc |-> pc, id |-> r, status |-> status, read |-> read]]
    /\ UNCHANGED <<value, region, fate>>
\* A read that fails, for whatever reason, is taken for "no regions yet".
CreateRegion(s, r, status) ==
    /\ region[r] = None
    /\ \E read \in {region, [x \in Regions |-> None]} :
          ReadRegions(s, "create", r, status, read)
UpdateRegion(s, r, status) == ReadRegions(s, "update", r, status, region)
DeleteRegion(s, r) == ReadRegions(s, "delete", r, None, region)

WriteRegions(s, regions) ==
    /\ region' = regions
    /\ fate' = [fate EXCEPT ![desk[s].id] =
          IF desk[s].pc = "update" /\ @ = None THEN None ELSE desk[s].status]
    /\ desk' = [desk EXCEPT ![s] = NoDesk]
    /\ UNCHANGED <<value, lossy, amended>>
AppendRegion(s) ==
    LET d == desk[s] IN
    /\ d.pc = "create"
    /\ WriteRegions(s, [d.read EXCEPT ![d.id] = d.status])
\* Mutant: writes the region it changed, and only that.
MutMergeRegion(s) ==
    LET d == desk[s] IN
    /\ d.pc = "update"
    /\ WriteRegions(s, [r \in Regions |->
          IF r = d.id /\ d.read[r] # None THEN d.status ELSE None])

\* An id that is not there changes nothing.
MergeRegion(s) ==
    LET d == desk[s] IN
    /\ d.pc = "update"
    /\ WriteRegions(s,
          IF d.read[d.id] = None THEN d.read ELSE [d.read EXCEPT ![d.id] = d.status])

FilterRegion(s) ==
    LET d == desk[s] IN
    /\ d.pc = "delete"
    /\ WriteRegions(s, [d.read EXCEPT ![d.id] = None])

SettingsNext ==
    \E s \in Secretaries :
        \/ UpdateKey(s)
        \/ \E r \in Regions, status \in Standing :
              CreateRegion(s, r, status) \/ UpdateRegion(s, r, status)
        \/ \E r \in Regions : DeleteRegion(s, r)
        \/ AppendRegion(s) \/ MergeRegion(s) \/ FilterRegion(s)

-----------------------------------------------------------------------------
(* Properties.                                                              *)

\* Each region is as the last edit of it left it, though every edit rewrites
\* them all, unless two edits overlapped (UpdateRegion, CreateRegion,
\* DeleteRegion lock nothing) or CreateRegion's read failed.
RegionsAsEdited == ~lossy => region = fate

-----------------------------------------------------------------------------
(* Partners and adverts.                                                    *)

CONSTANTS Partners, Adverts, AdEditors, \* partners, adverts, requests
          MaxAdvertCalls              \* bound on the calls of the console

ASSUME AdvertsAssumption ==
    /\ MaxAdvertCalls \in Nat
    /\ None \notin Partners \cup {"active", "inactive"}

VARIABLES
    partner,    \* rows of partners: the status, or None
    advert,     \* rows of adverts, or None
    banner,     \* a request of the console
    named,      \* per advert and field, what the last call naming it asked for
    crossed,    \* was an advert edited by two overlapping calls?
    adCalls
advertVars == <<partner, advert, banner, named, crossed, adCalls>>

Copies == {"old", "new"}
Windows == {"before", "during", "after"}       \* now, seen from start and end date
Fields == {"partner", "active", "copy", "window"}
NoBanner == [pc |-> "idle", id |-> None, input |-> None, read |-> None]
\* The fields a request leaves out are nil.
EditOf(f, v) == [[x \in Fields |-> None] EXCEPT ![f] = v]

AdvertsInit ==
    /\ partner = [p \in Partners |-> None]
    /\ advert = [a \in Adverts |-> None]
    /\ banner = [e \in AdEditors |-> NoBanner]
    /\ named = advert
    /\ crossed = FALSE /\ adCalls = 0

Asked(e, pc, id, input, read) ==
    banner' = [banner EXCEPT ![e] = [pc |-> pc, id |-> id, input |-> input, read |-> read]]
AdCall(e) == banner[e].pc = "idle" /\ adCalls < MaxAdvertCalls /\ adCalls' = adCalls + 1
Answered(e) == banner' = [banner EXCEPT ![e] = NoBanner] /\ UNCHANGED adCalls

\* INSERT INTO partners
CreatePartner(e, p) ==
    /\ AdCall(e) /\ partner[p] = None
    /\ partner' = [partner EXCEPT ![p] = "active"]
    /\ UNCHANGED <<advert, banner, named, crossed>>

\* DELETE FROM partners: adverts.partner_id ... ON DELETE CASCADE
DropPartner(p) ==
    LET Theirs == {a \in Adverts : advert[a] # None /\ advert[a]["partner"] = p} IN
    /\ partner' = [partner EXCEPT ![p] = None]
    /\ advert' = [a \in Adverts |-> IF a \in Theirs THEN None ELSE advert[a]]
    /\ named' = [a \in Adverts |-> IF a \in Theirs THEN None ELSE named[a]]
\* GetPartnerByID finds it; a delete of a row gone since then changes nothing.
DeletePartner(e, p) ==
    /\ AdCall(e) /\ partner[p] # None
    /\ DropPartner(p)
    /\ UNCHANGED <<banner, crossed>>

\* The repository reads the row, and writes name, contacts and status back.
FindPartner(e, p) ==
    /\ AdCall(e) /\ partner[p] # None
    /\ \E status \in {"active", "inactive"} : Asked(e, "partner", p, status, partner[p])
    /\ UNCHANGED <<partner, advert, named, crossed>>
UpdatePartner(e) ==
    LET b == banner[e] IN
    /\ b.pc = "partner" /\ Answered(e)
    /\ partner' = [partner EXCEPT ![b.id] = IF @ = None THEN None ELSE b.input]
    /\ UNCHANGED <<advert, named, crossed>>

\* The service verifies that the partner exists ...
VerifyPartner(e, a, p) ==
    /\ AdCall(e) /\ advert[a] = None /\ partner[p] # None
    /\ \A x \in AdEditors : banner[x].id # a
    /\ Asked(e, "create", a, p, None)
    /\ UNCHANGED <<partner, advert, named, crossed>>
\* ... and inserts: the foreign key refuses a partner deleted in between.
InsertAdvert(a, row) ==
    /\ advert' = [advert EXCEPT ![a] = IF partner[row["partner"]] = None THEN None ELSE row]
    /\ named' = [named EXCEPT ![a] = advert'[a]]
CreateAdvert(e) ==
    LET b == banner[e] IN
    /\ b.pc = "create" /\ Answered(e)
    /\ InsertAdvert(b.id, [f \in Fields |->
          CASE f = "partner" -> b.input [] f = "active" -> TRUE
            [] f = "copy" -> "old" [] f = "window" -> "during"])
    /\ UNCHANGED <<partner, crossed>>

\* UpdateAdvert verifies the partner it names, if any, and reads the row.
FindAdvert(e, a, f, v) ==
    /\ AdCall(e) /\ advert[a] # None
    /\ f = "partner" => partner[v] # None
    /\ Asked(e, "advert", a, EditOf(f, v), advert[a])
    /\ crossed' = (crossed \/ \E x \in AdEditors : banner[x].pc = "advert" /\ banner[x].id = a)
    /\ UNCHANGED <<partner, advert, named>>
\* Mutant: a field the request leaves out takes the zero value of its column.
MutMergeAdvert(read, input) ==
    [f \in Fields |-> IF input[f] = None /\ f = "active" THEN FALSE
                      ELSE IF input[f] = None THEN read[f] ELSE input[f]]

MergeAdvert(read, input) ==
    [f \in Fields |-> IF input[f] = None THEN read[f] ELSE input[f]]

\* UPDATE adverts SET every column WHERE id: no row, an error.
UpdateAdvert(e) ==
    LET b == banner[e]
        row == MergeAdvert(b.read, b.input)
        Lands == advert[b.id] # None /\ partner[row["partner"]] # None IN
    /\ b.pc = "advert" /\ Answered(e)
    /\ advert' = [advert EXCEPT ![b.id] = IF Lands THEN row ELSE @]
    /\ named' = [named EXCEPT ![b.id] =
          IF Lands THEN [f \in Fields |-> IF b.input[f] # None THEN b.input[f] ELSE @[f]]
          ELSE @]
    /\ UNCHANGED <<partner, crossed>>

\* DELETE FROM adverts, once GetAdvertByID has found it.
RemoveAdvert(a) ==
    /\ advert' = [advert EXCEPT ![a] = None]
    /\ named' = [named EXCEPT ![a] = None]
DeleteAdvert(e, a) ==
    /\ AdCall(e) /\ advert[a] # None
    /\ RemoveAdvert(a)
    /\ UNCHANGED <<partner, banner, crossed>>

\* active, and now between start_date and end_date
ListActiveAdverts ==
    {a \in Adverts : advert[a] # None /\ advert[a]["active"] /\ advert[a]["window"] = "during"}

AdvertsNext ==
    \E e \in AdEditors :
        \/ \E p \in Partners : CreatePartner(e, p) \/ DeletePartner(e, p) \/ FindPartner(e, p)
        \/ UpdatePartner(e) \/ CreateAdvert(e) \/ UpdateAdvert(e)
        \/ \E a \in Adverts :
              \/ DeleteAdvert(e, a)
              \/ \E p \in Partners : VerifyPartner(e, a, p) \/ FindAdvert(e, a, "partner", p)
              \/ \E on \in BOOLEAN : FindAdvert(e, a, "active", on)
              \/ \E c \in Copies : FindAdvert(e, a, "copy", c)
              \/ \E w \in Windows : FindAdvert(e, a, "window", w)

-----------------------------------------------------------------------------
(* Properties.                                                              *)

\* The app shows an advert exactly when the last calls that named its switch
\* and its dates say so, and its partner still exists: an edit of the wording
\* that read the row before the advert was switched off does not put it back,
\* as long as no two edits of adverts overlapped (UpdateAdvert locks nothing).
ShownAsOrdered ==
    ~crossed =>
        \A a \in Adverts :
            a \in ListActiveAdverts <=>
                /\ named[a] # None /\ partner[named[a]["partner"]] # None
                /\ named[a]["active"] /\ named[a]["window"] = "during"
=============================================================================
