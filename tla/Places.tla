-------------------------------- MODULE Places --------------------------------
(***************************************************************************)
(* The places of internal/location.  A row of route_cache and a customer's *)
(* recent places are read through Redis (GetRoute, GetSuggestions), and    *)
(* what writes them deletes the copy afterwards; a route that an app sends *)
(* is copied as sent.  ReplaceSavedLocations is one READ COMMITTED         *)
(* transaction.  Of what is stored only its version is kept; version 0 of  *)
(* the recent places is that there are none.  The copy of GetSuggestions   *)
(* also holds saved places, landmarks and past destinations: what writes   *)
(* those deletes no copy, so it may be suggestionsTTL behind, and nothing  *)
(* is said of that part here.                                              *)
(***************************************************************************)
EXTENDS Naturals, FiniteSets, Absent

CONSTANTS
    Visits,      \* calls of the service
    MaxVisits    \* bound: calls begun

ASSUME PlacesAssumption == MaxVisits \in Nat

VARIABLES
    stored,      \* each kind's version in the database; the route's may be None
    cached,      \* its copy in Redis: the version, or None
    visit,       \* the calls: pc, kind, what they read or will write, and
                 \* whether a write passed them
    passed,      \* was the copy made by a call that a write had passed, of a
                 \* query that failed or as an app sent it, or left by a
                 \* deletion that failed?
    saved,       \* live saved_locations; of a row that came with a replacement,
                 \* whether another ran beside it
    replacing,   \* transactions: the rows their UPDATE saw, and the same
    visits
placesVars == <<stored, cached, visit, passed, saved, replacing, visits>>

Kinds == {"route", "recents"}
NoVisit == [pc |-> "idle", kind |-> "route", has |-> None, passed |-> FALSE]
NoReplace == [pc |-> "idle", sees |-> {}, beside |-> FALSE]

PlacesInit ==
    /\ stored = [k \in Kinds |-> IF k = "route" THEN None ELSE 0]
    /\ cached = [k \in Kinds |-> None]
    /\ visit = [v \in Visits |-> NoVisit]
    /\ passed = [k \in Kinds |-> FALSE]
    /\ saved = {} /\ replacing = [v \in Visits |-> NoReplace]
    /\ visits = 0

savedVars == <<saved, replacing>>
Arrive(v) ==
    /\ visit[v].pc = "idle" /\ replacing[v].pc = "idle"
    /\ visits < MaxVisits /\ visits' = visits + 1

-----------------------------------------------------------------------------
(* The copies.                                                              *)

\* GetRoute, GetSuggestions: a hit is the answer, a miss reads the rows (of
\* recent places that it cannot read, none) ...
Get(v, k) ==
    /\ Arrive(v) /\ cached[k] = None /\ stored[k] # None
    /\ \E has \in {stored[k], 0} :
          /\ has = stored[k] \/ k = "recents"
          /\ visit' = [visit EXCEPT ![v] =
                [pc |-> "fill", kind |-> k, has |-> has, passed |-> has # stored[k]]]
    /\ UNCHANGED <<stored, cached, passed, savedVars>>

\* ... and copies them.
Fill(v) ==
    LET k == visit[v].kind IN
    /\ visit[v].pc = "fill"
    /\ cached' = [cached EXCEPT ![k] = visit[v].has]
    /\ passed' = [passed EXCEPT ![k] = visit[v].passed]
    /\ visit' = [visit EXCEPT ![v] = NoVisit]
    /\ UNCHANGED <<stored, savedVars, visits>>

\* UpsertRoute, also of WarmLandmarkRoutes: the row keeps the first distance,
\* the copy takes this one.
UpsertRoute(v) ==
    /\ Arrive(v)
    /\ stored' = [stored EXCEPT !["route"] = IF @ = None THEN 0 ELSE @]
    /\ visit' = [visit EXCEPT ![v] =
          [NoVisit EXCEPT !.pc = "fill", !.has = stored["route"]', !.passed = TRUE]]
    /\ UNCHANGED <<cached, passed, savedVars>>

\* RecordAgreedFare (no row, no effect), RecordRecentLocation and
\* DeleteRecentLocation: the row, then the copy.
Store(v, k) ==
    /\ Arrive(v)
    /\ stored' = [stored EXCEPT ![k] = IF @ = None THEN None ELSE @ + 1]
    /\ visit' = [w \in Visits |->
          IF w = v THEN [NoVisit EXCEPT !.pc = "drop", !.kind = k]
          ELSE [visit[w] EXCEPT !.passed = @ \/ visit[w].kind = k]]
    /\ UNCHANGED <<cached, passed, savedVars>>

\* Mutant: the copy stays until it lapses.
MutDrop(v) ==
    /\ visit[v].pc = "drop"
    /\ visit' = [visit EXCEPT ![v] = NoVisit]
    /\ UNCHANGED <<stored, cached, passed, savedVars, visits>>

Drop(v) ==
    /\ visit[v].pc = "drop"
    /\ cached' = [cached EXCEPT ![visit[v].kind] = None]
    /\ visit' = [visit EXCEPT ![v] = NoVisit]
    /\ UNCHANGED <<stored, passed, savedVars, visits>>

\* Redis fails, the context is done or the server stops: nobody tries again.
DropFails(v) ==
    /\ visit[v].pc = "drop"
    /\ passed' = [passed EXCEPT ![visit[v].kind] = TRUE]
    /\ visit' = [visit EXCEPT ![v] = NoVisit]
    /\ UNCHANGED <<stored, cached, savedVars, visits>>

\* routeCacheTTL, suggestionsTTL.
CopyLapses(k) ==
    /\ cached[k] # None /\ cached' = [cached EXCEPT ![k] = None]
    /\ UNCHANGED <<stored, visit, passed, savedVars, visits>>

-----------------------------------------------------------------------------
(* Saved locations.                                                         *)

copyVars == <<stored, cached, visit, passed>>

\* Rows that another transaction has updated and not committed.
Held(v) == UNION {replacing[w].sees : w \in
                    {u \in Visits \ {v} : replacing[u].pc = "insert"}}

CreateSavedLocation(v) ==
    /\ Arrive(v)
    /\ saved' = saved \cup {[id |-> visits, whole |-> FALSE, beside |-> FALSE]}
    /\ UNCHANGED <<copyVars, replacing>>

DeleteSavedLocation(v) ==
    /\ Arrive(v)
    /\ \E l \in saved \ Held(v) : saved' = saved \ {l}
    /\ UNCHANGED <<copyVars, replacing>>

\* The UPDATE sees the rows of now, ...
ReplaceRead(v) ==
    LET others == {w \in Visits : replacing[w].pc # "idle"} IN
    /\ Arrive(v)
    /\ replacing' = [w \in Visits |->
          IF w = v THEN [pc |-> "lock", sees |-> saved, beside |-> others # {}]
          ELSE [replacing[w] EXCEPT !.beside = @ \/ w \in others]]
    /\ UNCHANGED <<copyVars, saved>>

\* ... and waits for those that another has updated.
ReplaceLock(v) ==
    /\ replacing[v].pc = "lock" /\ replacing[v].sees \cap Held(v) = {}
    /\ replacing' = [replacing EXCEPT ![v].pc = "insert", ![v].sees = @ \cap saved]
    /\ UNCHANGED <<copyVars, saved, visits>>

\* Mutant: the new set is added to the old one.
MutReplaceCommit(v) ==
    /\ replacing[v].pc = "insert" /\ visits < MaxVisits /\ visits' = visits + 1
    /\ saved' = saved \cup
                  {[id |-> visits, whole |-> TRUE, beside |-> replacing[v].beside]}
    /\ replacing' = [replacing EXCEPT ![v] = NoReplace]
    /\ UNCHANGED copyVars

\* The new rows come with the commit; a statement that fails undoes all.
ReplaceCommit(v) ==
    /\ replacing[v].pc = "insert" /\ visits < MaxVisits /\ visits' = visits + 1
    /\ saved' = (saved \ replacing[v].sees) \cup
                  {[id |-> visits, whole |-> TRUE, beside |-> replacing[v].beside]}
    /\ replacing' = [replacing EXCEPT ![v] = NoReplace]
    /\ UNCHANGED copyVars

ReplaceFails(v) ==
    /\ replacing[v].pc # "idle"
    /\ replacing' = [replacing EXCEPT ![v] = NoReplace]
    /\ UNCHANGED <<copyVars, saved, visits>>

PlacesNext ==
    \/ \E v \in Visits, k \in Kinds : Get(v, k) \/ Store(v, k)
    \/ \E v \in Visits :
          \/ Fill(v) \/ UpsertRoute(v) \/ Drop(v) \/ DropFails(v)
          \/ CreateSavedLocation(v) \/ DeleteSavedLocation(v)
          \/ ReplaceRead(v) \/ ReplaceLock(v) \/ ReplaceCommit(v) \/ ReplaceFails(v)
    \/ \E k \in Kinds : CopyLapses(k)

-----------------------------------------------------------------------------
(* Properties.                                                              *)

\* A copy of the rows is what they are now, unless its deletion is under way or
\* failed, it was read before a write and made after it, its query failed, or
\* an app sent it ("Invalidates the cached suggestions so the new recent shows
\* immediately").
CopiesFresh ==
    \A k \in Kinds :
        \/ cached[k] = None \/ passed[k] \/ cached[k] = stored[k]
        \/ \E v \in Visits : visit[v].pc = "drop" /\ visit[v].kind = k

\* The sets of two replacements are live together only if the two overlapped
\* ("atomically swaps ALL of a user's saved locations").
OneSetSaved ==
    \A r, s \in saved : (r.whole /\ s.whole /\ r # s) => r.beside /\ s.beside
=============================================================================
