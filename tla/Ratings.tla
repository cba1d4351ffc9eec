------------------------------ MODULE Ratings ------------------------------
(***************************************************************************)
(* Ratings (internal/rating): a row per ride and rater, which a second     *)
(* submission overwrites, and the average of a user's ratings, cached by a *)
(* goroutine that reads it and then writes it.                             *)
(*                                                                         *)
(* One user is rated, who drove on some rides and was driven on others.    *)
(* The average is over all of them, and it is written to the profile of    *)
(* the direction of the rating alone, driver's or customer's: the other    *)
(* keeps what it has until it is rated.  The average of no rating, 5.0, is *)
(* never cached; an average is a pair of sum and count.                    *)
(***************************************************************************)
EXTENDS Naturals, FiniteSets, FiniteSetsExt, Absent

CONSTANTS Trips,        \* COMPLETED rides with the rated user
          Driven,       \* those on which that user was the driver
          Scores,       \* subset of 1..5
          Updaters,     \* goroutines
          MaxSubmissions

ASSUME RatingsAssumption ==
    Driven \subseteq Trips /\ Scores \subseteq 1..5 /\ MaxSubmissions \in Nat

VARIABLES
    ratings,    \* ratings, by ride
    profile,    \* the average cached in driver_profiles and customer_profiles
    updater,    \* updateCachedRating: of which profile, and what it read
    latest,     \* the profile of the newest submission
    torn,       \* of each profile: has one been lost, or have two overlapped,
                \* since a submission came alone?
    submissions
ratingsVars == <<ratings, profile, updater, latest, torn, submissions>>

Profiles == {"driver", "customer"}
Direction(x) == IF x \in Driven THEN "driver" ELSE "customer"
NoUpdater == [pc |-> "idle", of |-> "driver", avg |-> None]
Updating(p) == {u \in Updaters : updater[u].pc # "idle" /\ updater[u].of = p}
Rated == {x \in Trips : ratings[x] # None}

RatingsInit ==
    /\ ratings = [x \in Trips |-> None]
    /\ profile = [p \in Profiles |-> None]
    /\ updater = [u \in Updaters |-> NoUpdater]
    /\ latest = "driver" /\ torn = [p \in Profiles |-> FALSE]
    /\ submissions = 0

Average(rs) ==
    LET rated == {x \in Trips : rs[x] # None}
    IN  <<MapThenSumSet(LAMBDA x : rs[x], rated), Cardinality(rated)>>

\* WHERE rated_id = $1: of both directions.
AvgScore == Average(ratings)

\* INSERT ... ON CONFLICT (ride_id, rater_id) DO UPDATE
CreateRating(x, score) == ratings' = [ratings EXCEPT ![x] = score]

\* A score of 1..5, a ride that is COMPLETED, one of its two parties; then a
\* goroutine.
SubmitRating(x, score) ==
    LET p == Direction(x) IN
    /\ submissions < MaxSubmissions /\ submissions' = submissions + 1
    /\ CreateRating(x, score)
    /\ \E u \in Updaters :
          /\ updater[u].pc = "idle"
          /\ updater' = [updater EXCEPT ![u] = [pc |-> "avg", of |-> p, avg |-> None]]
    /\ latest' = p /\ torn' = [torn EXCEPT ![p] = Updating(p) # {}]
    /\ UNCHANGED profile

ReadAverage(u) ==
    /\ updater[u].pc = "avg"
    /\ updater' = [updater EXCEPT ![u] =
          [pc |-> "write", of |-> updater[u].of, avg |-> AvgScore]]
    /\ UNCHANGED <<ratings, profile, latest, torn, submissions>>

UpdateEnds(u) ==
    /\ updater' = [updater EXCEPT ![u] = NoUpdater]
    /\ UNCHANGED <<ratings, latest, submissions>>

\* Mutant: the profiles are swapped.
MutUpdateProfileRating(u) ==
    /\ updater[u].pc = "write" /\ UpdateEnds(u) /\ UNCHANGED torn
    /\ profile' = [p \in Profiles |->
          IF p = updater[u].of THEN profile[p] ELSE updater[u].avg]

\* UpdateDriverProfileRating, UpdateCustomerProfileRating.
UpdateProfileRating(u) ==
    /\ updater[u].pc = "write" /\ UpdateEnds(u) /\ UNCHANGED torn
    /\ profile' = [profile EXCEPT ![updater[u].of] = updater[u].avg]

\* A restart, or a statement that fails: nothing tries again.
UpdateLost(u) ==
    /\ updater[u].pc # "idle" /\ UpdateEnds(u) /\ UNCHANGED profile
    /\ torn' = [torn EXCEPT ![updater[u].of] = TRUE]

RatingsNext ==
    \/ \E x \in Trips, score \in Scores : SubmitRating(x, score)
    \/ \E u \in Updaters :
          ReadAverage(u) \/ UpdateProfileRating(u) \/ UpdateLost(u)

-----------------------------------------------------------------------------
(* Properties.                                                              *)

\* The profile rated last shows the average of all the user's ratings once its
\* update is done, whatever the other profile's updates do; a changed rating
\* counts once.  Since two updates of that profile overlapped (the older
\* average may be written last, updateCachedRating) or one was lost, only a
\* submission that comes alone mends it.
ProfileShowsAverage ==
    Rated # {} /\ Updating(latest) = {} /\ ~torn[latest] =>
        profile[latest] = AvgScore
=============================================================================
