----------------------------- MODULE MCAccounts -----------------------------
(***************************************************************************)
(* What the people who use the system have with it besides the rides: a    *)
(* number and an account, a role, a seat in the team, payment methods, a   *)
(* rating, notices, places, and the limits on their calls.  They share no  *)
(* state that the modules speak of, and a behaviour is of one of them.     *)
(***************************************************************************)
EXTENDS Signup, Team, PayMethods, Ratings, Messages, Limits, Roles, Places,
        TLC

VARIABLE part   \* which of them this behaviour is of

Parts == {"signup", "team", "methods", "ratings", "messages", "limits",
          "roles", "places"}

\* The others begin in one way.
AccountsInit ==
    /\ part \in Parts
    /\ SignupInit /\ (part = "signup" \/ otpMode = "self")
    /\ TeamInit
    /\ PayMethodsInit
    /\ RatingsInit
    /\ MessagesInit /\ (part = "messages" \/ suspended = {})
    /\ LimitsInit /\ (part = "limits" \/ (limiter = "otp" /\ production))
    /\ RolesInit /\ (part = "roles" \/ approval = None)
    /\ PlacesInit

AccountsNext ==
    /\ UNCHANGED part
    /\ IF part = "signup" THEN SignupNext ELSE UNCHANGED signupVars
    /\ IF part = "team" THEN TeamNext ELSE UNCHANGED teamVars
    /\ IF part = "methods" THEN PayMethodsNext ELSE UNCHANGED payMethodsVars
    /\ IF part = "ratings" THEN RatingsNext ELSE UNCHANGED ratingsVars
    /\ IF part = "messages" THEN MessagesNext ELSE UNCHANGED messagesVars
    /\ IF part = "limits" THEN LimitsNext ELSE UNCHANGED limitVars
    /\ IF part = "roles" THEN RolesNext ELSE UNCHANGED rolesVars
    /\ IF part = "places" THEN PlacesNext ELSE UNCHANGED placesVars

accountsVars ==
    <<part, signupVars, teamVars, payMethodsVars, ratingsVars,
      messagesVars, limitVars, rolesVars, placesVars>>
AccountsSpec == AccountsInit /\ [][AccountsNext]_accountsVars

-----------------------------------------------------------------------------
(* Properties.                                                              *)

\* What is stored a second time, for reading, agrees with what it was made
\* from, once the writes under way are done: the average on the profile rated
\* last, the role of a user and in the tokens the sweep reached, the copies in
\* Redis, one set of saved places (updateCachedRating, SwitchMode,
\* ReconcileRoleState, RecordAgreedFare, ReplaceSavedLocations).  It need not
\* when two writers overlapped, when the call to Redis that drops or renews a
\* copy failed, or when its reader's query did; each part says which.
StoredTwiceAgrees ==
    /\ ProfileShowsAverage
    /\ RoleIsCapability /\ SwitchRenewsClaims
    /\ CopiesFresh /\ OneSetSaved

-----------------------------------------------------------------------------
(* Instances for TLC.                                                      *)

CONSTANTS u1, u2, w1, k1,         \* users, password, code
          q1, q2,                 \* requests: Calls, Forms and Taps
          t1, t2,                 \* tokens, and phone numbers
          x1, x2, x3, j1, j2      \* further rows, goroutines

Symmetry == Permutations(Calls) \cup Permutations(Tokens)

\* Wrong codes are counted, and Redis fails, of one number at a time.
OneCounter ==
    /\ Cardinality({k \in DOMAIN tries : tries[k] > 0}) <= 1
    /\ Cardinality(blind) <= 1
=============================================================================
