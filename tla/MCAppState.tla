----------------------------- MODULE MCAppState -----------------------------
(***************************************************************************)
(* What an app has with the server: its customer's bookings, the           *)
(* bargaining over a ride, its session, and its connection.  The four      *)
(* share no state: a behaviour is of one of them, and a run chooses which. *)
(***************************************************************************)
EXTENDS Booking, Negotiation, Sessions, Sockets

CONSTANT Parts   \* the parts a run is about

VARIABLE part    \* which of them this behaviour is of

AppStateInit ==
    /\ part \in Parts
    /\ BookingInit /\ NegotiationInit /\ SessionsInit /\ SocketsInit
AppStateNext ==
    /\ UNCHANGED part
    /\ IF part = "booking" THEN BookingNext ELSE UNCHANGED bookingVars
    /\ IF part = "bargain" THEN NegotiationNext ELSE UNCHANGED negotiationVars
    /\ IF part = "sessions" THEN SessionsNext ELSE UNCHANGED sessionVars
    /\ IF part = "sockets" THEN SocketsNext ELSE UNCHANGED socketVars

appStateVars ==
    <<part, bookingVars, negotiationVars, sessionVars, socketVars>>
AppStateSafety == AppStateInit /\ [][AppStateNext]_appStateVars
AppStateSpec ==
    AppStateSafety /\ BookingFairness /\ SessionsFairness /\ SocketsFairness

-----------------------------------------------------------------------------
(* Instances for TLC.                                                      *)

CONSTANTS r1, r2, q1, q2, k1, o1, o2, f1, f2,
          d1, p1, p2, j1, s1, s2, c1, c2

Symmetry == Permutations({r1, r2}) \cup Permutations({q1, q2})
            \cup Permutations({o1, o2}) \cup Permutations({f1, f2})
=============================================================================
