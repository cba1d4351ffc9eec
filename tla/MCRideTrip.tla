----------------------------- MODULE MCRideTrip -----------------------------
(* Instances of RideTrip for TLC. *)
EXTENDS RideTrip, TLC

CONSTANTS ann, bob

\* One customer and one driver, for every ride.
MCCustomerOf == [r \in Rides |-> ann]
MCDriverOf == [r \in Rides |-> bob]

\* The requests of an instance are interchangeable.  Safety runs only.
RequestSymmetry == Permutations(Requests)

=============================================================================
