----------------------------- MODULE MCDrivers -----------------------------
(***************************************************************************)
(* What makes a driver one the engine may offer rides to: the presence in  *)
(* the pool, the papers and the approval, and the vehicle.  The three are  *)
(* joined by the profile row only, and each module lets the others change  *)
(* what it reads of it: a behaviour is of one of them.                     *)
(***************************************************************************)
EXTENDS Presence, Papers, Vehicles, TLC

VARIABLE desk   \* which of the three this behaviour is of

DriversInit ==
    /\ desk \in {"presence", "papers", "vehicles"}
    /\ PresenceInit /\ PapersInit /\ VehiclesInit
    /\ desk # "papers" => profile = None
    /\ desk # "vehicles" =>
          Present = {} /\ carType = CHOOSE type \in Types : TRUE
DriversNext ==
    /\ UNCHANGED desk
    /\ \/ /\ desk = "presence" /\ PresenceNext
          /\ UNCHANGED <<paperVars, vehicleVars>>
       \/ /\ desk = "papers" /\ PapersNext
          /\ UNCHANGED <<presenceVars, vehicleVars>>
       \/ /\ desk = "vehicles" /\ VehiclesNext
          /\ UNCHANGED <<presenceVars, paperVars>>
DriversSpec == DriversInit /\ [][DriversNext]_<<desk, presenceVars, paperVars,
                                                vehicleVars>>

-----------------------------------------------------------------------------
(* Instances for TLC.                                                      *)

CONSTANTS t1, t2, u1, u2, v1, v2, v3, q1, q2, moto, cab

Symmetry == Permutations(Trips) \cup Permutations(Uploads)
            \cup Permutations(CarRequests) \cup Permutations(Cars \ {Original})
=============================================================================
