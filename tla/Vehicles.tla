------------------------------- MODULE Vehicles -----------------------------
(***************************************************************************)
(* The vehicles of one driver (driver/vehicles.go) and the vehicle type    *)
(* the profile repeats for the matching engine.  A switch is one           *)
(* transaction; adding the first vehicle, the backfill of an old profile   *)
(* and deleting the active vehicle are several statements, and nothing in  *)
(* the database says that a driver has one active vehicle.                 *)
(***************************************************************************)
EXTENDS Naturals, FiniteSets, Absent

CONSTANTS
    Cars,        \* the driver's vehicles by plate
    Original,    \* the plate on the profile
    Types,       \* vehicle types
    CarRequests, \* requests of the driver's app
    MaxCarRuns   \* bound: requests made

ASSUME VehiclesAssumption ==
    Original \in Cars /\ MaxCarRuns \in Nat /\ None \notin Cars

VARIABLES
    car,       \* driver_vehicles
    carType,   \* driver_profiles.transport_type
    riding,    \* HasActiveRide
    carReq,    \* the requests in flight
    carRuns,   \* requests so far
    crossed,   \* the requests that overlapped, or a type written on its own
    apart      \* what a single request left undone, until the next switch
vehicleVars == <<car, carType, riding, carReq, carRuns, crossed, apart>>

NoCarReq == [op |-> None, pc |-> "idle", car |-> None, was |-> FALSE]
NoCar == [there |-> FALSE, active |-> FALSE, type |-> None, born |-> 0]
Present == {v \in Cars : car[v].there}
Oldest == CHOOSE v \in Present : \A w \in Present : car[v].born <= car[w].born
Deactivated == [v \in Cars |-> [car[v] EXCEPT !.active = FALSE]]
CarTo(q, pc) == carReq' = [carReq EXCEPT ![q].pc = pc]
CarDone(q) == carReq' = [carReq EXCEPT ![q] = NoCarReq]
Busy(ops) == {q \in CarRequests : carReq[q].op \in ops}
Cross(why, holds) == crossed' = IF holds THEN crossed \cup {why} ELSE crossed

\* An application has put the profile's vehicle on file, or, before vehicles
\* had rows of their own, has not.
VehiclesInit ==
    /\ carType \in Types
    /\ \/ car = [v \in Cars |-> NoCar]
       \/ car = [v \in Cars |-> IF v # Original THEN NoCar
                                ELSE [there |-> TRUE, active |-> TRUE,
                                      type |-> carType, born |-> 1]]
    /\ riding = FALSE
    /\ carReq = [q \in CarRequests |-> NoCarReq]
    /\ carRuns = 0 /\ crossed = {} /\ apart = {}

-----------------------------------------------------------------------------
(* Statements.                                                              *)

\* UPDATE driver_vehicles SET is_active = FALSE, and INSERT: CreateVehicle
InsertCar(v, type, active) ==
    car' = [car EXCEPT ![v] = [there |-> TRUE, active |-> active,
                               type |-> type,
                               born |-> 1 + Cardinality(Present)]]

\* Mutant: the profile keeps the type of the vehicle before.
MutSwitch(v, type) ==
    /\ car' = [Deactivated EXCEPT ![v].active = car[v].there]
    /\ apart' = {} /\ UNCHANGED carType

\* ActivateVehicle's transaction: one vehicle active, the profile with it.
\* The row was read before, and may be gone.
Switch(v, type) ==
    /\ car' = [Deactivated EXCEPT ![v].active = car[v].there]
    /\ carType' = type /\ apart' = {}

-----------------------------------------------------------------------------
(* Requests.                                                                *)

CarBegins(q, op, v, pc) ==
    /\ carReq[q].pc = "idle" /\ carRuns < MaxCarRuns
    /\ carRuns' = carRuns + 1
    /\ carReq' = [carReq EXCEPT ![q] = [op |-> op, pc |-> pc, car |-> v,
                                        was |-> car[v].active]]

\* CreateVehicle: a driver without vehicles gets this one as the active one.
AddRead(q, v) ==
    /\ v # Original /\ ~car[v].there
    /\ CarBegins(q, "add", v, IF Present = {} THEN "clear" ELSE "insert")
    /\ Cross("first", Present = {} /\ Busy({"add", "fill"}) # {})
    /\ UNCHANGED <<car, carType, riding, apart>>

\* ListVehicles of a profile without vehicles: its own becomes one.
BackfillRead(q) ==
    /\ Present = {}
    /\ CarBegins(q, "fill", Original, "clear")
    /\ Cross("first", Busy({"add", "fill"}) # {})
    /\ UNCHANGED <<car, carType, riding, apart>>

AddClear(q) ==
    /\ carReq[q].pc = "clear" /\ car' = Deactivated
    /\ CarTo(q, "insertActive")
    /\ UNCHANGED <<carType, riding, carRuns, crossed, apart>>

\* The plate is unique: a second insert of it fails.  The profile keeps its
\* type, whatever type the first vehicle added has.
AddInsert(q, type) ==
    LET req == carReq[q] IN
    /\ req.pc \in {"insert", "insertActive"}
    /\ req.op = "fill" => type = carType
    /\ IF car[req.car].there THEN UNCHANGED <<car, apart>>
       ELSE /\ InsertCar(req.car, type, req.pc = "insertActive")
            /\ apart' = IF req.pc = "insertActive" /\ type # carType
                        THEN apart \cup {"untyped"} ELSE apart
    /\ CarDone(q)
    /\ UNCHANGED <<carType, riding, carRuns, crossed>>

\* ActivateVehicle: no switch during a ride; the row is read, then written.
SwitchRead(q, v) ==
    /\ car[v].there /\ ~riding
    /\ CarBegins(q, "switch", v, "switch")
    /\ Cross("delete", Busy({"delete"}) # {})
    /\ UNCHANGED <<car, carType, riding, apart>>

SwitchWrite(q, type) ==
    /\ carReq[q].pc = "switch"
    /\ car[carReq[q].car].there => type = car[carReq[q].car].type
    /\ Switch(carReq[q].car, type) /\ CarDone(q)
    /\ UNCHANGED <<riding, carRuns, crossed>>

\* DeleteVehicle: not the active one during a ride, not the last one.
DeleteRead(q, v) ==
    /\ car[v].there /\ ~(riding /\ car[v].active)
    /\ Cardinality(Present) > 1
    /\ CarBegins(q, "delete", v, "delete")
    /\ Cross("delete", Busy({"delete", "switch"}) # {})
    /\ UNCHANGED <<car, carType, riding, apart>>

DeleteRow(q) ==
    /\ carReq[q].pc = "delete"
    /\ car' = [car EXCEPT ![carReq[q].car] = NoCar]
    /\ IF car[carReq[q].car].there /\ carReq[q].was
       THEN CarTo(q, "next") ELSE CarDone(q)
    /\ UNCHANGED <<carType, riding, carRuns, crossed, apart>>

\* The oldest vehicle left takes the place of the one deleted, if it can.
DeleteNext(q) ==
    /\ carReq[q].pc = "next"
    /\ IF Present = {} THEN UNCHANGED <<car, carType, apart>>
       ELSE Switch(Oldest, car[Oldest].type)
    /\ CarDone(q)
    /\ UNCHANGED <<riding, carRuns, crossed>>

\* A statement fails or the request dies: what is done stays done.  After the
\* deletion of the active vehicle the error of the switch is dropped, and no
\* vehicle is active.
CarFails(q) ==
    /\ carReq[q].pc # "idle" /\ CarDone(q)
    /\ apart' = IF carReq[q].pc = "next" THEN apart \cup {"unswitched"}
                ELSE apart
    /\ UNCHANGED <<car, carType, riding, carRuns, crossed>>

\* A ride begins or ends; a rejected application comes back with another
\* vehicle type (UpdateProfileForResubmission), or the console edits it.
RideMoves ==
    /\ riding' = ~riding
    /\ UNCHANGED <<car, carType, carReq, carRuns, crossed, apart>>
Retyped ==
    /\ carType' \in Types \ {carType} /\ Cross("retyped", TRUE)
    /\ UNCHANGED <<car, riding, carReq, carRuns, apart>>

VehiclesNext ==
    \/ \E q \in CarRequests :
          \/ \E v \in Cars : AddRead(q, v) \/ SwitchRead(q, v)
                             \/ DeleteRead(q, v)
          \/ BackfillRead(q) \/ AddClear(q) \/ DeleteRow(q) \/ DeleteNext(q)
          \/ CarFails(q)
          \/ \E type \in Types : AddInsert(q, type) \/ SwitchWrite(q, type)
    \/ RideMoves \/ Retyped

-----------------------------------------------------------------------------
(* Properties.                                                              *)

\* The vehicle the matching engine thinks a driver is in is the one marked
\* active, and there is exactly one: whatever switches, additions, a deletion
\* and their failures overlap, unless two requests both found no vehicle, a
\* deletion overlapped another deletion or a switch, or the profile's type was
\* changed on its own.  Until the next switch the type may differ after a first
\* vehicle of another type was added (CreateVehicle leaves the profile alone),
\* and none is active when the switch after a deletion failed.
ProfileFollowsVehicle ==
    (\A q \in CarRequests : carReq[q].pc = "idle") /\ crossed = {} =>
        /\ "untyped" \notin apart =>
               \A v \in Present : car[v].active => car[v].type = carType
        /\ Cardinality({v \in Present : car[v].active}) <= 1
        /\ "unswitched" \notin apart =>
               (Present # {} => \E v \in Present : car[v].active)
=============================================================================
