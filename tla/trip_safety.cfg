\* One ride, any two requests at a time, one dead client, one admin, one crash.
SPECIFICATION Spec
CONSTANTS
    ann = ann
    bob = bob
    None = None
    Rides = {r1}
    Customers = {ann}
    Drivers = {bob}
    CustomerOf <- MCCustomerOf
    DriverOf <- MCDriverOf
    Requests = {p1, p2}
    Fares = {1}
    Waits = {0}
    StartCredits = 1
    MaxAborts = 1
    MaxCrashes = 1
    MaxInterventions = 1
SYMMETRY RequestSymmetry
INVARIANTS
    RefundOnlyBlameless
    RideCountedOnce
    PenalisedOnce
PROPERTIES
    TripOnlyAdvances
CHECK_DEADLOCK FALSE
