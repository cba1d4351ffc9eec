\* The refund CancelRide promises a blameless driver.
SPECIFICATION Spec
CONSTANTS
    ann = ann
    bob = bob
    None = None
    Rides = {r1}
    Customers = {ann}
    Drivers = {bob}
    CustomerOf <- MCCustomerOf
    DriverOf <- MCDriverOf
    Requests = {p1, p2}
    Fares = {1, 2}
    Waits = {0, 1}
    StartCredits = 1
    MaxAborts = 0
    MaxCrashes = 0
    MaxInterventions = 0
SYMMETRY RequestSymmetry
INVARIANTS
    BlamelessCancelRefunded
CHECK_DEADLOCK FALSE
