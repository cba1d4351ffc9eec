\* Two searches that share a driver; one of them is cancelled or slow.
SPECIFICATION Spec
CONSTANTS
    ann = ann
    cat = cat
    r1 = r1
    r2 = r2
    d1 = d1
    d2 = d2
    None = None
    Rides = {r1, r2}
    Customers = {ann, cat}
    Drivers = {d1, d2}
    CustomerOf <- MCCustomerOf
    Near <- MCNear
    Impatient = {r1}
    Slow = {r1}
    MaxAttempts = 2
INVARIANTS
    OneOfferPerDriver
    SettledInTime
CHECK_DEADLOCK FALSE
