\* One search and all that can happen to it.
SPECIFICATION Spec
CONSTANTS
    ann = ann
    cat = cat
    r1 = r1
    r2 = r2
    d1 = d1
    d2 = d2
    None = None
    Rides = {r1}
    Customers = {ann, cat}
    Drivers = {d1, d2}
    CustomerOf <- MCCustomerOf
    Near <- MCNear
    Impatient = {r1}
    Slow = {r1}
    MaxAttempts = 3
PROPERTIES
    SearchEnds
CHECK_DEADLOCK FALSE
