SPECIFICATION AppStateSafety
CONSTANTS
    None = None
    r1 = r1  r2 = r2  q1 = q1  q2 = q2  k1 = k1
    o1 = o1  o2 = o2  f1 = f1  f2 = f2
    Rides = {r1, r2}
    Requests = {q1, q2}
    Keys = {k1}
    MaxCrashes = 0
    Offers = {o1, o2}
    Fares = {f1, f2}
    MaxOffers = 1
    Parts = {"booking", "bargain", "sockets"}
    d1 = d1  p1 = p1  p2 = p2  j1 = j1
    s1 = s1  s2 = s2  c1 = c1  c2 = c2
    Devices = {d1}
    Pairs = {p1, p2}
    Jobs = {j1}
    BanAt = 1
    BansBeforeSuspend = 2
    MaxDays = 1
    MaxLost = 1
    DriverSockets = {}
    CustomerSockets = {c1, c2}
    Buffer = 1
SYMMETRY Symmetry
INVARIANTS
    TwoRidesOnlyIfLoose
    ToldFareIsAgreed
    HeardUnlessTakenOver
CHECK_DEADLOCK FALSE
