SPECIFICATION AppStateSpec
CONSTANTS
    None = None
    r1 = r1  r2 = r2  q1 = q1  q2 = q2  k1 = k1
    o1 = o1  o2 = o2  f1 = f1  f2 = f2
    d1 = d1  p1 = p1  p2 = p2  j1 = j1
    s1 = s1  s2 = s2  c1 = c1  c2 = c2
    Rides = {r1, r2}
    Requests = {q1}
    Keys = {k1}
    MaxCrashes = 1
    Devices = {d1}
    Pairs = {p1, p2}
    Jobs = {j1}
    BanAt = 1
    BansBeforeSuspend = 2
    MaxDays = 1
    MaxLost = 1
    DriverSockets = {s1, s2}
    CustomerSockets = {}
    Buffer = 1
    Offers = {o1, o2}
    Fares = {f1, f2}
    MaxOffers = 1
    Parts = {"booking", "sessions", "sockets"}
INVARIANTS
    StaysSignedIn
    
PROPERTIES
    SuspensionReachesEveryDevice
    NotLockedOut
    DiscoverableAgain
CHECK_DEADLOCK FALSE
