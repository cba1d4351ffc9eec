SPECIFICATION DriversSpec
CONSTANTS
    None = None
    t1 = t1  t2 = t2  u1 = u1  u2 = u2
    v1 = v1  v2 = v2  v3 = v3  q1 = q1  q2 = q2  moto = moto  cab = cab
    Trips = {t1, t2}
    AnomaliesToSuspend = 1
    OfflineAt = 1
    MaxLoose = 1
    Uploads = {u1, u2}
    MaxVersions = 3
    Cars = {v1, v2, v3}
    Original = v1
    Types = {moto, cab}
    CarRequests = {q1, q2}
    MaxCarRuns = 5
SYMMETRY Symmetry
INVARIANTS
    OneRideAtATime
    
    ApprovedOnSeenPapers
    
CHECK_DEADLOCK FALSE
