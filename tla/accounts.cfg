SPECIFICATION AccountsSpec
CONSTANTS
    None = None
    u1 = u1  u2 = u2  w1 = w1  k1 = k1  t1 = t1  t2 = t2  q1 = q1  q2 = q2
    x1 = x1  x2 = x2  x3 = x3  j1 = j1  j2 = j2
    Users = {u1}
    Phones = {t1, t2}
    Forms = {q1, q2}
    MaxTries = 1
    Colleagues = {a1}
    Passwords = {w1}
    Codes = {k1}
    Tokens = {t1, t2}
    Calls = {q1, q2}
    Idle = 1
    SessionMax = 1
    MaxClock = 3
    Accounts = {u1, u2}
    Riders = {u1}
    Motos = {u1}
    Notices = {x1}
    Deliveries = {j1, j2}
    PushTokens = {t1, t2}
    MaxMoves = 2
    Methods = {x1, x2, x3}
    TapKeys = {k1}
    Taps = {q1, q2}
    Trips = {x1, x2}
    Driven = {x1}
    Scores = {1, 5}
    Updaters = {j1, j2}
    MaxSubmissions = 4
    MaxRequests = 2
    Window = 3
    MaxLapse = 6
    MaxOutages = 2
    MaxLosses = 1
    Switches = {w1}
    Issues = {j1}
    MaxRulings = 1
    MaxGrants = 2
    Visits = {j1, j2}
    MaxVisits = 5
SYMMETRY Symmetry
CONSTRAINT OneCounter
INVARIANTS
     SessionsEnd StoredTwiceAgrees NoticeArrivesOnce
    NeverTwiceTheLimit
PROPERTIES DefaultKept
CHECK_DEADLOCK FALSE
