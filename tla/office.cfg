SPECIFICATION OfficeSpec
CONSTANTS
    None = None
    c1 = c1  a1 = a1  a2 = a2  o1 = o1  o2 = o2
    g1 = g1  g2 = g2  m1 = m1  m2 = m2
    x1 = x1  x2 = x2
    Sales = {o1, o2}
    Keys = {o1, o2}
    Path <- MCPath
    Offer <- MCOffer
    Key <- MCKey
    ProviderTxns = {}
    Reports <- MCReports
    Claimed = {o1, o2}
    Reviewed = {}
    Claims = {c1}
    Admins = {a1, a2}
    Reviews <- MCReviews
    SaleOf <- MCSaleOf
    Packages = {g1, g2}
    Seeded = {g1}
    Prices = {0, 1}
    Orders = {m1, m2}
    MaxEdits = 2
    Newcomers = {x1, x2}
    Approvals = {a1, a2}
    MaxTiers = 3
    MaxSwitches = 3
    Staff = {m1, m2}
    MaxCalls = 3
    Tariffs <- MCTariffs
    Seed <- MCSeed
    Distances = {0, 1, 4, 5}
    Hours = {4, 5, 22}
    WaitTimes = {0, 3, 130}
    Fares = {2, 5}
    Editors = {m1, m2}
    MaxRows = 3
    Regions = {x1, x2}
    Secretaries = {m1, m2}
    MaxAmendments = 3
    Partners = {x1, x2}
    Adverts = {g1}
    AdEditors = {m1, m2}
    MaxAdvertCalls = 5
    Documents = {x1, x2}
    ExpiryDays = {0, 2}
    expiryNotifyDays <- MCMarks
    documentAlertWindowDays = 2
    SlotsPerDay = 3
    DigestSlot = 1
    MaxDay = 4
    MaxRedeploys = 3
    Errors = {x1, x2}
    perKeyCooldown = 2
    AlertHour = 4
    globalHourlyCap = 2
    queueSize = 1
    MaxTicks = 7
    Commands = 4
    MaxReboots = 2
    MaxEvents = 3
    batchSize = 2
    MaxStops = 2
SYMMETRY Symmetry
INVARIANTS
    ApprovedIsGranted PurchasePriced RegistrationBonusOnce NothingTakenBack
     EditsStand BackgroundKeepsUp
CHECK_DEADLOCK FALSE
