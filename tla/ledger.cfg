\* Two calls at a time, the sweep and one tick of the clock.
SPECIFICATION Spec
CONSTANTS
    None = None
    RideIds = {x1}
    PurchaseIds = {b1}
    Workers = {w1, w2}
    PackageRides = 1
    PackageBonus = 1
    Adjustments <- MCAdjustments
    MaxNow = 1
    MaxEntries = 4
SYMMETRY WorkerSymmetry
INVARIANTS
    BalanceFollowsEntries
    DeductionTakesOneCredit
CHECK_DEADLOCK FALSE
