SPECIFICATION Spec
CONSTANTS
    p1 = p1
    p2 = p2
    p3 = p3
    k1 = k1
    k2 = k2
    None = None
    Sales = {p1, p2, p3}
    Keys = {k1, k2}
    Path <- MCPath
    Offer <- MCOffer
    Key <- MCKey
    ProviderTxns = {1}
    Reports <- MCReports
    Claimed = {}
    Reviewed = {p2}
INVARIANT
    SettledForAReason
PROPERTIES
    KeepsPromise
    SweptSaleEnds
CHECK_DEADLOCK FALSE
