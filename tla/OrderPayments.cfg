SPECIFICATION FairSpec
CONSTANTS
    o1 = o1
    o2 = o2
    i1 = i1
    c1 = c1
    s1 = s1
    w1 = w1
    w2 = w2
    OrderIds = {o1, o2}
    Items = {i1}
    Customers = {c1}
    Sellers = {s1}
    MaxQuantity = 1
    MaxVersion = 2
    Nothing = Nothing
    Workers = {w1, w2}
    BatchLimit = 1
CHECK_DEADLOCK FALSE
INVARIANTS
    SettledStays
PROPERTIES
    CancellationReachesPayment
