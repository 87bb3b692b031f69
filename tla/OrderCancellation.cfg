SPECIFICATION FairSpec
CONSTANTS
    o1 = o1
    o2 = o2
    i1 = i1
    i2 = i2
    c1 = c1
    c2 = c2
    s1 = s1
    s2 = s2
    l1 = l1
    l2 = l2
    l3 = l3
    p1 = p1
    p2 = p2
    w1 = w1
    w2 = w2
    OrderIds = {o1, o2}
    Items = {i1}
    Customers = {c1}
    Sellers = {s1, s2}
    MaxQuantity = 1
    MaxVersion = 2
    Nothing = Nothing
    Lots = {l1}
    Packers = {p1}
    Consumers = {w1}
    BatchLimit = 1
    Methods = {"pickup"}
    MaxLotEdits = 1
CHECK_DEADLOCK FALSE
INVARIANTS
    OneCancellationEvent
    ConsumedMeansClosed
PROPERTIES
    ChangedAsShown
    CancelledOrderIsClosed
