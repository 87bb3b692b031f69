SPECIFICATION Spec
CONSTANTS
    o1 = o1
    o2 = o2
    i1 = i1
    i2 = i2
    c1 = c1
    c2 = c2
    s1 = s1
    s2 = s2
    l1 = l1
    l2 = l2
    l3 = l3
    p1 = p1
    p2 = p2
    w1 = w1
    w2 = w2
    OrderIds = {o1}
    Items = {i1}
    Customers = {c1}
    Sellers = {s1}
    MaxQuantity = 2
    MaxVersion = 3
    Nothing = Nothing
    Lots = {l1, l2}
    Packers = {p1, p2}
    Consumers = {w1}
    BatchLimit = 1
    Methods = {"pickup", "delivery"}
    MaxLotEdits = 2
SYMMETRY Interchangeable
CHECK_DEADLOCK FALSE
INVARIANTS
    TypeOK
    AllocationBounded
PROPERTIES
    NothingAdvancesAfterCancellation
    LotChangedAsShown
