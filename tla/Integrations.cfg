SPECIFICATION FairSpec
CONSTANTS
    e1 = e1
    e2 = e2
    e3 = e3
    c1 = c1
    c2 = c2
    w1 = w1
    w2 = w2
    r1 = r1
    r2 = r2
    Deliveries = {e1, e2}
    Connections = {c1}
    ConnectionOf <- MCConnectionOf
    Workers = {w1, w2}
    Reconcilers = {r1}
    BatchLimit = 2
    MaxAttempts = 2
    FailuresToDegrade = 2
    AdminStatuses = {"disabled"}
    NoDelivery = NoDelivery
CHECK_DEADLOCK FALSE
INVARIANTS
    OutcomeIsTrue
    AttemptsMatchDelivery
    BreakerBound
    RunNeverAhead
PROPERTIES
    SendingEnds
    ImplementsHandover
