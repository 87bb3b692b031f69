SPECIFICATION Spec
CONSTANTS
    MaxAttempts = 1
    MaxCancels = 1
    w1 = w1
    w2 = w2
    d1 = d1
    r1 = r1
    r2 = r2
    Workers = {w1, w2}
    Deliveries = {d1}
    RequestIds = {r1}
    ProviderStatuses = {"pending", "in_process", "approved", "cancelled", "rejected"}
    LeaseOutlivesWorker = FALSE
    NoWorker = NoWorker
    AccountMayChange = TRUE
SYMMETRY Symmetry
INVARIANTS
    TypeOK
PROPERTIES
    LateResultKept
