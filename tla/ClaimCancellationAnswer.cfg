SPECIFICATION Spec
CONSTANTS
    MaxAttempts = 1
    MaxCancels = 1
    w1 = w1
    w2 = w2
    d1 = d1
    r1 = r1
    r2 = r2
    Workers = {w1}
    Deliveries = {}
    RequestIds = {r1}
    ProviderStatuses = {"pending", "in_process", "approved", "cancelled", "rejected"}
    LeaseOutlivesWorker = TRUE
    NoWorker = NoWorker
    AccountMayChange = TRUE
PROPERTIES
    CancellationAnswerApplied
