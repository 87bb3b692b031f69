SPECIFICATION Spec
CONSTANTS
    MaxAttempts = 2
    MaxCancels = 1
    w1 = w1
    w2 = w2
    d1 = d1
    r1 = r1
    r2 = r2
    Workers = {w1}
    Deliveries = {d1}
    RequestIds = {r1}
    ProviderStatuses = {"pending", "approved", "cancelled", "refunded"}
    LeaseOutlivesWorker = TRUE
    NoWorker = NoWorker
    AccountMayChange = FALSE
CHECK_DEADLOCK FALSE
INVARIANTS
    CallerOwnsAttempt
    PaidNeverForgotten
PROPERTIES
    PaidOnlyToAttention
    ClosedIsFinal
    ImplementsHostedCheckout
