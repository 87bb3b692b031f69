SPECIFICATION Spec
CONSTANTS
    s1 = s1
    s2 = s2
    w1 = w1
    w2 = w2
    c1 = c1
    c2 = c2
    k1 = k1
    k2 = k2
    r1 = r1
    r2 = r2
    Sources = {s1}
    Contacts = {k1}
    FirstContact = k1
    Workers = {w1, w2}
    Consumers = {}
    RequestIds = {r1, r2}
    Answers = {"accepted", "unidentified", "rejected", "no_call", "no_answer", "blocked"}
    NoWorker = NoWorker
    NoSource = NoSource
    NoContact = NoContact
    BatchLimit = 2
    MaxMessages = 2
    MaxChanges = 1
    MaxDeaths = 1
CHECK_DEADLOCK FALSE
INVARIANTS
    SentAtMostOnce
    OutcomeIsTrue
    AttemptFollowsMessage
PROPERTIES
    StatusMovesForward
    SentAsCreated
    ImplementsHandover
