\* One thread, every kind of answer: what send() returns.
SPECIFICATION TransportSpec
CONSTANTS
    t1 = t1
    t2 = t2
    NoHeader = NoHeader
    NaiveDate = NaiveDate
    Threads <- OneThread
    FailureThreshold = 2
    ResetAfter = 2
    MaxRetries = 2
    Timeout = 1
    SocketOperations = 3
    Backoff = 1
    RetryAfterCap = 3
    Statuses <- EveryKind
    Headers <- EveryHeader
    Bodies <- AnyBody
INVARIANTS
    TransportTypeOK
    CallsEndInBudget
    CountedIffDegraded
    VerdictFromLastAttempt
PROPERTIES
    ImplementsCallers
    ImplementsContract
