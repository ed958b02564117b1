\* A probe that ends by an exception.
SPECIFICATION RecoverySpec
CONSTANTS
    t1 = t1
    t2 = t2
    NoHeader = NoHeader
    NaiveDate = NaiveDate
    Threads <- OneThread
    FailureThreshold = 1
    ResetAfter = 2
    MaxRetries = 0
    Timeout = 1
    SocketOperations = 3
    Backoff = 1
    RetryAfterCap = 1
    Statuses <- DownOrUp
    OutageStatuses <- Unavailable
    Headers <- AnyHeader
    Bodies <- AnyBody
PROPERTIES
    Recovers
