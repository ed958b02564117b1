\* Two threads that retry: no exception leaves send().
SPECIFICATION RecoverySpec
CONSTANTS
    t1 = t1
    t2 = t2
    NoHeader = NoHeader
    NaiveDate = NaiveDate
    Threads <- TwoThreads
    FailureThreshold = 2
    ResetAfter = 2
    MaxRetries = 1
    Timeout = 1
    SocketOperations = 2
    Backoff = 1
    RetryAfterCap = 1
    Statuses <- DownOrUp
    OutageStatuses <- Unavailable
    Headers <- NoHeaderOnly
    Bodies <- Encodable
PROPERTIES
    Recovers
    CallsReturn
    ImplementsCallers
    OnlyDoomedCount
