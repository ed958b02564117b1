\* A login answered by an error with a score beyond a float.
SPECIFICATION FlaskSpec
CONSTANTS
    c1 = c1
    c2 = c2
    Callers <- TwoThreads
    FailureThreshold = 2
    ResetAfter = 2
    CallBudget = 1
    MayAbandon = FALSE
    MayReset = FALSE
    Settings <- FlaskSettings
    Answers <- EveryAnswer
    Hooks <- EveryHook
    StaticChecks = TRUE
INVARIANTS
    OutageNeverBlocks
