\* Two calls with late, lost and repeated requests.
\* The script ends after MaxCalls calls.
SPECIFICATION ManagementSpec
CHECK_DEADLOCK FALSE
CONSTANTS
    MaxRetries = 1
    MaxCalls = 2
    Tokens <- TwoTokens
    Operations <- Everything
    Refusals <- Failing
INVARIANTS
    ManagementTypeOK
    ReturnedMeansExecuted
    SwitchHolds
    CallKeepsToken
    AuditIsCurrent
