\* A redirect that urllib does not follow.
\* The script ends after MaxCalls calls.
SPECIFICATION ManagementSpec
CHECK_DEADLOCK FALSE
CONSTANTS
    MaxRetries = 1
    MaxCalls = 1
    Tokens <- TwoTokens
    Operations <- Switches
    Refusals <- Redirecting
INVARIANTS
    ReturnedMeansExecuted
