\* Every answer and every failed call, under every setting.
\* A behaviour is one decision, after which nothing happens.
SPECIFICATION DecisionSpec
CHECK_DEADLOCK FALSE
CONSTANTS
    Outcomes <- EveryOutcome
    Configurations <- EverySetting
INVARIANTS
    DecisionTypeOK
    ChainOverridesScore
    LivePolicyEnforces
    SignalsOnlyEscalate
    BodyNeverDecidesFailure
    NaNDecidesLikeZero
    AgreesWithSpec
