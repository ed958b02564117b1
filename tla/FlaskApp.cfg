\* Two threads of the application, the doctor and the management client.
SPECIFICATION FlaskSpec
CONSTANTS
    c1 = c1
    c2 = c2
    Callers <- TwoThreads
    FailureThreshold = 2
    ResetAfter = 2
    CallBudget = 1
    MayAbandon = TRUE
    MayReset = FALSE
    Settings <- FlaskSettings
    Answers <- EveryAnswer
    Hooks <- EveryHook
    StaticChecks = TRUE
SYMMETRY ThreadSymmetry
INVARIANTS
    ProbeRunsAlone
    DoctorOkMeansAnswered
    GateHolds
    DegradedLoginPasses
PROPERTIES
    OnlyRaiseOrphansFlag
