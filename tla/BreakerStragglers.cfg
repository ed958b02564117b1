\* Calls may outlive the half-open delay.
SPECIFICATION Spec
CONSTANTS
    c1 = c1
    c2 = c2
    c3 = c3
    Callers <- ThreeCallers
    FailureThreshold = 2
    ResetAfter = 2
    CallBudget = 4
    MayAbandon = TRUE
    MayReset = TRUE
SYMMETRY CallerSymmetry
INVARIANTS
    ProbeFlagOnlyHalfOpen
    TimerRestartsAfterProbe
PROPERTIES
    ProbesSpaced
