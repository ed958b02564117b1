\* Three callers whose calls end well before the half-open delay.
SPECIFICATION Spec
CONSTANTS
    c1 = c1
    c2 = c2
    c3 = c3
    Callers <- ThreeCallers
    FailureThreshold = 2
    ResetAfter = 4
    CallBudget = 3
    MayAbandon = FALSE
    MayReset = TRUE
SYMMETRY CallerSymmetry
INVARIANTS
    TypeOK
    ProbeFlagHasOwner
    SingleProbe
    ProbeRunsAlone
    StragglersPredateTimer
