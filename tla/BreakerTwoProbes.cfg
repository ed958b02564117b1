\* Calls as long as the half-open delay: a second probe goes out.
SPECIFICATION Spec
CONSTANTS
    c1 = c1
    c2 = c2
    c3 = c3
    Callers <- TwoCallers
    FailureThreshold = 1
    ResetAfter = 2
    CallBudget = 5
    MayAbandon = FALSE
    MayReset = FALSE
INVARIANTS
    SingleProbe
