---------------------------- MODULE BreakerCallers ----------------------------
(***************************************************************************)
(* A circuit breaker shared by the threads of one process.                  *)
(*                                                                          *)
(* The client, its management client and its health probe all send through  *)
(* one Transport and so share one breaker (client.py:64-66).  This module   *)
(* keeps of a call only what the breaker can see: it is admitted, it ends   *)
(* in record_success() or record_failure(), and in between it takes at most *)
(* CallBudget ticks.  A call admitted while the breaker was closed may end  *)
(* long after the breaker has opened; Transport is shown to implement this  *)
(* module, with the call budget it derives from its timeouts and delays.    *)
(***************************************************************************)
EXTENDS CircuitBreaker

CONSTANTS
    Callers,        \* the threads that share the breaker
    CallBudget,     \* the longest an admitted call stays in flight, in ticks
    MayAbandon,     \* TRUE when a call may end by an exception, settling nothing
    MayReset        \* TRUE when the application calls reset() by hand

ASSUME CallBudgetAssumption == CallBudget \in Nat
ASSUME MayAbandonAssumption == MayAbandon \in BOOLEAN
ASSUME MayResetAssumption == MayReset \in BOOLEAN

VARIABLES
    inFlight,       \* callers admitted and not yet ended
    probes,         \* those of them admitted in the half-open state
    age             \* ticks since the caller was admitted, 0 when not in flight

vars == <<failures, elapsed, probeInFlight, sinceProbe, inFlight, probes, age>>

TypeOK ==
    /\ BreakerTypeOK
    /\ inFlight \subseteq Callers
    /\ probes \subseteq inFlight
    /\ age \in [Callers -> 0..CallBudget]

Init ==
    /\ BreakerInit
    /\ inFlight = {}
    /\ probes = {}
    /\ age = [c \in Callers |-> 0]

-------------------------------------------------------------------------------
\* A refused call leaves everything as it is, so it is a stuttering step here.
Admit(c) ==
    /\ c \notin inFlight
    /\ AllowRequest
    /\ inFlight' = inFlight \union {c}
    /\ probes' = IF State = "half_open" THEN probes \union {c} ELSE probes
    /\ UNCHANGED age

Leave(c) ==
    /\ c \in inFlight
    /\ inFlight' = inFlight \ {c}
    /\ probes' = probes \ {c}
    /\ age' = [age EXCEPT ![c] = 0]

Succeed(c) == Leave(c) /\ RecordSuccess

Fail(c) == Leave(c) /\ RecordFailure

\* An exception leaves send() after allow_request() and before any record_*().
Abandon(c) == MayAbandon /\ Leave(c) /\ UNCHANGED breakerVars

Reset == MayReset /\ ResetBreaker /\ UNCHANGED <<inFlight, probes, age>>

\* Time passes for the breaker and for every call alike, and never carries a
\* call past its budget.
Tick ==
    /\ \A c \in inFlight : age[c] < CallBudget
    /\ ClockTick
    /\ age' = [c \in Callers |-> IF c \in inFlight THEN age[c] + 1 ELSE age[c]]
    /\ UNCHANGED <<inFlight, probes>>

Next ==
    \/ \E c \in Callers : Admit(c) \/ Succeed(c) \/ Fail(c) \/ Abandon(c)
    \/ Reset
    \/ Tick

Spec == Init /\ [][Next]_vars

-------------------------------------------------------------------------------
\* The probe flag belongs to the half-open state: it is set nowhere else, and
\* whatever takes the breaker out of half-open clears it.  (A flag left set in
\* the open or closed state would refuse the probe of the next outage.)
ProbeFlagOnlyHalfOpen == probeInFlight => State = "half_open"

\* breaker.py:54-55: concurrent callers are short-circuited "until it settles",
\* so while the flag is set there is a probe in flight that can still clear it.
\* Late failures and successes of older calls clear the flag under a probe, so
\* the converse does not hold.
ProbeFlagHasOwner == probeInFlight => probes # {}

\* breaker.py:54: "In half-open exactly one probe is admitted".
SingleProbe == \A c, d \in probes : c = d

\* breaker.py:3-4, "one unreachable dependency costs you one timeout": during
\* one outage, half-open admissions are at least ResetAfter ticks apart,
\* whatever late answers arrive in between.
ProbesSpaced ==
    [][probes' \ probes # {} => sinceProbe = ResetAfter]_vars

\* A half-open breaker that has a probe out has nothing else out: every call
\* admitted before the breaker opened has ended by then.
ProbeRunsAlone == probeInFlight => \A c, d \in inFlight : c = d

\* While the breaker is past its threshold and no probe is out, every call in
\* flight is at least as old as the last counted failure.
StragglersPredateTimer ==
    (failures >= FailureThreshold /\ ~probeInFlight)
        => \A c \in inFlight : age[c] >= elapsed

\* No half-open admission of this outage is younger than the last failure.
TimerRestartsAfterProbe ==
    (failures >= FailureThreshold /\ ~probeInFlight) => elapsed <= sinceProbe

\* SPEC.md section 10, as a refinement: the phase is the computed state.
Contract == INSTANCE BreakerContract WITH
    Threshold <- FailureThreshold,
    phase     <- State,
    misses    <- failures,
    probing   <- probeInFlight

ImplementsContract == Contract!ContractSpec
===============================================================================
