---------------------------- MODULE CircuitBreaker ----------------------------
(***************************************************************************)
(* The circuit breaker of traitx/breaker.py: its four fields and its        *)
(* methods.  Every method body runs under `self._lock`, so each method is   *)
(* one atomic action.  The module has no callers; BreakerCallers and        *)
(* Transport add them.                                                      *)
(*                                                                          *)
(* Time is counted in ticks.  The code stores `_opened_at` and compares     *)
(* `clock() - _opened_at` with `reset_after_ms`; the model stores that      *)
(* difference, `elapsed`, and stops counting at ResetAfter, because nothing *)
(* reads it beyond that point.  `_failures` likewise stops at               *)
(* FailureThreshold: it is only ever compared with it or set to zero.       *)
(* `_opened_at = 0.0` is the zero of the monotonic clock, taken to lie at   *)
(* least ResetAfter in the past (the host has been up that long).           *)
(***************************************************************************)
EXTENDS Integers

CONSTANTS
    FailureThreshold,   \* BreakerOptions.failure_threshold
    ResetAfter          \* BreakerOptions.reset_after_ms, in ticks

\* build_config checks neither option, so zero is a legal value of both.
\* (A negative threshold behaves like zero.)
ASSUME FailureThresholdAssumption == FailureThreshold \in Nat
ASSUME ResetAfterAssumption == ResetAfter \in Nat

VARIABLES
    failures,           \* _failures, saturating at FailureThreshold
    elapsed,            \* clock() - _opened_at, saturating at ResetAfter
    probeInFlight,      \* _probe_in_flight
    sinceProbe          \* history: ticks since the last half-open admission
                        \* of this outage (ResetAfter when there was none)

breakerVars == <<failures, elapsed, probeInFlight, sinceProbe>>

BreakerState == {"closed", "open", "half_open"}

Saturate(n, cap) == IF n < cap THEN n ELSE cap

BreakerTypeOK ==
    /\ failures \in 0..FailureThreshold
    /\ elapsed \in 0..ResetAfter
    /\ probeInFlight \in BOOLEAN
    /\ sinceProbe \in 0..ResetAfter

BreakerInit ==
    /\ failures = 0
    /\ elapsed = ResetAfter
    /\ probeInFlight = FALSE
    /\ sinceProbe = ResetAfter

\* A slip in _state_locked(): half-open one tick early.
StateTooEarly ==
    IF failures < FailureThreshold THEN "closed"
    ELSE IF elapsed + 1 >= ResetAfter THEN "half_open" ELSE "open"

\* _state_locked(): the state is computed on every read, never stored.
State ==
    IF failures < FailureThreshold THEN "closed"
    ELSE IF elapsed >= ResetAfter THEN "half_open" ELSE "open"

-------------------------------------------------------------------------------
\* allow_request() returning True while closed.
AllowClosed ==
    /\ State = "closed"
    /\ UNCHANGED breakerVars

\* A slip in allow_request(): the probe flag is set but not looked at.
AllowEveryProbe ==
    /\ State = "half_open"
    /\ probeInFlight' = TRUE
    /\ sinceProbe' = 0
    /\ UNCHANGED <<failures, elapsed>>

\* allow_request() returning True in half-open: the caller becomes the probe.
AllowProbe ==
    /\ State = "half_open"
    /\ ~probeInFlight
    /\ probeInFlight' = TRUE
    /\ sinceProbe' = 0
    /\ UNCHANGED <<failures, elapsed>>

AllowRequest == AllowClosed \/ AllowProbe

\* allow_request() returning False.
RefuseRequest ==
    /\ \/ State = "open"
       \/ State = "half_open" /\ probeInFlight
    /\ UNCHANGED breakerVars

\* Slips in record_success(): the flag, or the counter, is not reset.
SuccessKeepsFlag ==
    /\ failures' = 0
    /\ elapsed' = ResetAfter
    /\ sinceProbe' = ResetAfter
    /\ UNCHANGED probeInFlight

SuccessKeepsCount ==
    /\ elapsed' = ResetAfter
    /\ probeInFlight' = FALSE
    /\ sinceProbe' = ResetAfter
    /\ UNCHANGED failures

RecordSuccess ==
    /\ failures' = 0
    /\ elapsed' = ResetAfter
    /\ probeInFlight' = FALSE
    /\ sinceProbe' = ResetAfter

\* Slips in record_failure(): the flag stays, the timer is never started, or it
\* is started by the opening failure alone.
FailureKeepsFlag ==
    /\ failures' = Saturate(failures + 1, FailureThreshold)
    /\ elapsed' = IF failures + 1 >= FailureThreshold THEN 0 ELSE elapsed
    /\ UNCHANGED <<probeInFlight, sinceProbe>>

FailureKeepsTimer ==
    /\ probeInFlight' = FALSE
    /\ failures' = Saturate(failures + 1, FailureThreshold)
    /\ UNCHANGED <<elapsed, sinceProbe>>

FailureOpensOnce ==
    /\ probeInFlight' = FALSE
    /\ failures' = Saturate(failures + 1, FailureThreshold)
    /\ elapsed' = IF failures + 1 = FailureThreshold THEN 0 ELSE elapsed
    /\ UNCHANGED sinceProbe

\* The timer restarts at every failure at or past the threshold, not only at
\* the one that opens the breaker.
RecordFailure ==
    /\ probeInFlight' = FALSE
    /\ failures' = Saturate(failures + 1, FailureThreshold)
    /\ elapsed' = IF failures + 1 >= FailureThreshold THEN 0 ELSE elapsed
    /\ UNCHANGED sinceProbe

\* reset() is record_success() under its public name.
ResetBreaker == RecordSuccess

\* A slip: the clock is time.time(), which may be set back.
ClockStepsBack ==
    /\ elapsed' \in {elapsed - 1, Saturate(elapsed + 1, ResetAfter)}
    /\ sinceProbe' = Saturate(sinceProbe + 1, ResetAfter)
    /\ UNCHANGED <<failures, probeInFlight>>

\* One tick of time.monotonic().
ClockTick ==
    /\ elapsed' = Saturate(elapsed + 1, ResetAfter)
    /\ sinceProbe' = Saturate(sinceProbe + 1, ResetAfter)
    /\ UNCHANGED <<failures, probeInFlight>>
===============================================================================
