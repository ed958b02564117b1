----------------------------- MODULE BreakerProofs ----------------------------
(***************************************************************************)
(* Proofs about BreakerCallers, for every set of callers, threshold, delay  *)
(* and call budget.  The provers treat a Boolean variable and arithmetic in *)
(* different ways, so the type of the probe flag has steps of its own.      *)
(***************************************************************************)
EXTENDS BreakerCallers, TLAPS

\* The numbers and sets of TypeOK, without the flag.
CountersTypeOK ==
    /\ failures \in 0..FailureThreshold
    /\ elapsed \in 0..ResetAfter
    /\ sinceProbe \in 0..ResetAfter
    /\ inFlight \subseteq Callers
    /\ probes \subseteq inFlight
    /\ age \in [Callers -> 0..CallBudget]

\* TypeOK is the type of the counters and the type of the flag.
LEMMA TypeOKSplits == TypeOK <=> CountersTypeOK /\ probeInFlight \in BOOLEAN
  BY Zenon DEF TypeOK, BreakerTypeOK, CountersTypeOK

\* Every method of the breaker keeps its counters in range and every step of
\* a caller keeps the sets and ages in range.
LEMMA CountersStep == CountersTypeOK /\ [Next]_vars => CountersTypeOK'
<1> SUFFICES ASSUME CountersTypeOK, [Next]_vars PROVE CountersTypeOK'
  OBVIOUS
<1> USE FailureThresholdAssumption, ResetAfterAssumption, CallBudgetAssumption
    DEF CountersTypeOK
<1>1. ASSUME NEW c \in Callers, Admit(c) PROVE CountersTypeOK'
  BY <1>1 DEF Admit, AllowRequest, AllowClosed, AllowProbe, breakerVars
<1>2. ASSUME NEW c \in Callers, Succeed(c) PROVE CountersTypeOK'
  BY <1>2 DEF Succeed, Leave, RecordSuccess
<1>3. ASSUME NEW c \in Callers, Fail(c) PROVE CountersTypeOK'
  BY <1>3 DEF Fail, Leave, RecordFailure, Saturate
<1>4. ASSUME NEW c \in Callers, Abandon(c) PROVE CountersTypeOK'
  BY <1>4 DEF Abandon, Leave, breakerVars
<1>5. CASE Reset
  BY <1>5 DEF Reset, ResetBreaker, RecordSuccess
<1>6. CASE Tick
  BY <1>6 DEF Tick, ClockTick, Saturate
<1>7. CASE UNCHANGED vars
  BY <1>7 DEF vars
<1>8. QED
  BY <1>1, <1>2, <1>3, <1>4, <1>5, <1>6, <1>7 DEF Next

\* The probe flag is only ever assigned TRUE or FALSE.
LEMMA FlagStep ==
  probeInFlight \in BOOLEAN /\ [Next]_vars => probeInFlight' \in BOOLEAN
  BY Zenon DEF Next, vars, Admit, AllowRequest, AllowClosed, AllowProbe,
     Succeed, RecordSuccess, Fail, RecordFailure, Abandon, Reset, ResetBreaker,
     Tick, ClockTick, breakerVars

\* Every step keeps the fields of the breaker, the set of calls in flight, the
\* probes among them and their ages within their types.
THEOREM TypeCorrect == Spec => []TypeOK
<1>1. Init => TypeOK
  <2> SUFFICES ASSUME Init PROVE TypeOK
    OBVIOUS
  <2>1. CountersTypeOK
    BY FailureThresholdAssumption, ResetAfterAssumption, CallBudgetAssumption
       DEF Init, BreakerInit, CountersTypeOK
  <2>2. probeInFlight \in BOOLEAN
    BY DEF Init, BreakerInit
  <2>3. QED
    BY <2>1, <2>2, TypeOKSplits
<1>2. TypeOK /\ [Next]_vars => TypeOK'
  <2>1. TypeOK' <=> CountersTypeOK' /\ probeInFlight' \in BOOLEAN
    BY Zenon DEF TypeOK, BreakerTypeOK, CountersTypeOK
  <2>2. QED
    BY <2>1, TypeOKSplits, CountersStep, FlagStep
<1>3. QED
  BY <1>1, <1>2, PTL DEF Spec

-------------------------------------------------------------------------------
\* The probe flag belongs to the half-open state, for every option and every
\* number of overlapping calls.
FlagInvariant == CountersTypeOK /\ ProbeFlagOnlyHalfOpen

\* Whatever takes the breaker out of half-open clears the flag.
LEMMA FlagInvariantStep == FlagInvariant /\ [Next]_vars => FlagInvariant'
<1> SUFFICES ASSUME FlagInvariant, [Next]_vars PROVE ProbeFlagOnlyHalfOpen'
  BY CountersStep DEF FlagInvariant
<1> USE FailureThresholdAssumption, ResetAfterAssumption
    DEF FlagInvariant, CountersTypeOK, ProbeFlagOnlyHalfOpen, State
<1>1. ASSUME NEW c \in Callers, Admit(c) PROVE ProbeFlagOnlyHalfOpen'
  BY <1>1 DEF Admit, AllowRequest, AllowClosed, AllowProbe, breakerVars
<1>2. ASSUME NEW c \in Callers, Succeed(c) PROVE ProbeFlagOnlyHalfOpen'
  BY <1>2 DEF Succeed, RecordSuccess
<1>3. ASSUME NEW c \in Callers, Fail(c) PROVE ProbeFlagOnlyHalfOpen'
  BY <1>3 DEF Fail, RecordFailure
<1>4. ASSUME NEW c \in Callers, Abandon(c) PROVE ProbeFlagOnlyHalfOpen'
  BY <1>4 DEF Abandon, breakerVars
<1>5. CASE Reset
  BY <1>5 DEF Reset, ResetBreaker, RecordSuccess
<1>6. CASE Tick
  BY <1>6 DEF Tick, ClockTick, Saturate
<1>7. CASE UNCHANGED vars
  BY <1>7 DEF vars
<1>8. QED
  BY <1>1, <1>2, <1>3, <1>4, <1>5, <1>6, <1>7 DEF Next

\* A new breaker has no probe out.
LEMMA FlagInvariantInit == Init => FlagInvariant
  BY FailureThresholdAssumption, ResetAfterAssumption, CallBudgetAssumption
     DEF Init, BreakerInit, FlagInvariant, CountersTypeOK, ProbeFlagOnlyHalfOpen

\* A flag left set in the open or closed state would refuse the probe of the
\* next outage; none of breaker.py's methods leaves one.
THEOREM FlagOnlyHalfOpen == Spec => []ProbeFlagOnlyHalfOpen
<1>1. FlagInvariant => ProbeFlagOnlyHalfOpen
  BY DEF FlagInvariant
<1>2. QED
  BY <1>1, FlagInvariantInit, FlagInvariantStep, PTL DEF Spec

\* Unless a call may end by an exception, a set flag has a probe to clear it
\* (breaker.py:54-55, "until it settles").
THEOREM FlagHasOwner == ASSUME ~MayAbandon PROVE Spec => []ProbeFlagHasOwner
<1> USE DEF ProbeFlagHasOwner
<1>1. Init => ProbeFlagHasOwner
  BY DEF Init, BreakerInit
<1>2. ProbeFlagHasOwner /\ [Next]_vars => ProbeFlagHasOwner'
  BY DEF Next, vars, Admit, AllowRequest, AllowClosed, AllowProbe, State,
     Succeed, RecordSuccess, Fail, RecordFailure, Abandon, Reset, ResetBreaker,
     Tick, ClockTick, breakerVars
<1>3. QED
  BY <1>1, <1>2, PTL DEF Spec

-------------------------------------------------------------------------------
(***************************************************************************)
(* One probe at a time, when every call ends before the half-open delay is  *)
(* over.  The delay runs from the last counted failure, so a call still in  *)
(* flight when it is over was admitted before (StragglersPredateTimer) and  *)
(* would be older than its budget: a probe starts with nothing else in      *)
(* flight, and nothing but its own answer can clear its flag.               *)
(***************************************************************************)
ShortCalls == FailureThreshold >= 1 /\ CallBudget < ResetAfter

SingleProbeInvariant ==
    /\ FlagInvariant
    /\ StragglersPredateTimer
    /\ ProbeRunsAlone
    /\ SingleProbe

\* At the moment of a half-open admission no other call is in flight.
LEMMA ProbeStartsAlone ==
  ASSUME ShortCalls, FlagInvariant, StragglersPredateTimer,
         State = "half_open", ~probeInFlight
  PROVE  inFlight = {}
<1>1. failures >= FailureThreshold /\ elapsed = ResetAfter
  BY FailureThresholdAssumption, ResetAfterAssumption
     DEF State, FlagInvariant, CountersTypeOK
<1>2. \A c \in inFlight : age[c] >= ResetAfter /\ age[c] <= CallBudget
  BY <1>1, CallBudgetAssumption, ResetAfterAssumption
     DEF StragglersPredateTimer, FlagInvariant, CountersTypeOK
<1>3. \A c \in inFlight : age[c] \in 0..CallBudget
  BY DEF FlagInvariant, CountersTypeOK
<1>4. QED
  BY <1>2, <1>3, CallBudgetAssumption, ResetAfterAssumption DEF ShortCalls

\* The strengthened invariant is inductive.
LEMMA SingleProbeStep ==
  ASSUME ShortCalls PROVE SingleProbeInvariant /\ [Next]_vars => SingleProbeInvariant'
<1> SUFFICES ASSUME SingleProbeInvariant, [Next]_vars
             PROVE  StragglersPredateTimer' /\ ProbeRunsAlone' /\ SingleProbe'
  BY FlagInvariantStep DEF SingleProbeInvariant
<1> DEFINE Goal == StragglersPredateTimer' /\ ProbeRunsAlone' /\ SingleProbe'
<1> USE FailureThresholdAssumption, ResetAfterAssumption, CallBudgetAssumption
    DEF ShortCalls
<1>1. ASSUME NEW c \in Callers, Admit(c) PROVE Goal
  <2>1. CASE AllowClosed
    <3>1. failures' < FailureThreshold /\ ~probeInFlight'
      BY <1>1, <2>1 DEF AllowClosed, breakerVars, State, SingleProbeInvariant,
         FlagInvariant, CountersTypeOK, ProbeFlagOnlyHalfOpen
    <3>2. probes' = probes
      BY <1>1, <2>1 DEF Admit, AllowClosed
    <3>3. failures' \in 0..FailureThreshold
      BY <2>1 DEF AllowClosed, breakerVars, SingleProbeInvariant, FlagInvariant,
         CountersTypeOK
    <3>4. QED
      BY <3>1, <3>2, <3>3 DEF SingleProbeInvariant, StragglersPredateTimer,
         ProbeRunsAlone, SingleProbe
  <2>2. CASE AllowProbe
    <3>1. inFlight = {} /\ probes = {}
      BY <2>2, ProbeStartsAlone DEF AllowProbe, SingleProbeInvariant,
         FlagInvariant, CountersTypeOK
    <3>2. inFlight' = {c} /\ probes' \subseteq {c} /\ probeInFlight'
      BY <1>1, <2>2, <3>1 DEF Admit, AllowProbe
    <3>3. QED
      BY <3>2 DEF StragglersPredateTimer, ProbeRunsAlone, SingleProbe
  <2>3. QED
    BY <1>1, <2>1, <2>2 DEF Admit, AllowRequest
<1>2. ASSUME NEW c \in Callers, Succeed(c) PROVE Goal
  BY <1>2 DEF Succeed, Leave, RecordSuccess, SingleProbeInvariant,
     StragglersPredateTimer, ProbeRunsAlone, SingleProbe
<1>3. ASSUME NEW c \in Callers, Fail(c) PROVE Goal
  <2>1. ~probeInFlight' /\ probes' \subseteq probes
    BY <1>3 DEF Fail, Leave, RecordFailure
  <2>2. StragglersPredateTimer'
    <3> SUFFICES ASSUME failures' >= FailureThreshold, NEW d \in inFlight'
                 PROVE  age'[d] >= elapsed'
      BY DEF StragglersPredateTimer
    <3>1. elapsed' = 0
      BY <1>3 DEF Fail, RecordFailure, Saturate, SingleProbeInvariant,
         FlagInvariant, CountersTypeOK
    <3>2. CountersTypeOK'
      BY CountersStep DEF SingleProbeInvariant, FlagInvariant
    <3>3. QED
      BY <3>1, <3>2 DEF CountersTypeOK
  <2>3. QED
    BY <2>1, <2>2 DEF ProbeRunsAlone, SingleProbe, SingleProbeInvariant
<1>4. ASSUME NEW c \in Callers, Abandon(c) PROVE Goal
  <2>1. /\ inFlight' = inFlight \ {c} /\ probes' \subseteq probes
        /\ age' = [age EXCEPT ![c] = 0]
        /\ UNCHANGED breakerVars
    BY <1>4 DEF Abandon, Leave
  <2>2. StragglersPredateTimer'
    BY <2>1 DEF StragglersPredateTimer, breakerVars, SingleProbeInvariant,
       FlagInvariant, CountersTypeOK
  <2>3. QED
    BY <2>1, <2>2 DEF ProbeRunsAlone, SingleProbe, SingleProbeInvariant, breakerVars
<1>5. CASE Reset
  BY <1>5 DEF Reset, ResetBreaker, RecordSuccess, SingleProbeInvariant,
     StragglersPredateTimer, ProbeRunsAlone, SingleProbe
<1>6. CASE Tick
  <2>1. StragglersPredateTimer'
    BY <1>6 DEF Tick, ClockTick, Saturate, StragglersPredateTimer,
       SingleProbeInvariant, FlagInvariant, CountersTypeOK
  <2>2. QED
    BY <1>6, <2>1 DEF Tick, ClockTick, ProbeRunsAlone, SingleProbe,
       SingleProbeInvariant
<1>7. CASE UNCHANGED vars
  BY <1>7 DEF vars, SingleProbeInvariant, StragglersPredateTimer,
     ProbeRunsAlone, SingleProbe
<1>8. QED
  BY <1>1, <1>2, <1>3, <1>4, <1>5, <1>6, <1>7 DEF Next

\* A new breaker has no call in flight.
LEMMA SingleProbeInit == Init => SingleProbeInvariant
  BY FlagInvariantInit DEF Init, SingleProbeInvariant, StragglersPredateTimer,
     ProbeRunsAlone, SingleProbe

\* breaker.py:54, "In half-open exactly one probe is admitted", for calls that
\* end within the half-open delay and a threshold of at least one.
THEOREM OneProbeAtATime == ASSUME ShortCalls PROVE Spec => []SingleProbe
<1>1. SingleProbeInvariant => SingleProbe
  BY DEF SingleProbeInvariant
<1>2. QED
  BY <1>1, SingleProbeInit, SingleProbeStep, PTL DEF Spec

\* Such a probe is the only call in flight, so that nothing but its own answer
\* can clear the flag it set (breaker.py:72, :76).
THEOREM ProbesRunAlone == ASSUME ShortCalls PROVE Spec => []ProbeRunsAlone
<1>1. SingleProbeInvariant => ProbeRunsAlone
  BY DEF SingleProbeInvariant
<1>2. QED
  BY <1>1, SingleProbeInit, SingleProbeStep, PTL DEF Spec

\* The timer of breaker.py:79 runs from the last counted failure, so a call in
\* flight past the threshold has been out for at least as long as the timer.
THEOREM StragglersAreOlder == ASSUME ShortCalls PROVE Spec => []StragglersPredateTimer
<1>1. SingleProbeInvariant => StragglersPredateTimer
  BY DEF SingleProbeInvariant
<1>2. QED
  BY <1>1, SingleProbeInit, SingleProbeStep, PTL DEF Spec

-------------------------------------------------------------------------------
(***************************************************************************)
(* Spacing of half-open admissions, with no assumption on how long calls    *)
(* take: every failure that frees the flag restarts the delay.              *)
(***************************************************************************)
SpacingInvariant == CountersTypeOK /\ TimerRestartsAfterProbe

\* A failure that frees the flag past the threshold sets the delay to zero.
LEMMA SpacingStep == SpacingInvariant /\ [Next]_vars => SpacingInvariant'
<1> SUFFICES ASSUME SpacingInvariant, [Next]_vars PROVE TimerRestartsAfterProbe'
  BY CountersStep DEF SpacingInvariant
<1> USE FailureThresholdAssumption, ResetAfterAssumption
    DEF SpacingInvariant, CountersTypeOK, TimerRestartsAfterProbe
<1>1. ASSUME NEW c \in Callers, Admit(c) PROVE TimerRestartsAfterProbe'
  BY <1>1 DEF Admit, AllowRequest, AllowClosed, AllowProbe, breakerVars
<1>2. ASSUME NEW c \in Callers, Succeed(c) PROVE TimerRestartsAfterProbe'
  BY <1>2 DEF Succeed, RecordSuccess
<1>3. ASSUME NEW c \in Callers, Fail(c) PROVE TimerRestartsAfterProbe'
  BY <1>3 DEF Fail, RecordFailure, Saturate
<1>4. ASSUME NEW c \in Callers, Abandon(c) PROVE TimerRestartsAfterProbe'
  BY <1>4 DEF Abandon, breakerVars
<1>5. CASE Reset
  BY <1>5 DEF Reset, ResetBreaker, RecordSuccess
<1>6. CASE Tick
  BY <1>6 DEF Tick, ClockTick, Saturate
<1>7. CASE UNCHANGED vars
  BY <1>7 DEF vars
<1>8. QED
  BY <1>1, <1>2, <1>3, <1>4, <1>5, <1>6, <1>7 DEF Next

\* A new breaker has admitted no probe.
LEMMA SpacingInit == Init => SpacingInvariant
  BY FailureThresholdAssumption, ResetAfterAssumption, CallBudgetAssumption
     DEF Init, BreakerInit, SpacingInvariant, CountersTypeOK, TimerRestartsAfterProbe

\* Whatever late answers come in, the half-open delay is never counted from
\* before the last probe of the outage.
THEOREM TimerRestarts == Spec => []TimerRestartsAfterProbe
<1>1. SpacingInvariant => TimerRestartsAfterProbe
  BY DEF SpacingInvariant
<1>2. QED
  BY <1>1, SpacingInit, SpacingStep, PTL DEF Spec

\* breaker.py:3-4, "one unreachable dependency costs you one timeout": during
\* an outage half-open admissions are at least ResetAfter ticks apart.
THEOREM ProbesAreSpaced == Spec => ProbesSpaced
<1>1. SpacingInvariant /\ [Next]_vars
        => [probes' \ probes # {} => sinceProbe = ResetAfter]_vars
  <2> SUFFICES ASSUME SpacingInvariant, Next, probes' \ probes # {}
               PROVE  sinceProbe = ResetAfter
    BY DEF vars
  <2>1. PICK c \in Callers : Admit(c)
    BY DEF Next, Succeed, Fail, Abandon, Leave, Reset, Tick
  <2>2. State = "half_open" /\ ~probeInFlight
    BY <2>1 DEF Admit, AllowRequest, AllowClosed, AllowProbe
  <2>3. failures >= FailureThreshold /\ elapsed >= ResetAfter
    BY <2>2, FailureThresholdAssumption, ResetAfterAssumption
       DEF State, SpacingInvariant, CountersTypeOK
  <2>4. QED
    BY <2>2, <2>3, ResetAfterAssumption
       DEF SpacingInvariant, CountersTypeOK, TimerRestartsAfterProbe
<1>2. QED
  BY <1>1, SpacingInit, SpacingStep, PTL DEF Spec, ProbesSpaced

-------------------------------------------------------------------------------
(***************************************************************************)
(* Calls that never overlap: the breaker is the machine of SPEC.md section  *)
(* 10.  The invariant says that the call in flight, if there is one, is the *)
(* probe of a half-open breaker or a call of a closed one.  A call may end  *)
(* by an exception: the machine then stands still, with its probe out.      *)
(***************************************************************************)
OneCallAtATime ==
    /\ \A c, d \in Callers : c = d
    /\ ~MayReset
    /\ FailureThreshold >= 1
    /\ ResetAfter >= 1

SoleCallInvariant ==
    /\ FlagInvariant
    /\ probeInFlight \in BOOLEAN
    /\ inFlight # {} => (probeInFlight \/ State = "closed")

\* The sole call of a breaker is its probe, or one of a closed breaker.
LEMMA SoleCallStep ==
  ASSUME OneCallAtATime PROVE SoleCallInvariant /\ [Next]_vars => SoleCallInvariant'
<1> SUFFICES ASSUME SoleCallInvariant, [Next]_vars
             PROVE  inFlight' # {} => (probeInFlight' \/ State' = "closed")
  BY FlagInvariantStep, FlagStep DEF SoleCallInvariant
<1> DEFINE Goal == inFlight' # {} => (probeInFlight' \/ State' = "closed")
<1> USE FailureThresholdAssumption, ResetAfterAssumption
    DEF OneCallAtATime, SoleCallInvariant, FlagInvariant, CountersTypeOK, State
<1>1. ASSUME NEW c \in Callers, Admit(c) PROVE Goal
  BY <1>1 DEF Admit, AllowRequest, AllowClosed, AllowProbe, breakerVars
<1>2. ASSUME NEW c \in Callers, Leave(c) PROVE inFlight' = {}
  BY <1>2 DEF Leave
<1>3. ASSUME NEW c \in Callers, Succeed(c) PROVE Goal
  BY <1>2, <1>3 DEF Succeed, RecordSuccess
<1>4. ASSUME NEW c \in Callers, Fail(c) PROVE Goal
  BY <1>2, <1>4 DEF Fail, RecordFailure
<1>5. CASE Tick
  BY <1>5 DEF Tick, ClockTick, Saturate, ProbeFlagOnlyHalfOpen
<1>6. CASE UNCHANGED vars
  BY <1>6 DEF vars
<1>7. QED
  BY <1>1, <1>2, <1>3, <1>4, <1>5, <1>6 DEF Next, Abandon, Reset

\* Each step of the breaker is a step of the contract or changes nothing in it.
LEMMA ContractStep ==
  ASSUME OneCallAtATime
  PROVE  SoleCallInvariant /\ [Next]_vars
           => [Contract!ContractNext]_(Contract!contractVars)
<1> SUFFICES ASSUME SoleCallInvariant, [Next]_vars
             PROVE  Contract!ContractNext \/ UNCHANGED Contract!contractVars
  OBVIOUS
<1> DEFINE Goal == Contract!ContractNext \/ UNCHANGED Contract!contractVars
<1> USE FailureThresholdAssumption, ResetAfterAssumption
    DEF OneCallAtATime, SoleCallInvariant
<1> USE DEF FlagInvariant, CountersTypeOK, ProbeFlagOnlyHalfOpen
<1>1. ASSUME NEW c \in Callers, Admit(c) PROVE Goal
  <2>1. CASE AllowClosed
    BY <2>1 DEF AllowClosed, breakerVars, State, Contract!contractVars
  <2>2. CASE AllowProbe
    BY <2>2 DEF AllowProbe, State, Contract!ContractNext, Contract!ProbeStarts
  <2>3. QED
    BY <1>1, <2>1, <2>2 DEF Admit, AllowRequest
<1>2. ASSUME NEW c \in Callers, Succeed(c) PROVE Goal
  <2>1. inFlight # {} /\ ~probeInFlight' /\ failures' = 0
    BY <1>2 DEF Succeed, Leave, RecordSuccess
  <2>2. State' = "closed"
    BY <2>1 DEF State
  <2>3. CASE probeInFlight
    <3>1. State = "half_open"
      BY <2>3
    <3>2. probeInFlight' = FALSE
      BY <1>2 DEF Succeed, RecordSuccess
    <3>3. QED
      BY <2>1, <2>2, <2>3, <3>1, <3>2, Zenon
         DEF Contract!ContractNext, Contract!ProbeSucceeds
  <2>4. CASE ~probeInFlight
    <3>1. State = "closed"
      BY <2>1, <2>4
    <3>2. probeInFlight' = probeInFlight
      BY <1>2, <2>4, Zenon DEF Succeed, RecordSuccess
    <3>3. QED
      BY <2>1, <2>2, <3>1, <3>2, Zenon
         DEF Contract!ContractNext, Contract!CallSucceeds
  <2>5. QED
    BY <2>3, <2>4
<1>3. ASSUME NEW c \in Callers, Fail(c) PROVE Goal
  <2>1. inFlight # {} /\ failures' = Saturate(failures + 1, FailureThreshold)
    BY <1>3 DEF Fail, Leave, RecordFailure
  <2>2. probeInFlight' = FALSE
    BY <1>3 DEF Fail, RecordFailure
  <2>3. failures' >= FailureThreshold => elapsed' = 0
    BY <1>3 DEF Fail, RecordFailure, Saturate
  <2>4. CASE probeInFlight
    <3>1. State = "half_open"
      BY <2>4
    <3>2. failures' = failures /\ State' = "open"
      BY <2>1, <2>3, <3>1 DEF Saturate, State
    <3>3. QED
      BY <2>2, <2>4, <3>1, <3>2, Zenon
         DEF Contract!ContractNext, Contract!ProbeFails
  <2>5. CASE ~probeInFlight
    <3>1. State = "closed"
      BY <2>1, <2>5
    <3>2. probeInFlight' = probeInFlight
      BY <2>2, <2>5, Zenon
    <3>3. failures' = failures + 1
      BY <2>1, <3>1 DEF Saturate, State
    <3>4. State' = IF failures' = FailureThreshold THEN "open" ELSE "closed"
      BY <2>3, <3>1, <3>3 DEF State
    <3>5. QED
      BY <3>1, <3>2, <3>3, <3>4, Zenon
         DEF Contract!ContractNext, Contract!CallFails
  <2>6. QED
    BY <2>4, <2>5
<1>4. CASE Tick
  <2>1. failures' = failures /\ probeInFlight' = probeInFlight
    BY <1>4 DEF Tick, ClockTick
  <2>2. State' = State \/ (State = "open" /\ State' = "half_open")
    BY <1>4 DEF Tick, ClockTick, Saturate, State
  <2>3. QED
    BY <2>1, <2>2, Zenon
       DEF Contract!ContractNext, Contract!TimerFires, Contract!contractVars
<1>5. CASE UNCHANGED breakerVars
  BY <1>5 DEF breakerVars, State, Contract!contractVars
<1>6. QED
  BY <1>1, <1>2, <1>3, <1>4, <1>5 DEF Next, vars, breakerVars, Abandon, Reset

\* SPEC.md section 10: with one call at a time the computed state, the failure
\* count and the probe flag move exactly as the documented state machine does.
THEOREM BreakerImplementsContract ==
  ASSUME OneCallAtATime PROVE Spec => ImplementsContract
<1>1. Init => SoleCallInvariant
  BY FlagInvariantInit DEF Init, BreakerInit, SoleCallInvariant
<1>2. Init => Contract!ContractInit
  BY FailureThresholdAssumption
     DEF Init, BreakerInit, State, Contract!ContractInit, OneCallAtATime
<1>3. QED
  BY <1>1, <1>2, SoleCallStep, ContractStep, PTL
     DEF Spec, ImplementsContract, Contract!ContractSpec
===============================================================================
