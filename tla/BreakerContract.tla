---------------------------- MODULE BreakerContract ---------------------------
(***************************************************************************)
(* What a circuit breaker promises its clients, as the state machine of     *)
(* SPEC.md section 10: three phases, a count of consecutive failures, and   *)
(* one probe at a time in the half-open phase.  It says nothing of clocks   *)
(* or callers.  BreakerCallers is shown to implement it when calls do not   *)
(* overlap; a late success of an older call does what it forbids.           *)
(***************************************************************************)
EXTENDS Naturals

CONSTANT Threshold      \* consecutive failures that open the breaker

VARIABLES
    phase,              \* "closed", "open" or "half_open"
    misses,             \* consecutive failures counted so far
    probing             \* a probe is out

contractVars == <<phase, misses, probing>>

ContractInit ==
    /\ phase = "closed"
    /\ misses = 0
    /\ probing = FALSE

CallSucceeds ==
    /\ phase = "closed"
    /\ misses' = 0
    /\ UNCHANGED <<phase, probing>>

CallFails ==
    /\ phase = "closed"
    /\ misses' = misses + 1
    /\ phase' = IF misses' = Threshold THEN "open" ELSE "closed"
    /\ UNCHANGED probing

TimerFires ==
    /\ phase = "open"
    /\ phase' = "half_open"
    /\ UNCHANGED <<misses, probing>>

ProbeStarts ==
    /\ phase = "half_open"
    /\ ~probing
    /\ probing' = TRUE
    /\ UNCHANGED <<phase, misses>>

ProbeSucceeds ==
    /\ phase = "half_open"
    /\ probing
    /\ phase' = "closed"
    /\ misses' = 0
    /\ probing' = FALSE

ProbeFails ==
    /\ phase = "half_open"
    /\ probing
    /\ phase' = "open"
    /\ probing' = FALSE
    /\ UNCHANGED misses

ContractNext ==
    \/ CallSucceeds
    \/ CallFails
    \/ TimerFires
    \/ ProbeStarts
    \/ ProbeSucceeds
    \/ ProbeFails

ContractSpec == ContractInit /\ [][ContractNext]_contractVars
===============================================================================
