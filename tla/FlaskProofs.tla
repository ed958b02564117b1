------------------------------- MODULE FlaskProofs ------------------------------
(***************************************************************************)
(* Proofs about the client and the application of FlaskApp, for every       *)
(* number of threads, every answer, every hook and every breaker.           *)
(*                                                                          *)
(* A thread starts a job, at once over or sent, receives what its job was   *)
(* sent for, or sees send() raise (ThreadCases).  What it sends is a call   *)
(* of BreakerCallers, and what it returns is made from one outcome of that  *)
(* call.                                                                    *)
(***************************************************************************)
EXTENDS FlaskApp, BreakerProofs, ResolutionProofs

-------------------------------------------------------------------------------
(***************************************************************************)
(* The shape of a step.                                                     *)
(***************************************************************************)
Decisive == {"login", "transfer"}

SentOps == Routes \union {"fingerprint", "health", "manage", "doctor", "probe"}

Ids == {"r1", "", "none"}

RealJobs == [op : SentOps \union {"checked"}, id : Ids, healthy : BOOLEAN]
Jobs == {NoJob} \union RealJobs

Waiting(job) == job.op \notin {"none", "checked"}

\* A method begins: it raises, for want of an id or a token, or calls send().
Starts(c, job) ==
    /\ job \in Jobs /\ Waiting(job) /\ ~Waiting(doing[c])
    /\ \/ RaiseFirst(c, job) /\ (job.op \in Decisive => job.id = "")
       \/ Send(c, job) /\ (job.op \in Decisive => job.id # "")

\* A thread is in flight exactly while its method waits for send().
InFlightWaits == inFlight = {c \in Callers : Waiting(doing[c])}

JobInvariant ==
    /\ doing \in [Callers -> Jobs]
    /\ \A c \in Callers : doing[c].op \in Decisive => doing[c].id # ""
    /\ InFlightWaits

\* A thread without a job is not waiting, one that sends is.
LEMMA NoJobWaits == NoJob \in Jobs /\ NoJob.op = "none" /\ ~Waiting(NoJob)
  BY DEF Waiting, NoJob, Job, Jobs

\* A job made for a method that sends is one, and waits for send().
LEMMA JobWaits ==
  ASSUME NEW op \in SentOps, NEW id \in Ids
  PROVE  LET job == Job(op, id, FALSE)
         IN  job \in Jobs /\ Waiting(job) /\ job.op = op /\ job.id = id
<1> DEFINE job == Job(op, id, FALSE)
<1>2. job \in RealJobs
  BY Zenon DEF Job, RealJobs
<1>3. job.op = op /\ job.id = id
  BY DEF Job
<1>1. op \notin {"none", "checked"}
  BY DEF SentOps, Routes
<1> HIDE DEF job
<1>4. QED
  BY <1>1, <1>2, <1>3 DEF Jobs, Waiting, job

\* No thread has a job at first.
LEMMA JobInvariantInit == ClientInit => JobInvariant
  BY NoJobWaits DEF ClientInit, Init, JobInvariant, InFlightWaits, Decisive

\* A thread starts a job, receives what it waits for or sees send() raise.
LEMMA ThreadCases ==
  ASSUME JobInvariant, NEW c \in Callers, Serve(c) \/ ClientStep(c)
  PROVE  \/ \E job : Starts(c, job)
         \/ \E h \in Answers : Receive(c, h)
         \/ SendRaises(c)
<1> DEFINE Started == \E job : Starts(c, job)
<1>0. Routes \subseteq SentOps /\ {"fingerprint", "health", "manage", "doctor", "probe"} \subseteq SentOps
  BY DEF SentOps
<1>1. ASSUME NEW route \in Routes, NEW id \in {"r1", ""}, Evaluate(c, route, id)
      PROVE  Started
  <2> DEFINE job == Job(route, id, FALSE)
  <2>0. route \in SentOps /\ id \in Ids
    BY <1>0 DEF Ids
  <2>1. job \in Jobs /\ Waiting(job) /\ job.id = id
    BY <2>0, JobWaits, Zenon
  <2>2. ~Waiting(doing[c]) /\ IF id = "" THEN RaiseFirst(c, job) ELSE Send(c, job)
    BY <1>1, NoJobWaits DEF Evaluate
  <2> HIDE DEF job
  <2>3. QED
    BY <2>1, <2>2 DEF Starts
<1>2. ASSUME NEW op \in {"fingerprint", "health", "manage", "doctor"},
             NEW id \in Ids, doing[c] = NoJob,
             RaiseFirst(c, Job(op, id, FALSE)) \/ Send(c, Job(op, id, FALSE))
      PROVE  Started
  <2> DEFINE job == Job(op, id, FALSE)
  <2>1. op \in SentOps /\ op \notin Decisive
    BY <1>0 DEF Decisive
  <2>2. job \in Jobs /\ Waiting(job) /\ job.op \notin Decisive
    BY <2>1, JobWaits, Zenon
  <2>3. ~Waiting(doing[c]) /\ (RaiseFirst(c, job) \/ Send(c, job))
    BY <1>2, NoJobWaits
  <2> HIDE DEF job
  <2>4. QED
    BY <2>2, <2>3 DEF Starts
<1>3. CASE Probe(c)
  <2> DEFINE job == [doing[c] EXCEPT !.op = "probe"]
  <2>1. doing[c] \in RealJobs
    BY <1>3, NoJobWaits DEF Probe, JobInvariant, Jobs
  <2>2. job \in RealJobs /\ job.op = "probe"
    BY <1>0, <2>1 DEF RealJobs
  <2>3. (RaiseFirst(c, job) \/ Send(c, job)) /\ ~Waiting(doing[c])
    BY <1>3 DEF Probe, Waiting
  <2> HIDE DEF job
  <2>4. job \in Jobs /\ Waiting(job) /\ job.op \notin Decisive
    BY <2>2 DEF Jobs, Waiting, Decisive
  <2>5. QED
    BY <2>3, <2>4 DEF Starts
<1>4. QED
  BY <1>1, <1>2, <1>3
     DEF Serve, ClientStep, GetFingerprint, Health, Manage, Doctor, Ids

\* send() asks the breaker and nothing else.
LEMMA SendCases ==
  ASSUME NEW c \in Callers, NEW job, Send(c, job)
  PROVE  \/ Admit(c) /\ doing' = [doing EXCEPT ![c] = job] /\ returned' = Nothing
         \/ UNCHANGED vars /\ Resume(c, job, Refused)
  BY DEF Send, RefuseRequest, breakerVars, vars

-------------------------------------------------------------------------------
(***************************************************************************)
(* The client as callers of the breaker.                                    *)
(***************************************************************************)
\* Every step of the application is a step of a caller, or none that the breaker
\* sees.
LEMMA ClientStepIsCallerStep ==
  JobInvariant /\ [FlaskNext]_clientVars => [Next]_vars
<1> SUFFICES ASSUME JobInvariant, [FlaskNext]_clientVars PROVE [Next]_vars
  OBVIOUS
<1>1. ASSUME NEW c \in Callers, NEW job, Starts(c, job) PROVE [Next]_vars
  <2>1. CASE RaiseFirst(c, job)
    BY <2>1 DEF RaiseFirst
  <2>2. CASE Send(c, job)
    BY <2>2, SendCases DEF Next
  <2>3. QED
    BY <1>1, <2>1, <2>2 DEF Starts
<1>2. ASSUME NEW c \in Callers, NEW h \in Answers, Receive(c, h) PROVE [Next]_vars
  BY <1>2 DEF Receive, Next
<1>3. ASSUME NEW c \in Callers, SendRaises(c) PROVE [Next]_vars
  BY <1>3 DEF SendRaises, Next
<1>4. CASE TimePasses
  BY <1>4 DEF TimePasses, Next
<1>5. CASE UNCHANGED clientVars
  BY <1>5 DEF clientVars
<1>6. QED
  BY <1>1, <1>2, <1>3, <1>4, <1>5, ThreadCases DEF FlaskNext

\* send() is called once for every call of a method, and a thread is in flight
\* exactly while its method waits for it.
LEMMA ResumeEnds ==
  ASSUME NEW c \in Callers, NEW job \in Jobs, NEW h, Waiting(job), Resume(c, job, h)
  PROVE  \E next \in Jobs : ~Waiting(next) /\ doing' = [doing EXCEPT ![c] = next]
<1>1. ASSUME NEW j, NEW raises, NEW value, NEW outcome, NEW hook,
             Return(c, j, raises, value, outcome, hook)
      PROVE  \E next \in Jobs : ~Waiting(next) /\ doing' = [doing EXCEPT ![c] = next]
  BY <1>1, NoJobWaits DEF Return
<1>2. CASE HealthChecked(c, job, h)
  <2>1. ASSUME doing' = [doing EXCEPT ![c] = Job("checked", job.id, Healthy(h))]
        PROVE  \E next \in Jobs : ~Waiting(next) /\ doing' = [doing EXCEPT ![c] = next]
    <3> DEFINE next == Job("checked", job.id, Healthy(h))
    <3>1. job.id \in Ids
      BY NoJobWaits DEF Jobs, RealJobs
    <3>2. Healthy(h) \in BOOLEAN
      BY DEF Healthy
    <3>3. "checked" \in SentOps \union {"checked"}
      OBVIOUS
    <3>4. next \in RealJobs
      BY <3>1, <3>2, <3>3, Zenon DEF RealJobs, Job
    <3>5. ~Waiting(next)
      BY DEF Waiting, Job
    <3> HIDE DEF next
    <3>6. QED
      BY <2>1, <3>4, <3>5 DEF Jobs, next
  <2>2. QED
    BY <1>1, <1>2, <2>1 DEF HealthChecked
<1>3. QED
  BY <1>1, <1>2 DEF Resume, Probed, LookedUp, Evaluated

\* A thread that ends its call ends its job or goes on to the second half of doctor().
LEMMA JobInvariantStep == JobInvariant /\ [FlaskNext]_clientVars => JobInvariant'
<1> SUFFICES ASSUME JobInvariant, [FlaskNext]_clientVars PROVE JobInvariant'
  OBVIOUS
<1>1. ASSUME NEW c \in Callers, NEW next \in Jobs, ~Waiting(next), ~Waiting(doing[c]) \/ c \in inFlight,
             doing' = [doing EXCEPT ![c] = next], inFlight' = inFlight \ {c}
      PROVE  JobInvariant'
  <2>1. doing' \in [Callers -> Jobs]
    BY <1>1 DEF JobInvariant
  <2>2. \A d \in Callers : doing'[d].op \in Decisive => doing'[d].id # ""
    BY <1>1 DEF JobInvariant, Waiting, Decisive
  <2>3. InFlightWaits'
    BY <1>1 DEF JobInvariant, InFlightWaits, Waiting
  <2>4. QED
    BY <2>1, <2>2, <2>3 DEF JobInvariant
<1>2. ASSUME NEW c \in Callers, NEW job, Starts(c, job) PROVE JobInvariant'
  <2>1. job \in Jobs /\ Waiting(job) /\ ~Waiting(doing[c])
    BY <1>2 DEF Starts
  <2>2. c \notin inFlight
    BY <2>1 DEF JobInvariant, InFlightWaits, Waiting
  <2>3. CASE RaiseFirst(c, job)
    BY <1>1, <2>1, <2>2, <2>3, NoJobWaits DEF RaiseFirst, Return, vars
  <2>4. CASE Send(c, job) /\ (job.op \in Decisive => job.id # "")
    <3>1. CASE UNCHANGED vars /\ Resume(c, job, Refused)
      BY <1>1, <2>1, <2>2, <3>1, ResumeEnds DEF vars
    <3>2. CASE Admit(c) /\ doing' = [doing EXCEPT ![c] = job]
      <4>1. inFlight' = inFlight \union {c}
        BY <3>2 DEF Admit
      <4>2. doing' \in [Callers -> Jobs]
        BY <2>1, <3>2 DEF JobInvariant
      <4>3. \A d \in Callers : doing'[d].op \in Decisive => doing'[d].id # ""
        BY <2>4, <3>2 DEF JobInvariant
      <4>4. InFlightWaits'
        BY <2>1, <3>2, <4>1 DEF JobInvariant, InFlightWaits, Waiting
      <4>5. QED
        BY <4>2, <4>3, <4>4 DEF JobInvariant
    <3>3. QED
      BY <2>4, <3>1, <3>2, SendCases
  <2>5. QED
    BY <1>2, <2>3, <2>4 DEF Starts
<1>3. ASSUME NEW c \in Callers, NEW h \in Answers, Receive(c, h) PROVE JobInvariant'
  <2>1. c \in inFlight /\ inFlight' = inFlight \ {c}
    BY <1>3 DEF Receive, Fail, Succeed, Leave
  <2>2. doing[c] \in Jobs /\ Waiting(doing[c]) /\ Resume(c, doing[c], h)
    BY <1>3, <2>1 DEF Receive, JobInvariant, InFlightWaits, Waiting
  <2>3. QED
    BY <1>1, <2>1, <2>2, ResumeEnds
<1>4. ASSUME NEW c \in Callers, SendRaises(c) PROVE JobInvariant'
  <2>1. c \in inFlight /\ inFlight' = inFlight \ {c}
    BY <1>4 DEF SendRaises, Abandon, Leave
  <2>2. doing' = [doing EXCEPT ![c] = NoJob]
    BY <1>4 DEF SendRaises, Return
  <2>3. QED
    BY <1>1, <2>1, <2>2, NoJobWaits
<1>5. CASE TimePasses
  BY <1>5 DEF TimePasses, Tick, JobInvariant, InFlightWaits
<1>6. CASE UNCHANGED clientVars
  BY <1>6 DEF clientVars, vars, JobInvariant, InFlightWaits
<1>7. QED
  BY <1>2, <1>3, <1>4, <1>5, <1>6, ThreadCases DEF FlaskNext

\* client.py:64-66: the client, its management client and its health probe share
\* one breaker, and are callers of it like any others.
LEMMA ClientUsesBreaker == FlaskSpec => Spec
<1>1. ClientInit => Init
  BY DEF ClientInit
<1>2. QED
  BY <1>1, JobInvariantInit, JobInvariantStep, ClientStepIsCallerStep, PTL
     DEF FlaskSpec, Spec

\* breaker.py:65, :72, :76: with the client's threads in place of any callers, the flag
\* that keeps a second probe out is up only while the call it was raised for is in
\* flight, provided that no send() raises.
THEOREM ClientFlagHasOwner == ASSUME ~MayAbandon PROVE FlaskSpec => []ProbeFlagHasOwner
<1>1. FlaskSpec => Spec
  BY ClientUsesBreaker
<1>2. QED
  BY <1>1, FlagHasOwner, PTL

\* breaker.py:54, "In half-open exactly one probe is admitted": lookups, health checks
\* and the management client count as callers like any evaluation, and probes of one
\* outage are apart whichever method sends them.
THEOREM ClientProbesAlone ==
  ASSUME ShortCalls PROVE FlaskSpec => [](SingleProbe /\ ProbeRunsAlone) /\ ProbesSpaced
<1>1. FlaskSpec => Spec
  BY ClientUsesBreaker
<1>2. QED
  BY <1>1, OneProbeAtATime, ProbesRunAlone, ProbesAreSpaced, PTL

\* A probe is admitted with its flag and a call that ends with a word to the breaker
\* takes the flag along, so only one that ends without leaves it behind.
LEMMA OrphanStep ==
  ASSUME JobInvariant, [FlaskNext]_clientVars, ~Orphan, Orphan'
  PROVE  \E c \in Callers : SendRaises(c)
<1>1. ~UNCHANGED vars
  BY DEF vars, Orphan
<1>2. ASSUME NEW c \in Callers, Admit(c) PROVE FALSE
  <2>1. CASE AllowClosed
    BY <1>2, <2>1 DEF Admit, AllowClosed, breakerVars, Orphan
  <2>2. CASE AllowProbe
    BY <1>2, <2>2 DEF Admit, AllowProbe, Orphan
  <2>3. QED
    BY <1>2, <2>1, <2>2 DEF Admit, AllowRequest
<1>3. ASSUME NEW c \in Callers, NEW job, Starts(c, job) PROVE FALSE
  BY <1>1, <1>2, <1>3, SendCases DEF Starts, RaiseFirst
<1>4. ASSUME NEW c \in Callers, NEW h \in Answers, Receive(c, h) PROVE FALSE
  BY <1>4 DEF Receive, Fail, Succeed, RecordFailure, RecordSuccess, Orphan
<1>5. ~TimePasses
  BY DEF TimePasses, Tick, ClockTick, Orphan
<1>6. QED
  BY <1>1, <1>3, <1>4, <1>5, ThreadCases DEF FlaskNext, clientVars

\* breaker.py:54-55: over evaluations, lookups, health checks, management calls and
\* doctor(), with hooks that raise and events that are refused, the flag of a probe is
\* left behind by a send() that raises and by nothing else.
THEOREM OnlyRaisesOrphan == FlaskSpec => OnlyRaiseOrphansFlag
<1>1. ASSUME JobInvariant, NEW c \in Callers, SendRaises(c)
      PROVE  /\ c \in inFlight \ inFlight' /\ returned'.op # "none"
             /\ returned'.raises /\ returned'.hook = "none"
  <2>1. c \in inFlight \ inFlight'
    BY <1>1 DEF SendRaises, Abandon, Leave
  <2>2. doing[c].op # "none"
    BY <1>1, <2>1 DEF JobInvariant, InFlightWaits, Waiting
  <2>3. returned'.op = doing[c].op /\ returned'.raises /\ returned'.hook = "none"
    BY <1>1, Zenon DEF SendRaises, Return
  <2>4. QED
    BY <2>1, <2>2, <2>3
<1>2. JobInvariant /\ [FlaskNext]_clientVars
        => [~Orphan /\ Orphan' => \E c \in inFlight \ inFlight' :
              /\ returned'.op # "none"
              /\ returned'.raises /\ returned'.hook = "none"]_clientVars
  BY <1>1, OrphanStep
<1>3. QED
  BY <1>2, JobInvariantInit, JobInvariantStep, PTL DEF FlaskSpec, OnlyRaiseOrphansFlag

-------------------------------------------------------------------------------
(***************************************************************************)
(* What the application is given.                                           *)
(***************************************************************************)
Outcomes == Answers \union {Refused}

\* What login() and transfer() get back was decided from one outcome of their own,
\* if send() did not raise.
EvaluationRight ==
    (returned.op \in Decisive /\ returned.hook # "none") =>
        IF returned.id = "" THEN returned.outcome = Refused
        ELSE LET decision == Resolve(returned.outcome, Settings)
             IN  /\ returned.outcome \in Outcomes
                 /\ returned.raises <=> Raises(decision, returned.hook)
                 /\ returned.value = Hooked(decision, returned.hook)

\* A report that is "ok" rests on the decision about its own probe.
ProbeRight ==
    (returned.op = "probe" /\ ~returned.raises /\ returned.value) =>
        /\ returned.outcome \in Outcomes
        /\ Resolve(returned.outcome, Settings).observed # "none"

ReturnedInvariant == EvaluationRight /\ ProbeRight

\* An exception from send() reaches the application as it is.
LEMMA SendRaisedIsRight == ASSUME NEW c, SendRaises(c) PROVE ReturnedInvariant'
<1>1. returned'.raises /\ returned'.hook = "none"
  BY Zenon DEF SendRaises, Return
<1>2. QED
  BY <1>1, Zenon DEF ReturnedInvariant, EvaluationRight, ProbeRight

\* Where nothing, or something else, is returned there is nothing to show.
LEMMA OthersAreRight ==
  ASSUME NEW c, NEW job, NEW raises, NEW value, NEW outcome, NEW hook,
         \/ returned' = Nothing
         \/ /\ Return(c, job, raises, value, outcome, hook)
            /\ job.op \notin Decisive \union {"probe"}
  PROVE  ReturnedInvariant'
<1>1. returned'.op \notin Decisive \union {"probe"}
  BY DEF Return, Nothing, Decisive
<1>2. QED
  BY <1>1 DEF ReturnedInvariant, EvaluationRight, ProbeRight

\* A ValidationError reaches the caller with nothing decided.
LEMMA RaisedFirstIsRight ==
  ASSUME NEW c, NEW job, RaiseFirst(c, job), job.op \in Decisive => job.id = ""
  PROVE  ReturnedInvariant'
<1>1. /\ returned'.op = job.op /\ returned'.id = job.id
      /\ returned'.outcome = Refused /\ returned'.raises
  BY Zenon DEF RaiseFirst, Return
<1>2. QED
  BY <1>1 DEF ReturnedInvariant, EvaluationRight, ProbeRight, Decisive

\* evaluate() decides from the outcome that send() gave it.
LEMMA EvaluatedIsRight ==
  ASSUME NEW c, NEW job, NEW h \in Outcomes, Evaluated(c, job, h),
         job.op # "probe", job.op \in Decisive => job.id # ""
  PROVE  ReturnedInvariant'
<1> DEFINE decision == Resolve(h, Settings)
<1>1. PICK hook \in Hooks : Return(c, job, Raises(decision, hook), Hooked(decision, hook), h, hook)
  BY DEF Evaluated
<1>2. /\ returned'.op = job.op /\ returned'.id = job.id
      /\ returned'.outcome = h /\ returned'.hook = hook
      /\ returned'.value = Hooked(decision, hook)
  BY <1>1 DEF Return
<1>3. returned'.raises <=> Raises(decision, hook)
  BY <1>1, Zenon DEF Return
<1> HIDE DEF decision
<1>4. QED
  BY <1>2, <1>3, Zenon DEF ReturnedInvariant, EvaluationRight, ProbeRight, decision

\* The hook may only deny, and a denial of its own has observed no action.
LEMMA HookObservesNothing ==
  ASSUME NEW decision, NEW hook, Hooked(decision, hook).observed # "none"
  PROVE  Hooked(decision, hook) = decision
  BY DEF Hooked, Verdict

\* doctor() reads the decision about its probe.
LEMMA ProbedIsRight ==
  ASSUME NEW c, NEW job, NEW h \in Outcomes, Probed(c, job, h), job.op = "probe"
  PROVE  ReturnedInvariant'
<1> DEFINE decision == Resolve(h, Settings)
<1>1. ASSUME NEW hook, Return(c, job, TRUE, FALSE, h, hook) PROVE ReturnedInvariant'
  <2>1. returned'.op = "probe" /\ returned'.raises
    BY <1>1, Zenon DEF Return
  <2>2. QED
    BY <2>1, Zenon DEF ReturnedInvariant, EvaluationRight, ProbeRight, Decisive
<1>2. ASSUME NEW hook,
             Return(c, job, FALSE,
                    StaticChecks /\ job.healthy /\ ProbeChecks(h, Hooked(decision, hook)), h, hook)
      PROVE  ReturnedInvariant'
  <2>1. returned'.op = "probe" /\ returned'.outcome = h
    BY <1>2 DEF Return
  <2>2. returned'.value => ProbeChecks(h, Hooked(decision, hook))
    BY <1>2, Zenon DEF Return
  <2>3. ProbeChecks(h, Hooked(decision, hook)) => decision.observed # "none"
    BY HookObservesNothing, Zenon DEF ProbeChecks
  <2>4. returned'.op \notin Decisive
    BY <2>1 DEF Decisive
  <2>5. QED
    BY <2>1, <2>2, <2>3, <2>4, Zenon DEF ReturnedInvariant, EvaluationRight, ProbeRight
<1>3. QED
  BY <1>1, <1>2 DEF Probed

\* Whatever a method does with an outcome, it returns what that outcome means.
LEMMA ResumedIsRight ==
  ASSUME NEW c, NEW job, NEW h \in Outcomes, Resume(c, job, h),
         job.op \in Decisive => job.id # ""
  PROVE  ReturnedInvariant'
<1>1. CASE job.op \in {"health", "doctor"}
  <2>1. HealthChecked(c, job, h)
    BY <1>1 DEF Resume
  <2>2. job.op \notin Decisive \union {"probe"}
    BY <1>1 DEF Decisive
  <2>3. QED
    BY <2>1, <2>2, OthersAreRight DEF HealthChecked
<1>2. CASE job.op = "probe"
  BY <1>2, ProbedIsRight DEF Resume
<1>3. CASE job.op \in {"fingerprint", "manage"}
  <2>1. LookedUp(c, job, h)
    BY <1>3 DEF Resume
  <2>2. job.op \notin Decisive \union {"probe"}
    BY <1>3 DEF Decisive
  <2>3. QED
    BY <2>1, <2>2, OthersAreRight DEF LookedUp
<1>4. CASE job.op \notin {"health", "doctor", "probe", "fingerprint", "manage"}
  <2>1. Evaluated(c, job, h)
    BY <1>4 DEF Resume
  <2>2. QED
    BY <1>4, <2>1, EvaluatedIsRight
<1>5. QED
  BY <1>1, <1>2, <1>3, <1>4

\* At first nothing has been returned.
LEMMA ReturnedInit == ClientInit => ReturnedInvariant
  BY DEF ClientInit, Nothing, ReturnedInvariant, EvaluationRight, ProbeRight, Decisive

\* The job of the thread tells which id was sent, the step itself the rest.
LEMMA ReturnedStep ==
  JobInvariant /\ ReturnedInvariant /\ [FlaskNext]_clientVars => ReturnedInvariant'
<1> SUFFICES ASSUME JobInvariant, ReturnedInvariant, [FlaskNext]_clientVars
             PROVE  ReturnedInvariant'
  OBVIOUS
<1>1. ASSUME NEW c \in Callers, NEW job, Starts(c, job) PROVE ReturnedInvariant'
  <2>1. CASE RaiseFirst(c, job) /\ (job.op \in Decisive => job.id = "")
    BY <2>1, RaisedFirstIsRight
  <2>2. CASE Send(c, job) /\ (job.op \in Decisive => job.id # "")
    <3>1. CASE returned' = Nothing
      BY <3>1, OthersAreRight
    <3>2. CASE Resume(c, job, Refused)
      BY <2>2, <3>2, ResumedIsRight DEF Outcomes
    <3>3. QED
      BY <2>2, <3>1, <3>2, SendCases
  <2>3. QED
    BY <1>1, <2>1, <2>2 DEF Starts
<1>2. ASSUME NEW c \in Callers, NEW h \in Answers, Receive(c, h) PROVE ReturnedInvariant'
  BY <1>2, ResumedIsRight DEF Receive, JobInvariant, Outcomes
<1>3. ASSUME NEW c \in Callers, SendRaises(c) PROVE ReturnedInvariant'
  BY <1>3, SendRaisedIsRight
<1>4. CASE TimePasses
  BY <1>4, OthersAreRight DEF TimePasses
<1>5. CASE UNCHANGED clientVars
  BY <1>5 DEF clientVars, ReturnedInvariant, EvaluationRight, ProbeRight
<1>6. QED
  BY <1>1, <1>2, <1>3, <1>4, <1>5, ThreadCases DEF FlaskNext

\* Every decision and every report is about an outcome of the call made for it.
LEMMA AlwaysReturnedRight == FlaskSpec => []ReturnedInvariant
  BY JobInvariantInit, JobInvariantStep, ReturnedInit, ReturnedStep, PTL DEF FlaskSpec

-------------------------------------------------------------------------------
(***************************************************************************)
(* The routes and the doctor.                                               *)
(***************************************************************************)
\* A route answers an error when its call raised; else the action decides.
LEMMA LoginResponse ==
  ASSUME NEW r, r.op = "login", r.hook = "keep", ~r.raises
  PROVE  /\ r.value.action = "allow" => Response(r) = "token"
         /\ r.value.action = "deny" => Response(r) = "denied"
         /\ r.value.action = "challenge" => Response(r) = "otp"
  BY DEF Response, Gate

\* transfer() reads a decision as login() does, with answers of its own.
LEMMA TransferResponse ==
  ASSUME NEW r, r.op = "transfer", r.hook = "keep", ~r.raises
  PROVE  /\ r.value.action = "deny" => Response(r) = "denied"
         /\ r.value.action = "challenge" => Response(r) = "3ds"
  BY DEF Response, Gate

\* An exception is an internal error on every route.
LEMMA ErrorResponse == ASSUME NEW r, r.raises PROVE Response(r) = "error"
  BY DEF Response

\* decision.py:207-213: the action of a chain with a live policy is the decision,
\* unless the score next to it cannot be read at all.
LEMMA LiveActionDecides ==
  ASSUME NEW h, NEW c, NEW a \in {"deny", "challenge"},
         ~h.error, Accepted(h.status), LiveAction(h.body, a)
  PROVE  Resolve(h, c) = Raised \/ Resolve(h, c).action = a
<1>1. ~TransportFailure(h) /\ ~ClientError(h)
  BY DEF Accepted, TransportFailure, ClientError
<1>2. ChainAction(h.body) = a /\ a # "none"
  BY DEF LiveAction
<1>3. Present(h.body)
  BY <1>2, ChainIsInObject DEF Present, Is
<1>4. ~Shadowed(MatchedPolicies(h.body), a)
  BY LiveIsNotShadowed DEF LiveAction
<1>5. FromChain(a, MatchedPolicies(h.body), c).action = a
  BY <1>4, NotShadowedIsEnforced
<1>6. QED
  BY <1>1, <1>2, <1>3, <1>5 DEF Resolve

\* Two threads, a breaker and a doctor change nothing about it: what the server
\* denies or challenges for good gets neither token nor transfer.
THEOREM GateAlwaysHolds == FlaskSpec => []GateHolds
<1>1. ReturnedInvariant => GateHolds
  <2> DEFINE h == returned.outcome
             decision == Resolve(h, Settings)
  <2> SUFFICES ASSUME ReturnedInvariant, Gated, ~h.error, Accepted(h.status),
                      NEW a \in {"deny", "challenge"}, LiveAction(h.body, a)
               PROVE  /\ a = "deny" => Response(returned) \in {"denied", "error"}
                      /\ a = "challenge" => Response(returned) \in {"otp", "3ds", "error"}
    BY DEF GateHolds
  <2>1. returned.op \in {"login", "transfer"} /\ returned.op \in Decisive /\ returned.hook = "keep"
    BY DEF Gated, Decisive
  <2>2. returned.id # ""
    <3>1. Refused.error
      BY DEF Refused
    <3>2. QED
      BY <2>1, <3>1, Zenon DEF ReturnedInvariant, EvaluationRight
  <2>3. /\ returned.raises <=> Raises(decision, "keep")
        /\ returned.value = Hooked(decision, "keep")
    BY <2>1, <2>2, Zenon DEF ReturnedInvariant, EvaluationRight
  <2>4. decision = Raised \/ decision.action = a
    BY LiveActionDecides
  <2>5. CASE returned.raises
    BY <2>5, ErrorResponse
  <2>6. CASE ~returned.raises
    <3>1. decision # Raised
      BY <2>3, <2>6, Zenon DEF Raises
    <3>2. returned.value.action = a
      BY <2>3, <2>4, <3>1 DEF Hooked
    <3>3. QED
      BY <2>1, <2>6, <3>2, LoginResponse, TransferResponse
  <2>7. QED
    BY <2>5, <2>6
<1>2. QED
  BY <1>1, AlwaysReturnedRight, PTL

\* flask_app.py:29-30: with both failure modes on allow, an outage, a rotated key
\* and an open breaker cost no login, whatever the other threads do, if send() returns
\* at all and no score comes with the failure that is too large for a float: that one
\* raises before the status is looked at.
THEOREM DegradedLoginsPass ==
  ASSUME Settings.failureMode = "allow", Settings.clientErrorMode = "allow"
  PROVE  FlaskSpec => []DegradedLoginPasses
<1>1. ASSUME NEW h \in Outcomes, Failed(h), ~Is(Score(h.body), "huge")
      PROVE  Resolve(h, Settings).action = "allow" /\ Resolve(h, Settings) # Raised
  <2>2. TransportFailure(h) \/ ClientError(h) \/ ~Present(h.body)
    BY <1>1 DEF Failed, TransportFailure, ClientError
  <2>3. \/ Resolve(h, Settings) = Verdict("allow", "degraded", "none", FALSE, TRUE)
        \/ Resolve(h, Settings) = Verdict("allow", "client_error", "none", FALSE, TRUE)
    BY <1>1, <2>2 DEF Resolve
  <2>4. QED
    BY <2>3 DEF Verdict, Raised
<1>2. ReturnedInvariant => DegradedLoginPasses
  <2> DEFINE decision == Resolve(returned.outcome, Settings)
  <2> SUFFICES ASSUME ReturnedInvariant, returned.op = "login", returned.id # "",
                      returned.hook = "keep", Failed(returned.outcome),
                      ~Is(Score(returned.outcome.body), "huge")
               PROVE  Response(returned) = "token"
    BY DEF DegradedLoginPasses, FailedLogin
  <2>1. /\ returned.outcome \in Outcomes
        /\ returned.raises <=> Raises(decision, "keep")
        /\ returned.value = Hooked(decision, "keep")
    BY Zenon DEF ReturnedInvariant, EvaluationRight, Decisive
  <2>2. decision.action = "allow" /\ decision # Raised
    BY <1>1, <2>1
  <2>3. ~returned.raises
    BY <2>1, <2>2, Zenon DEF Raises
  <2>4. returned.value.action = "allow"
    BY <2>1, <2>2 DEF Hooked
  <2>5. QED
    BY <2>3, <2>4, LoginResponse
<1>3. QED
  BY <1>2, AlwaysReturnedRight, PTL

\* client.py:217-296: a probed report that is "ok" has seen the chain answer.
THEOREM DoctorOkIsAnswered == FlaskSpec => []DoctorOkMeansAnswered
<1>1. ReturnedInvariant => DoctorOkMeansAnswered
  <2> DEFINE h == returned.outcome
  <2> SUFFICES ASSUME ReturnedInvariant, returned.op = "probe", ~returned.raises, returned.value
               PROVE  ~h.error /\ h.status < 400 /\ ChainAction(h.body) # "none"
    BY DEF DoctorOkMeansAnswered
  <2>1. h \in Outcomes /\ Resolve(h, Settings).observed # "none"
    BY DEF ReturnedInvariant, ProbeRight
  <2>2. ~TransportFailure(h) /\ ~ClientError(h) /\ ChainAction(h.body) # "none"
    BY <2>1, ObservedIsChain
  <2>3. h.status \in Nat
    BY <2>1, AnswersAssumption DEF Outcomes, Refused
  <2>4. QED
    BY <2>2, <2>3 DEF TransportFailure, ClientError
<1>2. QED
  BY <1>1, AlwaysReturnedRight, PTL
===============================================================================
