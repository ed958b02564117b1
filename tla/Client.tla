-------------------------------- MODULE Client --------------------------------
(***************************************************************************)
(* The methods of traitx/client.py, called by threads that share the one    *)
(* client, its transport and so its circuit breaker.                        *)
(*                                                                          *)
(* A method runs up to send(), is in flight in between (BreakerCallers says *)
(* what the breaker sees of that), and goes on with what send() returned,   *)
(* an HttpOutcome [status, error, body], unless an exception leaves send(). *)
(* doctor() makes two calls.  Events and ids are valid or blank here;       *)
(* Serialize has the rest of them.                                          *)
(***************************************************************************)
EXTENDS BreakerCallers, Resolution, HttpStatus

CONSTANTS
    Settings,       \* the part of the Config that decisions depend on
    Answers,        \* what send() may return for a call that was admitted
    Hooks,          \* what on_decision may do: "keep", "deny", "garbage", "raise"
    StaticChecks    \* TRUE when doctor() likes the key and the application id

\* HttpOutcome.status_code and whether there is a transport_error.
ASSUME AnswersAssumption == \A h \in Answers : h.status \in Nat /\ h.error \in BOOLEAN
ASSUME HooksAssumption == Hooks \subseteq {"keep", "deny", "garbage", "raise"}
ASSUME StaticChecksAssumption == StaticChecks \in BOOLEAN

VARIABLES
    doing,          \* the job of each thread
    returned        \* history: what the last step gave the application, if anything

clientVars == <<vars, doing, returned>>

\* A method with the request id it was given ("" for a blank one, "none" for
\* none); "checked" is doctor() between its two calls, `healthy` what the first
\* of them found.
Job(op, id, healthy) == [op |-> op, id |-> id, healthy |-> healthy]
NoJob == Job("none", "none", FALSE)

Nothing == [op |-> "none"]
Refused == [status |-> 0, error |-> TRUE, body |-> Null]

ClientInit ==
    /\ Init
    /\ doing = [c \in Callers |-> NoJob]
    /\ returned = Nothing

-------------------------------------------------------------------------------
\* The method returns `value`, or raises; `hook` is "none" when it did not get as far
\* as the outcome of its call.
Return(c, job, raises, value, outcome, hook) ==
    /\ doing' = [doing EXCEPT ![c] = NoJob]
    /\ returned' = [op |-> job.op, id |-> job.id, raises |-> raises, value |-> value,
                    outcome |-> outcome, hook |-> hook]

\* A ValidationError or ConfigurationError, before anything is sent.
RaiseFirst(c, job) ==
    /\ Return(c, job, TRUE, FALSE, Refused, "keep")
    /\ UNCHANGED vars

\* evaluate() behind resolve_decision(): the hook may replace the decision, with
\* something that is none, or raise.
Hooked(decision, hook) ==
    IF hook = "deny" THEN Verdict("deny", "policy_match", "none", TRUE, FALSE) ELSE decision

Raises(decision, hook) == decision = Raised \/ hook = "raise"

\* A slip: a failed call is raised, as the other methods do.
EvaluatedOrRaised(c, job, h) ==
    LET decision == Resolve(h, Settings)
    IN  \E hook \in Hooks :
            Return(c, job, h.error \/ Raises(decision, hook), Hooked(decision, hook), h, hook)

Evaluated(c, job, h) ==
    LET decision == Resolve(h, Settings)
    IN  \E hook \in Hooks :
            Return(c, job, Raises(decision, hook), Hooked(decision, hook), h, hook)

\* get_fingerprint() and the calls of the management client.
LookedUp(c, job, h) ==
    Return(c, job, h.error \/ h.status >= 400, FALSE, h, "keep")

Healthy(h) == ~h.error /\ Accepted(h.status)

\* health(), which is also the first half of doctor().
HealthChecked(c, job, h) ==
    IF job.op = "health" THEN Return(c, job, FALSE, Healthy(h), h, "keep")
    ELSE IF job.id = "none"
    THEN Return(c, job, FALSE, StaticChecks /\ Healthy(h), h, "keep")
    ELSE /\ doing' = [doing EXCEPT ![c] = Job("checked", job.id, Healthy(h))]
         /\ returned' = Nothing

\* A slip in doctor(): the last check is left out.
ProbeChecksShort(h, d) == d.reason # "client_error" /\ DeviceContext(h.body)

\* The checks of doctor() on the evaluation of its probe.
ProbeChecks(h, d) ==
    /\ d.reason # "client_error"
    /\ DeviceContext(h.body)
    /\ d.observed # "none"

\* The second half; something that is no Decision has no `reason`.
Probed(c, job, h) ==
    LET decision == Resolve(h, Settings)
    IN  \E hook \in Hooks :
            IF Raises(decision, hook) \/ hook = "garbage"
            THEN Return(c, job, TRUE, FALSE, h, hook)
            ELSE Return(c, job, FALSE,
                        StaticChecks /\ job.healthy /\ ProbeChecks(h, Hooked(decision, hook)),
                        h, hook)

\* send() has returned h: the rest of the method.
Resume(c, job, h) ==
    CASE job.op \in {"health", "doctor"} -> HealthChecked(c, job, h)
      [] job.op = "probe" -> Probed(c, job, h)
      [] job.op \in {"fingerprint", "manage"} -> LookedUp(c, job, h)
      [] OTHER -> Evaluated(c, job, h)

\* The method calls send(), which goes to the network or returns at once.
Send(c, job) ==
    \/ /\ Admit(c)
       /\ doing' = [doing EXCEPT ![c] = job]
       /\ returned' = Nothing
    \/ /\ RefuseRequest
       /\ Resume(c, job, Refused)
       /\ UNCHANGED <<inFlight, probes, age>>

-------------------------------------------------------------------------------
\* A slip in evaluate(): the breaker is asked before the event is looked at.
EvaluateUnvalidated(c, op, id) ==
    /\ doing[c] = NoJob
    /\ IF id = "" THEN /\ AllowRequest \/ RefuseRequest
                       /\ Return(c, Job(op, id, FALSE), TRUE, FALSE, Refused, "keep")
                       /\ UNCHANGED <<inFlight, probes, age>>
       ELSE Send(c, Job(op, id, FALSE))

\* evaluate(), for an event of the application named by `op`.
Evaluate(c, op, id) ==
    /\ doing[c] = NoJob
    /\ LET job == Job(op, id, FALSE)
       IN  IF id = "" THEN RaiseFirst(c, job) ELSE Send(c, job)

GetFingerprint(c, id) ==
    /\ doing[c] = NoJob
    /\ LET job == Job("fingerprint", id, FALSE)
       IN  IF id = "" THEN RaiseFirst(c, job) ELSE Send(c, job)

Health(c) ==
    /\ doing[c] = NoJob
    /\ Send(c, Job("health", "none", FALSE))

\* A call of client.management, with or without a token.
Manage(c, token) ==
    /\ doing[c] = NoJob
    /\ LET job == Job("manage", "none", FALSE)
       IN  IF token THEN Send(c, job) ELSE RaiseFirst(c, job)

\* doctor(probe_request_id) up to and with its health() call.
Doctor(c, id) ==
    /\ doing[c] = NoJob
    /\ Send(c, Job("doctor", id, FALSE))

\* A slip: the evaluation goes out on the permission of the health check.
ProbeUnasked(c) ==
    /\ doing[c].op = "checked"
    /\ inFlight' = inFlight \union {c}
    /\ doing' = [doing EXCEPT ![c].op = "probe"]
    /\ returned' = Nothing
    /\ UNCHANGED <<breakerVars, probes, age>>

\* evaluate_login(probe_request_id) in doctor().
Probe(c) ==
    /\ doing[c].op = "checked"
    /\ LET job == [doing[c] EXCEPT !.op = "probe"]
       IN  IF job.id = "" THEN RaiseFirst(c, job) ELSE Send(c, job)

\* send() ends, and what it tells the breaker depends on the outcome.
Receive(c, h) ==
    /\ IF h.error \/ CountsAsFailure(h.status) THEN Fail(c) ELSE Succeed(c)
    /\ Resume(c, doing[c], h)

\* An exception leaves send(), for a body that json.dumps() does not take or an error
\* answer with a Retry-After date without a zone (Raise in Transport).  No method
\* catches it, and the breaker is not told.
SendRaises(c) ==
    /\ Abandon(c)
    /\ Return(c, doing[c], TRUE, FALSE, Refused, "none")

TimePasses ==
    /\ Tick
    /\ returned' = Nothing
    /\ UNCHANGED doing

ClientStep(c) ==
    \/ \E id \in {"r1", ""} : GetFingerprint(c, id)
    \/ Health(c)
    \/ \E token \in BOOLEAN : Manage(c, token)
    \/ \E id \in {"r1", "", "none"} : Doctor(c, id)
    \/ Probe(c)
    \/ \E h \in Answers : Receive(c, h)
    \/ SendRaises(c)

-------------------------------------------------------------------------------
\* client.py:217-296: a report that is "ok" and had a probe rests on an answer to
\* that probe with a chain action in it, and on a healthy deployment; no call that
\* the breaker refused or the network lost in between passes for one.
DoctorOkMeansAnswered ==
    (returned.op = "probe" /\ ~returned.raises /\ returned.value) =>
        /\ ~returned.outcome.error
        /\ returned.outcome.status < 400
        /\ ChainAction(returned.outcome.body) # "none"

\* breaker.py:54-55: the flag of a probe that has no call left to clear it stays up
\* for good.  Only a call whose send() raises leaves it so; no event that is
\* validated, no hook that raises and no check of doctor() does.
Orphan == probeInFlight /\ probes = {}

OnlyRaiseOrphansFlag ==
    [][~Orphan /\ Orphan' =>
         \E c \in inFlight \ inFlight' :
            /\ returned'.op # "none"
            /\ returned'.raises /\ returned'.hook = "none"]_clientVars
===============================================================================
