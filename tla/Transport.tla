------------------------------- MODULE Transport ------------------------------
(***************************************************************************)
(* Transport.send() of traitx/http.py, run by several threads that share    *)
(* one circuit breaker.                                                     *)
(*                                                                          *)
(* send() asks the breaker, encodes the body, and makes up to MaxRetries+1  *)
(* attempts.  An attempt waits for the headers (urlopen) and then for the   *)
(* body (read).  `timeout` is a socket timeout, so it bounds each operation *)
(* an attempt blocks on (to connect to one address, the TLS handshake, to   *)
(* send, each recv) and not the attempt: the code puts no limit on their    *)
(* number, which is a constant here.  urllib returns 2xx answers and raises *)
(* HTTPError for all others; the two paths treat a lost body and a bad      *)
(* header differently.                                                      *)
(*                                                                          *)
(* Abstractions.  A body is the number of the attempt that brought it, or   *)
(* NoBody when it is not a JSON object.  A Retry-After header is a number   *)
(* of ticks (seconds, or a date with a zone), NoHeader (absent, or not      *)
(* parseable) or NaiveDate (a date without a zone, from which the current   *)
(* time cannot be subtracted).  The jitter of a backoff is any value up to  *)
(* its ceiling.  An operation ends at its time limit at the latest; to look *)
(* up a name, which no timeout bounds, takes no time.                       *)
(***************************************************************************)
EXTENDS CircuitBreaker, HttpStatus

CONSTANTS
    Threads,            \* the threads that call send()
    MaxRetries,         \* Config.max_retries
    Timeout,            \* Config.timeout_ms, in ticks
    SocketOperations,   \* the most socket operations one attempt blocks on
    Backoff,            \* Config.retry_backoff_ms, in ticks
    RetryAfterCap,      \* RETRY_AFTER_CAP_MS, in ticks
    Statuses,           \* the HTTP statuses the service answers with
    Headers,            \* the Retry-After headers it sends
    NoHeader, NaiveDate,
    Bodies              \* the request bodies: "encodable", "unencodable"

ASSUME MaxRetriesAssumption == MaxRetries \in Nat
ASSUME DelaysAssumption == {Timeout, Backoff, RetryAfterCap} \subseteq Nat
ASSUME OperationsAssumption == SocketOperations \in Nat /\ SocketOperations >= 2
ASSUME StatusesAssumption == Statuses \subseteq 200..599
ASSUME HeadersAssumption == Headers \subseteq Nat \union {NoHeader, NaiveDate}
ASSUME HeaderKindsAssumption == NoHeader # NaiveDate
ASSUME BodiesAssumption == Bodies \subseteq {"encodable", "unencodable"}

VARIABLES
    call,               \* the local variables of send(), per thread
    probes,             \* history: calls in flight admitted as probes
    outcome             \* what the thread's last send() returned

transportVars == <<failures, elapsed, probeInFlight, sinceProbe,
                   call, probes, outcome>>

NoBody == -1

\* `pc` is where send() stands, `timer` how long it has been in the operation or
\* sleep it is in, `ops` how many operations of the attempt are over, `age` how long
\* ago it was admitted; `status` and `header` belong to the answer whose body is
\* being read, `lastStatus` and `lastBody` to the last complete one.
NoCall == [pc |-> "idle", attempt |-> 0, timer |-> 0, ops |-> 0, delay |-> 0, age |-> 0,
           status |-> 0, header |-> NoHeader, lastStatus |-> 0, lastBody |-> NoBody]

\* HttpOutcome, with "raised" for an exception that leaves send(); `attempt` and
\* `verdict` (what the breaker was told) are history.
Outcome(status, body, error, attempt, verdict) ==
    [status |-> status, body |-> body, error |-> error,
     attempt |-> attempt, verdict |-> verdict]

NoOutcome == Outcome(0, NoBody, "pending", 0, "none")

InFlight == {t \in Threads : call[t].pc # "idle"}

TransportTypeOK ==
    /\ BreakerTypeOK
    /\ \A t \in Threads :
         /\ call[t].pc \in {"idle", "encoding", "waiting", "reading", "sleeping"}
         /\ call[t].attempt \in 0..MaxRetries
         /\ call[t].ops \in 0..SocketOperations - 1
         /\ call[t].status \in Statuses \union {0}
         /\ call[t].lastStatus \in Statuses \union {0}
         /\ call[t].lastBody \in NoBody..MaxRetries
         /\ call[t].pc = "idle" => call[t] = NoCall
         /\ outcome[t].error \in {"pending", "", "open", "exhausted", "raised"}
    /\ probes \subseteq InFlight

TransportInit ==
    /\ BreakerInit
    /\ call = [t \in Threads |-> NoCall]
    /\ probes = {}
    /\ outcome = [t \in Threads |-> NoOutcome]

-------------------------------------------------------------------------------
\* _backoff_ms(attempt) and _parse_retry_after(header): the delays that may
\* precede an attempt, and the largest of them.
BackoffCeiling(attempt) == Backoff * 2^(attempt - 1)

\* A slip in _parse_retry_after(): the cap is forgotten.
UncappedDelays(attempt, header) ==
    IF header = NoHeader THEN 0..BackoffCeiling(attempt) ELSE {header}

Delays(attempt, header) ==
    IF header = NoHeader THEN 0..BackoffCeiling(attempt)
    ELSE {Saturate(header, RetryAfterCap)}

LongestDelay(attempt) ==
    IF BackoffCeiling(attempt) < RetryAfterCap THEN RetryAfterCap
    ELSE BackoffCeiling(attempt)

\* The longest a thread may stay in the operation or sleep it is in.
Limit(t) ==
    CASE call[t].pc \in {"waiting", "reading"} -> Timeout
      [] call[t].pc = "sleeping" -> call[t].delay
      [] OTHER -> 0

\* The longest that the delays before the retries 1..n may take together.
LongestDelays[n \in Nat] ==
    IF n = 0 THEN 0 ELSE LongestDelays[n - 1] + LongestDelay(n)

\* The longest an attempt takes, and an admitted call.
AttemptLimit == SocketOperations * Timeout
CallBudget == AttemptLimit * (MaxRetries + 1) + LongestDelays[MaxRetries]

-------------------------------------------------------------------------------
\* The call ends, with or without a word to the breaker.
Return(t, result) ==
    /\ call' = [call EXCEPT ![t] = NoCall]
    /\ probes' = probes \ {t}
    /\ outcome' = [outcome EXCEPT ![t] = result]

\* The call goes on with the locals `locals`, in a phase that starts now.
Continue(t, locals) ==
    /\ call' = [call EXCEPT ![t] = [locals EXCEPT !.timer = 0]]
    /\ UNCHANGED <<breakerVars, probes, outcome>>

\* An exception leaves send(); the breaker is not told.
Raise(t) ==
    /\ Return(t, Outcome(0, NoBody, "raised", call[t].attempt, "none"))
    /\ UNCHANGED breakerVars

\* Slips in the loop: one attempt too many, or an attempt that is not counted.
RetryOnceMore(t, header, status, body) ==
    \E delay \in Delays(call[t].attempt + 1, header) :
      Continue(t, [call[t] EXCEPT !.pc = "sleeping", !.delay = delay,
                                  !.attempt = @ + 1, !.ops = 0,
                                  !.status = 0, !.header = NoHeader,
                                  !.lastStatus = status, !.lastBody = body])

RetryUncounted(t, header, status, body) ==
    /\ call[t].attempt < MaxRetries
    /\ \E delay \in Delays(call[t].attempt + 1, header) :
         Continue(t, [call[t] EXCEPT !.pc = "sleeping", !.delay = delay,
                                     !.ops = 0, !.status = 0, !.header = NoHeader,
                                     !.lastStatus = status, !.lastBody = body])

\* The loop comes round: sleep before the next attempt.
Retry(t, header, status, body) ==
    /\ call[t].attempt < MaxRetries
    /\ \E delay \in Delays(call[t].attempt + 1, header) :
         Continue(t, [call[t] EXCEPT !.pc = "sleeping", !.delay = delay,
                                     !.attempt = @ + 1, !.ops = 0,
                                     !.status = 0, !.header = NoHeader,
                                     !.lastStatus = status, !.lastBody = body])

\* `except Exception`: try again, or give up with what earlier attempts left.
AttemptFails(t) ==
    \/ Retry(t, NoHeader, call[t].lastStatus, call[t].lastBody)
    \/ /\ call[t].attempt = MaxRetries
       /\ RecordFailure
       /\ LET last == call[t].lastStatus
              status == IF last >= 500 \/ last = 429 THEN last ELSE 0
          IN  Return(t, Outcome(status, call[t].lastBody, "exhausted",
                                MaxRetries, "failure"))

\* A slip in the last step: 408 and 429 are taken for settled answers.
SettleByClass(t, status, body) ==
    IF status >= 500
    THEN RecordFailure /\ Return(t, Outcome(status, body, "", call[t].attempt, "failure"))
    ELSE RecordSuccess /\ Return(t, Outcome(status, body, "", call[t].attempt, "success"))

\* A slip in the last step: the status kept for a call that fails decides.
SettleByLast(t, status, body) ==
    IF CountsAsFailure(status) \/ CountsAsFailure(call[t].lastStatus)
    THEN RecordFailure /\ Return(t, Outcome(status, body, "", call[t].attempt, "failure"))
    ELSE RecordSuccess /\ Return(t, Outcome(status, body, "", call[t].attempt, "success"))

\* An answer that is final.
Settle(t, status, body) ==
    IF CountsAsFailure(status)
    THEN RecordFailure /\ Return(t, Outcome(status, body, "", call[t].attempt, "failure"))
    ELSE RecordSuccess /\ Return(t, Outcome(status, body, "", call[t].attempt, "success"))

\* `except HTTPError`, once the body has been read or given up.
ErrorAnswer(t, body) ==
    LET status == call[t].status
        again  == Retryable(status) /\ call[t].attempt < MaxRetries
    IN  \/ call[t].header = NaiveDate /\ Raise(t)
        \/ /\ call[t].header # NaiveDate
           /\ again
           /\ Retry(t, call[t].header, status, body)
        \/ /\ call[t].header # NaiveDate
           /\ ~again
           /\ Settle(t, status, body)

-------------------------------------------------------------------------------
\* A slip in send(): the breaker is asked and its answer ignored.
BeginAnyway(t) ==
    /\ call[t].pc = "idle"
    /\ AllowRequest \/ RefuseRequest
    /\ call' = [call EXCEPT ![t].pc = "encoding"]
    /\ probes' = IF State = "half_open" THEN probes \union {t} ELSE probes
    /\ outcome' = [outcome EXCEPT ![t] = NoOutcome]

\* allow_request() returns True.
Begin(t) ==
    /\ call[t].pc = "idle"
    /\ AllowRequest
    /\ call' = [call EXCEPT ![t].pc = "encoding"]
    /\ probes' = IF State = "half_open" THEN probes \union {t} ELSE probes
    /\ outcome' = [outcome EXCEPT ![t] = NoOutcome]

\* allow_request() returns False.
ShortCircuit(t) ==
    /\ call[t].pc = "idle"
    /\ RefuseRequest
    /\ outcome' = [outcome EXCEPT ![t] = Outcome(0, NoBody, "open", 0, "none")]
    /\ UNCHANGED <<call, probes>>

\* json.dumps() stands between allow_request() and the first `try`.
Encode(t, body) ==
    /\ call[t].pc = "encoding"
    /\ \/ body = "encodable" /\ Continue(t, [call[t] EXCEPT !.pc = "waiting"])
       \/ body = "unencodable" /\ Raise(t)

\* urlopen() raises something other than HTTPError: refused, reset, timed out.
ConnectionFails(t) ==
    /\ call[t].pc = "waiting"
    /\ AttemptFails(t)

\* An operation of the attempt is over and the next one, of which the last is a
\* recv of the body, has the whole timeout again.
OperationEnds(t) ==
    /\ \/ call[t].pc = "waiting" /\ call[t].ops + 2 < SocketOperations
       \/ call[t].pc = "reading" /\ call[t].ops + 1 < SocketOperations
    /\ Continue(t, [call[t] EXCEPT !.ops = @ + 1])

HeadersArrive(t, status, header) ==
    /\ call[t].pc = "waiting"
    /\ Continue(t, [call[t] EXCEPT !.pc = "reading", !.ops = @ + 1,
                                   !.status = status, !.header = header])

\* A slip: the last body is replaced only by a better one.
BodyArrivesOverOld(t, isObject) ==
    LET body == IF isObject THEN call[t].attempt ELSE call[t].lastBody
    IN  /\ call[t].pc = "reading"
        /\ IF ~Accepted(call[t].status) THEN ErrorAnswer(t, body)
           ELSE IF call[t].header = NaiveDate THEN AttemptFails(t)
           ELSE Settle(t, call[t].status, body)

\* The body is a JSON object, or it is something else.
BodyArrives(t, isObject) ==
    LET body == IF isObject THEN call[t].attempt ELSE NoBody
    IN  /\ call[t].pc = "reading"
        /\ IF ~Accepted(call[t].status) THEN ErrorAnswer(t, body)
           ELSE IF call[t].header = NaiveDate THEN AttemptFails(t)
           ELSE Settle(t, call[t].status, body)

\* read() raises: an accepted answer is lost, an error answer has no body.
BodyLost(t) ==
    /\ call[t].pc = "reading"
    /\ IF Accepted(call[t].status) THEN AttemptFails(t) ELSE ErrorAnswer(t, NoBody)

\* time.sleep() returns and the next attempt goes out.
Wake(t) ==
    /\ call[t].pc = "sleeping"
    /\ call[t].timer = call[t].delay
    /\ Continue(t, [call[t] EXCEPT !.pc = "waiting", !.delay = 0])

TransportTick ==
    /\ \A t \in InFlight : call[t].timer < Limit(t)
    /\ ClockTick
    /\ call' = [t \in Threads |->
                  IF t \in InFlight
                  THEN [call[t] EXCEPT !.timer = @ + 1, !.age = @ + 1]
                  ELSE call[t]]
    /\ UNCHANGED <<probes, outcome>>

ThreadStep(t) ==
    \/ Begin(t)
    \/ ShortCircuit(t)
    \/ \E body \in Bodies : Encode(t, body)
    \/ OperationEnds(t)
    \/ ConnectionFails(t)
    \/ \E status \in Statuses, header \in Headers : HeadersArrive(t, status, header)
    \/ \E isObject \in BOOLEAN : BodyArrives(t, isObject)
    \/ BodyLost(t)
    \/ Wake(t)

TransportNext == TransportTick \/ \E t \in Threads : ThreadStep(t)

TransportSpec == TransportInit /\ [][TransportNext]_transportVars

-------------------------------------------------------------------------------
\* SPEC.md:392, "The total time spent must stay bounded": whatever the service
\* does, a call takes no longer than the timeout for each operation of its attempts
\* and, before each retry, the longer of the backoff ceiling and the Retry-After
\* cap.  The code bounds the length of an operation and of a delay and the number of
\* attempts; that an attempt takes SocketOperations at most is up to the network.
CallsEndInBudget == \A t \in Threads : call[t].age <= CallBudget

\* decision.py, resolve_decision: the test of step 1, and the accepted answer that
\* cannot be decoded.
Undecodable(o) == o.error = "" /\ o.status \in 1..399 /\ o.body = NoBody

Degraded(o) ==
    \/ o.error \in {"open", "exhausted"}
    \/ o.status >= 500
    \/ o.status \in {408, 429}
    \/ o.status = 0
    \/ Undecodable(o)

\* SPEC.md:400, "counting transport failures only": what the breaker is told of
\* a call agrees with what resolve_decision makes of its outcome.  The two lists of
\* http.py:111 and decision.py:305 are kept by hand.  They differ in one case: a
\* 2xx that cannot be decoded degrades the decision (decision.py:335) and is told to
\* the breaker as a success, though SPEC.md:226 counts it as a transport failure.
CountedIffDegraded ==
    \A t \in Threads :
        /\ outcome[t].verdict = "failure" => Degraded(outcome[t])
        /\ outcome[t].verdict = "success" /\ Degraded(outcome[t]) => Undecodable(outcome[t])

\* A body kept from an earlier attempt never decides: an outcome without an
\* error carries the body of its last attempt or none.
VerdictFromLastAttempt ==
    \A t \in Threads :
        outcome[t].error = "" => outcome[t].body \in {NoBody, outcome[t].attempt}

\* Towards the breaker, send() is one of the callers of BreakerCallers, with the
\* budget that follows from the timeouts and delays.
Usage == INSTANCE BreakerCallers WITH
    Callers    <- Threads,
    MayAbandon <- TRUE,
    MayReset   <- FALSE,
    inFlight   <- InFlight,
    age        <- [t \in Threads |-> call[t].age]

ImplementsCallers == Usage!Spec

\* One thread that sends one request after the other, whatever the answers, sees
\* the state machine of SPEC.md section 10.
ImplementsContract == Usage!ImplementsContract
===============================================================================
