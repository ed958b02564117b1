# TLA+ models of the TraitX Python SDK

The SDK (`traitx/`) turns a risk event into an allow / challenge / deny decision by
one HTTP call, with retries and a circuit breaker, and has a small management client
for policies and lists. It is synchronous code on the standard library; the
concurrency is that of the host application, whose threads share one client.

Source references are `file:line` under `src/` (modules under `src/traitx/`).

## Inventory

| Component | State | Operations | Talks to | Hard behaviour |
| --- | --- | --- | --- | --- |
| Circuit breaker (`breaker.py`) | failure count, time of the last counted failure, probe flag, a lock | `allow_request`, `record_success`, `record_failure`, `reset`, `state` | nothing | threads interleave; answers of old calls arrive in any phase; the delay |
| Transport (`http.py`) | none but the breaker; locals of `send()` | `send` | breaker, network | retries, a timeout per socket operation, `Retry-After`, exceptions on odd paths, values kept from earlier attempts |
| Decision engine (`decision.py`, parts of `types.py`) | none (pure) | `resolve_decision` and extractors | outcome of `send` | many spellings, order of precedence, shadow mode, boundaries |
| Management client (`management.py`) | bearer token | policy switches, list entries, reads, audit | transport | retries of requests that may have been executed; late requests; a token that is replaced |
| Client facade (`client.py`) | config, one breaker, one transport | `evaluate` and shorthands, `get_fingerprint`, `health`, `breaker_state` | all of the above, `on_decision` hook | one breaker for all kinds of call; a hook that raises |
| Configuration (`config.py`) | none | `build_config`, `redact_key` | | which values are let through, and when they are trimmed |
| Serialisation (`serialize.py`, `types.py`) | none (pure) | `validate_event`, `serialize_event`, `to_iso`, `context_from_headers` | | reserved names, empty groups, zero against absent, time zones |
| Doctor (`doctor.py`, `client.py:217`) | none | a list of checks, two calls | client | what a check calls "ok"; the breaker between the calls |
| Flask example (`examples/flask_app.py`) | none but the client | login, OTP, transfer | client | an outage must not stop a login, a denial must not get through |

What makes them correct: the breaker admits one probe at a time, keeps probes apart, and
lets the application back in after an outage; `send()` makes a bounded number of
attempts and waits, tells the breaker of the failures that the decision engine calls
degraded, and never presents an old answer as a verdict; a decision follows the
normative algorithm, never lets a score override the policy chain and never lets a
failed call's body decide; a management call that returns was executed, under the token
it began with. What is posted is what the caller said. No order of other threads' calls
lets the application grant what a live policy denied, or refuse a login because the
service is down. Where the code falls short of this, a run shows it (see below).

## Modules

| Module | Models | Notes |
| --- | --- | --- |
| `CircuitBreaker` | `breaker.py` | the fields and one action per method, no callers |
| `BreakerContract` | `SPEC.md` section 10 | the documented state machine; abstract specification |
| `BreakerCallers` | threads that share the breaker | extends `CircuitBreaker`; a call is admitted, ages, ends |
| `HttpStatus` | the classes of status in `http.py` | shared by `Transport` and `Management` |
| `Transport` | `Transport.send` | extends `CircuitBreaker`; implements `BreakerCallers` |
| `Recovery` | `send()` against a service that comes back | implements `Transport`; what a step may count, and liveness |
| `JsonValues` | values of a JSON body, `_first` | shared by the pure modules |
| `Resolution` | `decision.py`, `severity` | pure operators |
| `Decision` | one decision | extends `Resolution`; properties |
| `DecisionContract` | `SPEC.md` sections 5.1 and 6 | reference definition |
| `Management` | `management.py` over the retry loop of `send()` | with a server and a network |
| `Serialize` | `serialize.py`, `to_iso`, the shorthands of `client.py` | pure operators |
| `Config` | `build_config` | pure operators |
| `ClientInputs` | construction of a client and one call | extends `Serialize` and `Config` |
| `PayloadFields` | | a second, independent statement of the payload of `ClientInputs` |
| `Client` | the methods of `client.py` | extends `BreakerCallers` and `Resolution`; a thread per method in progress |
| `FlaskApp` | `examples/flask_app.py` | extends `Client` |
| `MC*` | | constants for TLC |
| `BreakerProofs` | | theorems about `BreakerCallers` |
| `TransportProofs` | | theorems about `Transport`, with those of `BreakerProofs` carried over to `send()` |
| `RecoveryProofs` | | theorems about `Recovery` |
| `ResolutionProofs` | | lemmas about `Resolution`, for the next two |
| `DecisionProofs` | | theorems about `Decision` and `DecisionContract` |
| `FlaskProofs` | | theorems about `Client` and `FlaskApp` |
| `ManagementProofs` | | theorems about `Management` |
| `InputProofs` | | theorems about `ClientInputs` and `PayloadFields` |

Definitions named as a slip ("A slip in ...") are altered copies of the definition
below them, each with a mistake one could make in that code. They are not part of any
specification; substituting one must make the property named for it fail.

### How state and actions correspond to the code

*Breaker.* Every method body is under `_lock`, so a method is one action. The state
(closed / open / half-open) is computed from the count and the clock, in the code and
in the model (`State`). The model stores the time since the last counted failure
(`elapsed`) where the code stores the time itself, and stops counting at `ResetAfter`;
the count stops at `FailureThreshold`. Neither cut can be seen, since both are only
compared with those limits. `_opened_at = 0.0` is taken to lie in the past by at least
`reset_after_ms` on the monotonic clock. That only matters for a threshold of zero.
`sinceProbe` is a history variable.

*Callers.* `Admit` is `allow_request()` returning True. `Succeed` and `Fail` are a call
that ends in `record_success()` / `record_failure()`. `Abandon` is a call that ends by
an exception and tells the breaker nothing; the constant `MayAbandon` says whether there
are such calls. `Tick` ages every call and never carries one past `CallBudget`.

*Transport.* The record `call[t]` holds the locals of `send()`; `pc` is where the thread
stands: `encoding` (after `allow_request()`, before the `try`), `waiting` (in `urlopen`),
`reading` (in `read()`), `sleeping`. The socket timeout bounds each operation on the socket
(to connect, the TLS handshake, each `recv`) and not the attempt; `ops` counts those of an
attempt that are over, and `OperationEnds` begins the next with its whole timeout. Their
number is up to the network, so it is a constant, `SocketOperations`. `AttemptFails` is the
`except Exception` handler, `ErrorAnswer` the `except HTTPError` handler, `Settle` what both answer paths end in.
urllib returns 2xx and raises `HTTPError` for everything else, so the two paths are
chosen by the status; the test of `RETRYABLE_STATUSES` on the 2xx path (`http.py:83`)
can never be true and is left out. A body is the number of the attempt that brought it:
all the properties ask is where it came from and whether it is a JSON object.

*Recovery.* `healthy` becomes TRUE at most once and for good. `doomed` are the threads
whose attempt had begun before; these may still see anything, with one of
`OutageStatuses` as the status of an answer. The others see 200 without a delay.

*Decision.* JSON values are records whose one field is their type, so `isinstance` is a
test of the domain. Strings are what trimming, lower case and dropping the `$` leave.
Lists are sets: the code never looks at their order. A behaviour is one decision. A score
may also be NaN, for which every comparison is false, or an integer that `float()` refuses;
`Resolve` then returns `Raised`, as the code raises before its first step.

*Client.* A method is split where it waits: it runs up to `send()` and either is refused
and runs on to its end in the same step, or is admitted (`Send`), and `Receive` is the end
of `send()` with what the breaker is told and the rest of the method (`Resume`). That the
two are one step is sound because what follows `record_*()` touches no shared state.
`doing` is the method of each thread; `returned` is a history variable with what the last
step gave the application. `doctor()` makes two such calls, with a state between them. The
hook may keep the decision, replace it by a denial or by something that is no decision, or
raise. `SendRaises` is a `send()` that ends by an exception, as in `Transport`: no method
catches it, and the breaker is not told. `Transport` is not composed with `Client` but stands
behind it: it is shown to implement `BreakerCallers`, whose actions `Client` extends.

*Flask.* `Serve` is a request to a route up to the call, `Response` the answer as a function
of what the client returned. The example sets no hook; the run has hooks for the sake of
`Client`, and the properties of the routes speak of requests whose decision no hook changed.

*Inputs.* The options and the call come in, `Construct` is the constructor, `Post` the part
of a method before `send()`. Texts keep blanks where the code trims them, an address the slashes and
blanks at its end (`strip().rstrip("/")` leaves a blank that stood before the slashes),
timestamps their zone; a forwarded header is its list of hops. `WellFormed` is what the
dataclasses of `types.py` say of the fields of an event: which of them are groups, and that a group other
than the user has none in it. `PayloadFields` says for each key at the root and in each
group (`SaidAtRoot`, `SaidIn`, `EndUser`) what the call means by it, without the operators
of `Serialize` that drop or move fields. `Merged` is `@@` by another name, which the provers
can look into.

*Management.* A script makes one call after the other. A request put into `requests` may
be executed, refused or lost at any time, also after the attempt that sent it was given
up; only an attempt that still waits gets the answer, which carries the policy as it was
when the request was executed, or a body that cannot be decoded. The header with the
token is made once per call (`management.py:182`), so `bearer` is set in `Call` and
every attempt repeats it. The server is external: it is as simple as the client's use of
it allows. `CallRaises` stands for everything that ends a call before the first request
(no token, validation, open breaker).

## Runs

Passing runs:

| Run | Shows | Bounds |
| --- | --- | --- |
| `breaker_probes` | one probe at a time, alone in flight; the conjuncts of the inductive invariant | 3 callers, threshold 2, budget 3 < delay 4 |
| `breaker_stragglers` | the flag belongs to half-open; probes of an outage are a full delay apart | 3 callers, budget 4 = twice the delay, abandoned calls, manual resets |
| `transport_outcomes` | length of a call in socket operations and delays, what the breaker is told against what the decision engine makes of the outcome, which attempt an outcome reports; `send()` implements `BreakerCallers`, and the documented machine when calls do not overlap | 1 thread, 2 retries, a status of each kind, every form of `Retry-After`, both kinds of body, up to 3 socket operations per attempt, threshold 2 |
| `recovery` | every call returns; after the service is back only attempts that were lost before count as failures, and the breaker closes and stays closed; `send()` implements `BreakerCallers` with the computed budget | 2 threads, 1 retry, 2 socket operations per attempt, threshold 2, 200 and 503 |
| `decision` | precedence of the chain, live policies enforce, signals only escalate, only the configured mode decides a failed call, and the documented action is taken outside three shapes of answer | every subset of 5 kinds of matched policy, every place of the chain action, scores at and around (coinciding) thresholds, all classes of status, stale bodies, NaN and integers beyond a float |
| `management_calls` | a call that returns was executed; switches hold; one call, one token; what an audit of a quiet server reports is current | 2 calls, 1 retry, all operations, 2 tokens |
| `client_inputs` | what is posted is what was said; no hollow group, no hook, no event without an id, no unusable configuration | every call with the default options, every choice of options with one call |
| `flask_app` | a live denial or challenge is honoured; a login passes when `send()` returns a failure or the breaker is open; a good report of the doctor rests on an answer; a probe of whatever method is alone; only an exception out of `send()` leaves a probe flag without a call | 2 threads, threshold 2, delay 2, budget 1, 13 answers, 4 hooks, calls that raise |

Why the bounds are enough: two callers are needed for a straggler and a probe, three for
a straggler, a probe and a refused third; budgets lie on both sides of the delay; one
retry makes an attempt stale, two make the delays differ (`Backoff * 2^(n-1)`) and the
last attempt differ from the first; caps and timeouts are small but distinct where they
are compared. Two operations are the least an attempt has (headers and body), three the least
with one more before the headers. In `recovery` a call of two operations per attempt already
lasts longer than the half-open delay; a third per attempt makes two threads too many for the
time of a run. In `flask_app` threshold and delay are the least for which the breaker passes
through all its phases with a call of each kind in each of them; two threads are enough for a
straggler beside a probe. Two retries in `management_calls` give the same result
too, in ten times the time. Payload fields are independent of one another except within a
group, so the inputs vary one group at a time. The theorems have no bounds.

Runs that find a disagreement between code and documentation:

| Run | The code | The text |
| --- | --- | --- |
| `breaker_two_probes` | a late failure clears the flag of the probe that is out | "exactly one probe is admitted" (`breaker.py:54`) |
| `recovery_stuck` | an exception out of `send()` (a body that cannot be encoded, a `Retry-After` date without a zone) leaks the probe flag; the breaker stays half-open | `SPEC.md:407-409`, "Never raises" (`http.py:47`) |
| `flask_outage` | a 503 with an integer score beyond a float ends a login in an internal error: `float()` raises `OverflowError` before the status is looked at (`decision.py:84`) | "TraitX down must not block logins" (`flask_app.py:29`), "Never raises for network or API problems" (`client.py:73`) |
| `management_redirect` | a 3xx passes for success | "fail loudly" (`management.py:5-6`) |

Other differences between code and documents that the models reproduce and that have no
run of their own:

- A late success of a call admitted before the breaker opened closes an open breaker
  (`breaker.py:70`; `SPEC.md:404-409` leaves OPEN by the delay only). This is why
  `ImplementsContract` is stated for one caller.
- With `breaker_failure_threshold = 0`, which `build_config` accepts, no success closes the
  breaker (`breaker.py:44`, `SPEC.md:408`). The runs use thresholds of at least one.
- The socket timeout is per operation, so an attempt takes several, and `Retry-After` delays
  come on top (`http.py:66`, `:76`), while the documents have one timeout for each attempt,
  "connect + read", and about 7.5 s in all (`SPEC.md:343`, `:392`, `README.md:177`).
- A 2xx that is not a JSON object is told to the breaker as a success (`http.py:87`), and then
  degrades the decision ("a transport failure, not an allow", `decision.py:334`);
  `SPEC.md:226` with `SPEC.md:400` counts it. `CountedIffDegraded` names it as the one case in
  which the two differ.
- An exception out of `send()` leaves `evaluate()` too (`http.py:55`, `:102`, against
  `client.py:73`): the login of the example is then answered by an internal error.
- An unknown `policy.action` hides `policy.decision` (`decision.py:99`; `SPEC.md:210`:
  "treated as absent"). `AgreesWithSpec` excludes it.
- `build_config` accepts `http:// /`, which it makes `http:// ` (`config.py:96`).
- With no matched policy carrying the chain's action, the flags of the others decide
  (`decision.py:167`, `conformance/vectors.json:155`), and `policy.hits` is read before
  `matched_policies` (`decision.py:113`, `SPEC.md:198-201`). `AgreesWithSpec` excludes both.
- An addition whose answer is lost is sent and executed again (`http.py:124`;
  `SPEC.md:371` retries only what is "safe to repeat").
- A score of NaN decides as zero does, except that with `challenge_threshold = 0` it is below
  the threshold that zero meets.
- An attribute of `evaluate_transaction()` overrides the keyword of the same name even when it
  is None, and the value is then missing from the payload (`client.py:152`).
- `doctor()` raises for a probe id that is blank but not empty, for a hook that raises, and for
  a hook that returns something that is no decision (`client.py:220`: "Returns findings rather
  than raising"). Its check "risk api accepts the key" is good for a degraded decision and
  "device enrichment present" for an answer without a body; only the last check keeps the
  report from being good then.
- `get_fingerprint()`, list reads and audits of a 3xx, or of a 2xx that is not JSON, return as if
  there were nothing (`client.py:191-197`, `management.py:197`); `AuditIsCurrent` is about audits
  that report something.
- A transport that is passed in has a breaker of its own, and `breaker_state` then reports one
  that nobody uses (`client.py:64-66, 213-215`).
- A success of `health()`, of a lookup or of a management call resets the count of failures, and
  `health()` is refused, and so reports False, while the breaker is open.
- `decision.request_id` is not trimmed while the one in the payload is (`client.py:85`,
  `serialize.py:96`).
- A blank first hop in `X-Forwarded-For` yields the peer's address (`serialize.py:176-179`); a
  timestamp given as text is passed on unread (`types.py:178`).
- `redact_key()` shows the whole of a key of up to twelve characters (`config.py:65-70`).
- The example answers 500 when the collector's id is missing (`flask_app.py:35`), which is a
  `ValidationError`, not an outage; `DegradedLoginPasses` and
  `OutageNeverBlocks` speak of logins that have the id.

The length of a call. With the defaults (2.5 s timeout, 2 retries, `Retry-After` capped at
5 s) a call takes up to 3 * n * 2.5 + 2 * 5 s, where n is the number of socket operations an
attempt blocks on. The half-open delay is 30 s: the hypothesis of `OneProbeAtATime` holds for
n = 2 (25 s) and fails for n = 3 (32.5 s), which a connection with a TLS handshake, or
headers in two pieces, may need. Nothing in the code bounds n. So the defaults do not rule
out what `breaker_two_probes` shows; `ProbesSpaced`, `ProbeFlagOnlyHalfOpen`, `CallsReturn` and
`Recovers` do not need the hypothesis.

## Fairness

Only `Recovery` assumes any. Time diverges: strong fairness of the tick, because a
thread making calls that take no time keeps disabling it, and a monotonic clock does not
wait for that. A socket operation or sleep ends when it reaches its limit: weak fairness
of `Proceed(t)`; the code's limits are the socket timeout and the argument of `sleep`. That an
attempt has finitely many operations is an assumption on the network (`SocketOperations`). The
application keeps calling: weak fairness of `Request(t)`. It is needed because the breaker
has no timer of its own and half-open is only ever left by a call. Nothing obliges the service to
come back; `Recovers` speaks of what happens when it does.

## Proofs

Every theorem holds for all values of the constants: any number of threads, retries, calls
and tokens, any limits, any answer, body, hook and choice of options. The assumptions used
are the named ones in the modules and the hypotheses given here.

**`BreakerProofs`**, about `BreakerCallers`:

- `TypeCorrect`, `FlagOnlyHalfOpen`: `TypeOK`, `ProbeFlagOnlyHalfOpen`, inductive with the
  ranges of the counters.
- `FlagHasOwner`: `ProbeFlagHasOwner`, if `~MayAbandon`. With abandoned calls it is false,
  which is what `recovery_stuck` shows from the other end.
- `OneProbeAtATime`, `ProbesRunAlone`, `StragglersAreOlder`: `SingleProbe`,
  `ProbeRunsAlone` and `StragglersPredateTimer`, if the threshold is at least one and
  `CallBudget < ResetAfter`. `SingleProbe` is not inductive: a step that admits a probe
  must know that no other call is in flight that could clear its flag. The strengthening
  says that while the breaker is past its threshold with no probe out, every call in
  flight is at least as old as the half-open delay has run (`StragglersPredateTimer`), so
  that when the delay is over such a call would be past its budget; and that a probe that is
  out is alone (`ProbeRunsAlone`). `breaker_two_probes` shows the hypothesis is needed.
- `TimerRestarts`, `ProbesAreSpaced`: `TimerRestartsAfterProbe` and, from it,
  `ProbesSpaced`, with no hypothesis.
- `BreakerImplementsContract`: the refinement of `BreakerContract` when calls do not
  overlap, nobody resets by hand, and threshold and delay are at least one. Overlap breaks
  it, as described above.

**`TransportProofs`**, about `Transport`:

- `CallsInBudget`: `CallsEndInBudget`. The inductive invariant puts each thread's clock under
  what its phase allows: `AttemptLimit` for each attempt behind it, the longest delays in
  between, and a timeout for each operation of the current attempt that is over. The
  delays add up to `LongestDelays`, a recursive function; that it is a function at all, and grows, is proved
  by the least counterexample.
- `CountsWhatDegrades` and `VerdictsAreFresh`: what the breaker was told and which attempt
  the body is from are settled in the same step as the outcome; the invariant keeps the two
  together over the locals of a call. `Degraded` is written from `decision.py` and not with the
  list of `http.py` that the breaker is told by; the proof compares the two.
- `SendImplementsCallers`: every step of `Transport` is a step of `BreakerCallers` with the
  computed budget, or stutters. `BreakerProofs` is instantiated under this mapping, so that
  `SendProbesAlone` (one probe, alone in flight, if the threshold is at least one and the
  computed budget is below the half-open delay), `SendSpacesProbes`,
  `SendImplementsContract` (one thread) and part of `TransportTypeCorrect` follow without
  proving anything about the breaker again.
- `ErrorsBlameTheService`: an outcome with an error text has no answer, a 429 or a status of
  500 and above (`http.py:133`). It is a conjunct of the invariant that keeps outcomes and
  locals together.

**`RecoveryProofs`**, about `Recovery`:

- `RecoveryImplementsTransport`: every step of `Recovery` is a step of `Transport` or
  stutters, given that the statuses of an outage, 200 and the absent header are among those
  that `Transport` allows (`ServiceAssumption`). All of `TransportProofs` follows, and
  `RecoveryImplementsCallers` with it.
- `OnlyDoomedCounts`: `OnlyDoomedCount`. The invariant (`GoodNews`) says that an attempt which
  reads an answer of the service that is back reads a 200 with no header;
  what must be shown of a step is that a failure is told to the breaker only when a call
  ends, and that the call that ends was not one with good news. A retry of an attempt of the
  outage leaves `doomed` when it goes to sleep: `SettleByLast`, which settles by the status of
  an earlier attempt, breaks the property.
- `ClosedForGood`: with no doomed attempt left a closed breaker stays closed. This is the
  safety half of `Recovers`; that the breaker comes to be closed is the other.

**`DecisionProofs`** and `ResolutionProofs`, about `Decision`: the invariant is that a decision
is `Resolve` of what went in, and the properties are facts about `Resolve`.

- `DecisionTypeCorrect`, `LivePoliciesEnforce`, `FailuresDecideAlike`.
- `ChainOverrides`, `SignalsEscalate`, `NaNDecides` compare two resolutions; they rest on
  lemmas that say which fields each extractor reads, so that writing another field changes
  nothing for it.
- `SpecIsFollowed`: for every body with only the spellings of `SPEC.md` 5.1
  (`DocumentedSpelling`: nothing under the other keys that the code tries, no action by one
  of the four names that the document does not list) `AgreesWithSpec` holds: the code takes
  the documented action. Both searches are brought to one form, value by value. Without the
  hypothesis the property is false (`policy.inline_action` is read by the code only). The
  other hypothesis, that an outcome with an error has status 0, 429 or one from 500, is
  what `ErrorsBlameTheService` proves of `send()`.

**`FlaskProofs`**, about `Client` and `FlaskApp`:

- `ClientFlagHasOwner`, if no call ends by an exception, and `ClientProbesAlone` carry the
  theorems about the breaker over to the client, whose steps are shown to be steps of
  `BreakerCallers`, those of a `send()` that raises included.
- `OnlyRaisesOrphan`: `OnlyRaiseOrphansFlag`, without that hypothesis. A flag that had an owner
  and has none was left by a call that ended without `record_*()`; the invariant says that each
  thread in flight has a method that waits, so that this was `SendRaises`.
- `GateAlwaysHolds`, `DoctorOkIsAnswered`: the invariant says that what the last step
  returned was resolved from one outcome, of the call made for it, and that a login or a
  transfer that sent something had an id. The rest is `ResolutionProofs`.
- `DegradedLoginsPass`: `DegradedLoginPasses`, if both failure modes are "allow". The property
  is about calls that `send()` returns from, with a score that can be read; without either
  restriction it is `OutageNeverBlocks`, which `flask_outage` refutes by such a score, and an
  exception out of `send()` would as well.

**`ManagementProofs`**, about `Management`: `ManagementTypeCorrect` and `OneCallOneToken`; and,
if the server refuses with 400 and above only (`RefusalsRaise`; `management_redirect` shows
why), `ReturnedIsExecuted`, `SwitchesHold` and `AuditsAreCurrent`. The invariant says which
requests may still be under way and what the server made of those that are not: a call that
has returned "ok" has an executed request, and while it is `quiet` every request that can
still be executed is one of its own, which does what has been done already.

**`InputProofs`**, about `ClientInputs`:

- `HooksAreRefused`, because no attribute and no group has the name of a field of the event's
  own, and `UsableConfigPosts`, because nothing is posted before there is a configuration and
  `build_config` trims before it looks.
- `PayloadSays` and `GroupsAreFilled`: `PayloadSaysCall` and `NoHollowGroup`, for every call that
  is `WellFormed`. The invariant says that what is posted is `SerializeEvent` of an event that is
  `Valid`. What the payload `Carries` of such an event is worked out once, key by key; the
  groups are then facts about `Compact`: a field that is no group says the same after it, zero
  and False included (`CompactScalars`), and what is left has no None and nothing empty in it
  (`CompactFilled`). The address is the one group that is compacted twice; the second time
  changes nothing (`AddressSays`). A keyword and an attribute of the same name are excluded
  by the property, as above.

Assumptions on the constants are named where they are declared and evaluated by every run:
the limits are numbers, `NoHeader` is no date (`HeaderKindsAssumption`), what a service may
answer in an outage and after it is among the statuses (`ServiceAssumption`), calls have the
types of `types.py` (`InputsAssumption`).

Model-checked only: liveness (`CallsReturn`, `Recovers` of `Recovery`). Fairness and ENABLED are
out of the prover's reach. Every invariant and every safety property of a passing run is
stated by a theorem, on the hypotheses given above.

## Not modelled, and why

- The number of socket operations of an attempt is bounded by `SocketOperations`, whatever they
  are for. Name resolution, which no timeout bounds, is taken to take no time.
- Time lost to the scheduler: a thread leaves a phase at its limit at the latest.
- The format of URLs, headers, log lines and error texts; redaction of keys.
- Infinite scores, which compare as a large number does; `to_dict`; the informational fields
  of a decision (score, risk level, latency), which on a failed call may come from the body
  of an earlier attempt.
- The casing of header names; most of the plain fields of users and addresses, which all go
  through the same line of `_compact`; values nested deeper than the fields of an address.
- The command line of the doctor; the exports; options that `build_config` only copies.
- In the Flask example, the stand-ins, `/healthz` and logins with a wrong password, none of
  which calls the client.

## Plan

Done: 1. `CircuitBreaker`, `BreakerContract`, `BreakerCallers`, `BreakerProofs`;
2. `Transport`, `Recovery`; 3. `Decision`, `DecisionContract`; 4. `Management`;
5. `Resolution` apart from `Decision`, with NaN and integers beyond a float;
6. `Serialize`, `Config`, `ClientInputs`; 7. `Client`, with the doctor, and `FlaskApp`;
8. `Management` with tokens and the audit.

9. The proofs about `Management`; 10. about `Decision` and the inputs; 11. about `Transport`,
the client and the application; 12. the payload without recursion, and its proofs;
13. the safety part of `Recovery`; 14. the hypothesis of `SpecIsFollowed`, from `Transport`;
15. attempts of several socket operations, calls of the client that end by an exception.

Left: a `Client` whose calls are those of `Transport`, step by step, in place of the refinement
that stands between the two; the pages and the list bookkeeping of the management server; the
command line of the doctor.
