------------------------------- MODULE Decision -------------------------------
(***************************************************************************)
(* One decision: an outcome and the settings go in, and what                *)
(* resolve_decision() makes of them comes out.                              *)
(***************************************************************************)
EXTENDS Resolution

CONSTANTS
    Outcomes,       \* the HttpOutcomes that come in
    Configurations  \* the settings they are resolved under

\* HttpOutcome: _safe_json() hands over an object or None.
ASSUME OutcomesAssumption ==
    \A h \in Outcomes :
        /\ h = [status |-> h.status, error |-> h.error, body |-> h.body]
        /\ h.status \in Nat /\ h.error \in BOOLEAN
        /\ h.body = Null \/ Is(h.body, "obj")

\* What build_config() lets through (config.py:113, :130-131).
ASSUME ConfigurationsAssumption ==
    \A c \in Configurations :
        /\ {c.failureMode, c.clientErrorMode} \subseteq Actions
        /\ {c.challengeAt, c.denyAt} \subseteq Int
        /\ c.challengeAt <= c.denyAt

VARIABLES
    http,           \* the outcome: status, transport error or not, body
    config,         \* the settings that matter to a decision
    decision        \* what resolve_decision returned

decisionVars == <<http, config, decision>>

Undecided == Verdict("none", "none", "none", FALSE, FALSE)

DecisionInit ==
    /\ http \in Outcomes
    /\ config \in Configurations
    /\ decision = Undecided

Decide ==
    /\ decision = Undecided
    /\ decision' = Resolve(http, config)
    /\ UNCHANGED <<http, config>>

DecisionSpec == DecisionInit /\ [][Decide]_decisionVars

-------------------------------------------------------------------------------
Decided == decision # Undecided

With(body, key, value) ==
    [obj |-> [k \in DOMAIN body.obj \union {key} |->
                IF k = key THEN value ELSE body.obj[k]]]

\* client.py:73, "never raises for network or API problems", as far as it goes:
\* an answer is turned into one of the three actions with one of the seven
\* reasons, unless its score is an integer that float() refuses.
DecisionTypeOK ==
    (Decided /\ ~Is(Score(http.body), "huge")) =>
        /\ decision.action \in Actions
        /\ decision.reason \in {"policy_match", "shadow", "score_threshold",
                               "signal_override", "no_match", "degraded", "client_error"}
        /\ decision.observed \in Actions \union {"none"}
        /\ decision.degraded => ~decision.enforced

\* SPEC.md:271-273: once the chain has spoken, no score and no signal changes
\* the decision, so a local threshold cannot override an allowlist.
ChainOverridesScore ==
    decision.observed # "none" =>
        \A score \in {0, 100}, signals \in SUBSET (config.denyOn \union config.challengeOn) :
            LET body == With(With(http.body, "score", [num |-> score]),
                             "signals", [list |-> {[str |-> s] : s \in signals}])
            IN  Resolve([http EXCEPT !.body = body], config) = decision

\* SPEC.md:278-280: a live policy that matched and carries the chain's action
\* enforces it, whatever shadow policies matched beside it.
LivePolicyEnforces ==
    \A p \in MatchedPolicies(http.body) :
        (decision.observed # "none" /\ p.action = decision.observed /\ ~p.passThrough)
            => decision.action = decision.observed

\* SPEC.md:262: signals escalate a decision and never soften it; once the chain
\* has spoken they leave it alone.
SignalsOnlyEscalate ==
    (Decided /\ Present(http.body)) =>
        LET silent == With(http.body, "signals", [list |-> {}])
            quiet  == Resolve([http EXCEPT !.body = silent], config)
        IN  /\ Severity(decision.action) >= Severity(quiet.action)
            /\ decision.observed # "none" => decision = quiet

\* http.py:132-137 may hand over the body of an earlier attempt with a failure:
\* whatever a failed call carries along, only the configured mode decides it.
BodyNeverDecidesFailure ==
    (Decided /\ decision # Raised /\ (http.error \/ http.status >= 400)) =>
        \A other \in Outcomes :
            LET instead == Resolve([http EXCEPT !.body = other.body], config)
            IN  instead \in {decision, Raised}

\* SPEC.md section 7 has the score at 0 when it is unavailable: a score that is no
\* number decides as a score of 0 does, as long as 0 itself is below the
\* thresholds, wherever it stands and whether it is a number or a text.
NaNDecidesLikeZero ==
    (Decided /\ Is(Score(http.body), "nan") /\ config.challengeAt > 0) =>
        LET zero == With(http.body, "score", [num |-> 0])
        IN  decision = Resolve([http EXCEPT !.body = zero], config)
===============================================================================
