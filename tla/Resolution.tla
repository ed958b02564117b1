------------------------------ MODULE Resolution ------------------------------
(***************************************************************************)
(* resolve_decision() of traitx/decision.py and the extractors it reads the *)
(* answer with, as operators.                                               *)
(*                                                                          *)
(* A list is a set: the code never looks at the order.  Strings stand for   *)
(* what is left of them after trimming, lower case and the optional `$`;    *)
(* scores are integers, NaN or Huge.                                        *)
(***************************************************************************)
EXTENDS JsonValues

Actions == {"allow", "challenge", "deny"}

Severity(action) ==
    CASE action = "deny" -> 2
      [] action = "challenge" -> 1
      [] OTHER -> 0

\* A slip in parse_action(): an unknown name is passed on.
ParseActionLoosely(value) ==
    IF ~Is(value, "str") THEN "none"
    ELSE IF value.str \in {"deny", "block"} THEN "deny" ELSE value.str

\* _ACTION_ALIASES and parse_action(); "none" is Python's None.
ParseAction(value) ==
    IF ~Is(value, "str") THEN "none"
    ELSE CASE value.str \in {"allow", "pass", "accept", "approve"} -> "allow"
           [] value.str \in {"challenge", "stepup", "step_up", "review"} -> "challenge"
           [] value.str \in {"deny", "block", "reject", "decline"} -> "deny"
           [] OTHER -> "none"

AsBool(value) ==
    \/ Is(value, "bool") /\ value.bool
    \/ Is(value, "str") /\ value.str \in {"true", "1", "yes"}
    \/ Is(value, "num") /\ value.num # 0
    \/ Is(value, "nan") \/ Is(value, "huge")

\* float() of a string; the numerals are those the instances use.
Numerals == [text \in {"0", "40", "70", "88", "nan"} |->
                CASE text = "0" -> [num |-> 0] [] text = "40" -> [num |-> 40]
                  [] text = "70" -> [num |-> 70] [] text = "88" -> [num |-> 88]
                  [] text = "nan" -> NaN]

\* _as_number(value) or 0.0; NaN is truthy and stays.  An integer too large for
\* a float raises, which is for the caller to ask about.
AsNumber(value) ==
    IF Is(value, "num") \/ Is(value, "nan") \/ Is(value, "huge") THEN value
    ELSE IF Is(value, "str") /\ value.str \in DOMAIN Numerals
    THEN Numerals[value.str] ELSE [num |-> 0]

\* A slip in a comparison: "not below" for "at least".
NotBelow(score, limit) == ~(Is(score, "num") /\ score.num < limit)

\* score >= limit; NaN is not at least anything.
AtLeast(score, limit) == Is(score, "num") /\ score.num >= limit

-------------------------------------------------------------------------------
\* Four candidates, each the first value present among its keys; the first
\* candidate that parses wins.
ChainAction(body) ==
    LET candidates ==
            << First(Object(body, "policy"),
                     <<"action", "decision", "inline_action", "inlineAction">>),
               First(Object(body, "decision"), <<"action", "decision">>),
               Get(body, "decision"),
               Get(body, "action") >>
        parsed == {i \in DOMAIN candidates : ParseAction(candidates[i]) # "none"}
    IN  IF parsed = {} THEN "none" ELSE ParseAction(candidates[Min(parsed)])

\* MatchedPolicy: its action and flag; ids, names and event groups are data.
MatchedPolicy(entry) ==
    IF Is(entry, "str") THEN [action |-> "none", passThrough |-> FALSE]
    ELSE [action |-> ParseAction(First(entry, <<"action", "inline_action", "inlineAction">>)),
          passThrough |-> AsBool(First(entry, <<"pass_through", "passThrough",
                                                "shadow", "pass_through_mode">>))]

MatchedPolicies(body) ==
    LET nested == First(Object(body, "policy"),
                        <<"matched", "matched_policies", "matchedPolicies", "hits">>)
        raw    == IF Present(nested) THEN nested
                  ELSE First(body, <<"matched_policies", "matchedPolicies", "matched">>)
    IN  IF Is(raw, "list")
        THEN {MatchedPolicy(e) : e \in {x \in raw.list : Is(x, "str") \/ Is(x, "obj")}}
        ELSE {}

Score(body) ==
    LET keys == <<"score", "risk_score", "riskScore">>
        top  == First(body, keys)
    IN  AsNumber(IF Present(top) THEN top ELSE First(Object(body, "data"), keys))

Signals(body) ==
    LET keys == <<"signals", "risk_signals", "riskSignals">>
        top  == First(body, keys)
        raw  == IF Present(top) THEN top ELSE First(Object(body, "data"), keys)
    IN  IF Is(raw, "list") THEN {s.str : s \in {x \in raw.list : Is(x, "str")}} ELSE {}

\* Decision.has_device_context(), from the raw body.
DeviceContext(body) ==
    LET debug == Object(body, "debug")
    IN  ~\E k \in IF Is(debug, "obj") THEN DOMAIN debug.obj ELSE {} :
            Get(debug.obj[k], "reason") = [str |-> "no_enrichment_data"]

\* A slip in is_shadowed(): any() for all().
ShadowedByAny(matched, action) ==
    LET deciding == {p \in matched : p.action = action}
        relevant == IF deciding # {} THEN deciding ELSE matched
    IN  \E p \in relevant : p.passThrough

\* With no policy of the chain's own action, all matched policies are asked.
Shadowed(matched, action) ==
    LET deciding == {p \in matched : p.action = action}
        relevant == IF deciding # {} THEN deciding ELSE matched
    IN  relevant # {} /\ \A p \in relevant : p.passThrough

-------------------------------------------------------------------------------
\* Step 1: a transport failure.
TransportFailure(h) == h.error \/ h.status >= 500 \/ h.status \in {0, 408, 429}

\* A slip in step 2: only the statuses SPEC.md names.
ClientErrorListed(h) == h.status \in {400, 401, 403, 422}

\* Step 2: a client error (_CLIENT_ERROR_STATUSES are all above 400).
ClientError(h) == h.status >= 400

\* A slip in step 4: a score must lie above a threshold.
ByThresholdExclusive(score, c) ==
    IF AtLeast(score, c.denyAt + 1) THEN "deny"
    ELSE IF AtLeast(score, c.challengeAt + 1) THEN "challenge" ELSE "allow"

\* Step 4: the thresholds, then the signals, which may only escalate.
ByThreshold(score, c) ==
    IF AtLeast(score, c.denyAt) THEN "deny"
    ELSE IF AtLeast(score, c.challengeAt) THEN "challenge" ELSE "allow"

BySignals(signals, c) ==
    IF signals \intersect c.denyOn # {} THEN "deny"
    ELSE IF signals \intersect c.challengeOn # {} THEN "challenge" ELSE "allow"

Verdict(action, reason, observed, enforced, degraded) ==
    [action |-> action, reason |-> reason, observed |-> observed,
     enforced |-> enforced, degraded |-> degraded]

\* An exception: there is no decision.
Raised == Verdict("raised", "none", "none", FALSE, FALSE)

FromChain(chain, matched, c) ==
    LET shadowed == Shadowed(matched, chain)
        released == shadowed /\ ~c.enforceShadow
    IN  Verdict(IF released THEN "allow" ELSE chain,
                IF released THEN "shadow" ELSE "policy_match",
                chain, ~shadowed, FALSE)

\* A slip in step 4: the last rule that fires wins.
FromLastRule(score, signals, c) ==
    LET threshold == ByThreshold(score, c)
        signal    == BySignals(signals, c)
    IN  IF signal # "allow"
        THEN Verdict(signal, "signal_override", "none", TRUE, FALSE)
        ELSE Verdict(threshold,
                     IF threshold = "allow" THEN "no_match" ELSE "score_threshold",
                     "none", TRUE, FALSE)

FromScore(score, signals, c) ==
    LET threshold == ByThreshold(score, c)
        signal    == BySignals(signals, c)
    IN  IF Severity(signal) > Severity(threshold)
        THEN Verdict(signal, "signal_override", "none", TRUE, FALSE)
        ELSE Verdict(threshold,
                     IF threshold = "allow" THEN "no_match" ELSE "score_threshold",
                     "none", TRUE, FALSE)

\* A slip in resolve_decision: a score above the threshold goes first.
ResolveScoreFirst(h, c) ==
    LET chain == ChainAction(h.body)
    IN  IF Is(Score(h.body), "huge") THEN Raised
        ELSE IF TransportFailure(h) THEN Verdict(c.failureMode, "degraded", "none", FALSE, TRUE)
        ELSE IF ClientError(h) THEN Verdict(c.clientErrorMode, "client_error", "none", FALSE, TRUE)
        ELSE IF ~Present(h.body) THEN Verdict(c.failureMode, "degraded", "none", FALSE, TRUE)
        ELSE IF chain # "none" /\ ~AtLeast(Score(h.body), c.denyAt)
        THEN FromChain(chain, MatchedPolicies(h.body), c)
        ELSE FromScore(Score(h.body), Signals(h.body), c)

\* resolve_decision: the score is read before the first step, and float() raises
\* there for an integer beyond its range.  A body that is not an object reads as
\* an empty one until the step that asks for it.
Resolve(h, c) ==
    LET chain == ChainAction(h.body)
    IN  IF Is(Score(h.body), "huge") THEN Raised
        ELSE IF TransportFailure(h) THEN Verdict(c.failureMode, "degraded", "none", FALSE, TRUE)
        ELSE IF ClientError(h) THEN Verdict(c.clientErrorMode, "client_error", "none", FALSE, TRUE)
        ELSE IF ~Present(h.body) THEN Verdict(c.failureMode, "degraded", "none", FALSE, TRUE)
        ELSE IF chain # "none" THEN FromChain(chain, MatchedPolicies(h.body), c)
        ELSE FromScore(Score(h.body), Signals(h.body), c)
===============================================================================
