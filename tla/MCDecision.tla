------------------------------ MODULE MCDecision ------------------------------
(* Instances of Decision for TLC: the answers and the settings to try. *)
EXTENDS DecisionContract

Str(s) == [str |-> s]
Num(n) == [num |-> n]
Flag(b) == [bool |-> b]
List(s) == [list |-> s]
Other == [num |-> 7]

\* An object with the given fields, those that are Null left out.
Obj(fields) == [obj |-> [k \in {f \in DOMAIN fields : Present(fields[f])} |-> fields[k]]]

Http(status, body) == [status |-> status, error |-> FALSE, body |-> body]

Entries ==
    { Str("p1"),
      Obj([action |-> Str("deny"), pass_through |-> Flag(TRUE)]),
      Obj([inlineAction |-> Str("block"), shadow |-> Str("no")]),
      Obj([action |-> Str("challenge"), passThrough |-> Num(1)]),
      Obj([id |-> Str("p2"), pass_through_mode |-> Str("yes")]) }

MatchedLists == {Null, Other} \union {List(s) : s \in SUBSET Entries}

\* Where the chain's action may stand.
ChainBodies ==
    { Obj([policy |-> Obj([action |-> a, decision |-> d, matched |-> m]), score |-> Num(70)]) :
        a \in {Null, Str("deny"), Str("quarantine")},
        d \in {Null, Str("challenge")},
        m \in MatchedLists }

ElsewhereBodies ==
    { Obj([policy |-> p, decision |-> d, action |-> a, matched_policies |-> m]) :
        p \in {Null, Other, Obj([decision |-> Str("step_up"), hits |-> List(Entries)])},
        d \in {Null, Str("pass"), Str("quarantine"), Obj([action |-> Str("block")]), Obj([x |-> Other])},
        a \in {Null, Str("deny"), Other},
        m \in {Null, List({}), List({Obj([inline_action |-> Str("deny"), shadow |-> Flag(TRUE)])})} }

\* Scores and signals in all their places, with no chain action.
ScoreBodies ==
    { Obj([score |-> s, risk_score |-> r, data |-> d, signals |-> g, risk_signals |-> h]) :
        s \in {Null, Num(0), Num(40), Str("88"), Str("high"), Str("nan"), NaN, Huge},
        r \in {Null, Num(69), Num(100)},
        d \in {Null, Obj([riskScore |-> NaN]), Obj([riskScore |-> Num(70), signals |-> List({Str("tor_ip")})])},
        g \in {Null, Other, List({Str("tor_ip"), Other}), List({Str("vpn"), Str("bot")})},
        h \in {Null, List({Str("vpn")})} }

Statuses == {0, 200, 204, 302, 400, 401, 403, 404, 408, 422, 429, 501, 503}

\* Failures carry along whatever body came last.
FailureOutcomes ==
    { [status |-> s, error |-> e, body |-> b] :
        s \in Statuses, e \in BOOLEAN,
        b \in {Null, Obj([score |-> Num(88)]), Obj([score |-> Huge]), Obj([policy |-> Obj([action |-> Str("deny")])])} }

ChainOutcomes == {Http(200, b) : b \in ChainBodies \union ElsewhereBodies}
ScoreOutcomes == {Http(200, b) : b \in ScoreBodies}
\* Only an exhausted or refused call has an error, and only such a call has no
\* status; an exhausted one reports a retryable status or none.
ReachableFailures ==
    {h \in FailureOutcomes : IF h.error THEN h.status \in {0, 429, 503} ELSE h.status # 0}

EveryOutcome == ChainOutcomes \union ScoreOutcomes \union ReachableFailures

\* build_config keeps challengeAt <= denyAt.
Settings(failureModes, thresholds, enforce) ==
    { [failureMode |-> f, clientErrorMode |-> g, challengeAt |-> t[1], denyAt |-> t[2],
       denyOn |-> {"tor_ip"}, challengeOn |-> {"vpn", "tor_ip"}, enforceShadow |-> e] :
        f \in failureModes, g \in failureModes, t \in thresholds, e \in enforce }

ChainSettings == Settings({"allow"}, {<<40, 70>>}, BOOLEAN)
ScoreSettings == Settings({"allow"}, {<<40, 70>>, <<0, 100>>, <<70, 70>>}, {FALSE})
FailureSettings == Settings(Actions, {<<40, 70>>}, {FALSE})
EverySetting == ChainSettings \union ScoreSettings \union FailureSettings
===============================================================================
