----------------------------- MODULE DecisionProofs -----------------------------
(***************************************************************************)
(* Proofs about Decision, for every answer and every setting.               *)
(*                                                                          *)
(* What comes out is resolve_decision() of what went in, so the properties  *)
(* are facts about Resolve.  Most of them compare two resolutions: the      *)
(* extractors read disjoint fields, so writing one field leaves what the    *)
(* others found as it was.                                                  *)
(***************************************************************************)
EXTENDS DecisionContract, ResolutionProofs

DecisionInvariant ==
    /\ http \in Outcomes
    /\ config \in Configurations
    /\ decision \in {Undecided, Resolve(http, config)}

\* Nothing is decided at first, and the decision is resolve_decision()'s.
LEMMA DecisionsResolve == DecisionSpec => []DecisionInvariant
<1>1. DecisionInit => DecisionInvariant
  BY DEF DecisionInit, DecisionInvariant
<1>2. DecisionInvariant /\ [Decide]_decisionVars => DecisionInvariant'
  BY DEF DecisionInvariant, Decide, decisionVars
<1>3. QED
  BY <1>1, <1>2, PTL DEF DecisionSpec

\* Before a decision nothing is observed.
LEMMA UndecidedObservesNothing == Undecided.observed = "none" /\ Raised.observed = "none"
  BY DEF Undecided, Raised, Verdict

-------------------------------------------------------------------------------
(***************************************************************************)
(* Writing one field of a body.                                             *)
(***************************************************************************)
\* The written field holds the value, and the others are as they were.
LEMMA GetWith ==
  ASSUME NEW body, NEW key, NEW value, Is(body, "obj")
  PROVE  LET new == With(body, key, value)
         IN  /\ Is(new, "obj") /\ Present(new)
             /\ Get(new, key) = value
             /\ \A k : k # key => Get(new, k) = Get(body, k)
<1> DEFINE fields == [k \in DOMAIN body.obj \union {key} |->
                        IF k = key THEN value ELSE body.obj[k]]
           new == [obj |-> fields]
<1>1. new = With(body, key, value) /\ DOMAIN new = {"obj"} /\ new.obj = fields
  BY DEF With
<1>2. DOMAIN fields = DOMAIN body.obj \union {key}
  OBVIOUS
<1>3. \A k \in DOMAIN fields : fields[k] = IF k = key THEN value ELSE body.obj[k]
  OBVIOUS
<1> HIDE DEF fields
<1>4. Is(new, "obj") /\ Present(new)
  BY <1>1 DEF Is, Present
<1> HIDE DEF new
<1>5. \A k : Get(new, k) = IF k \in DOMAIN fields THEN fields[k] ELSE Null
  BY <1>1, <1>4 DEF Get
<1>6. Get(new, key) = value
  BY <1>2, <1>3, <1>5
<1>7. ASSUME NEW k, k # key PROVE Get(new, k) = Get(body, k)
  <2>1. CASE k \in DOMAIN body.obj
    BY <1>2, <1>3, <1>5, <1>7, <2>1 DEF Get
  <2>2. CASE k \notin DOMAIN body.obj
    BY <1>2, <1>5, <1>7, <2>2 DEF Get
  <2>3. QED
    BY <2>1, <2>2
<1>8. QED
  BY <1>1, <1>4, <1>6, <1>7

\* A new score is the score, and the chain, the policies and the signals stay.
LEMMA WithScore ==
  ASSUME NEW body, NEW score \in Int, Is(body, "obj")
  PROVE  LET new == With(body, "score", [num |-> score])
         IN  /\ Is(new, "obj") /\ Present(new)
             /\ Score(new) = [num |-> score]
             /\ ChainAction(new) = ChainAction(body)
             /\ MatchedPolicies(new) = MatchedPolicies(body)
             /\ Signals(new) = Signals(body)
<1> DEFINE value == [num |-> score]
           new == With(body, "score", value)
           keys == <<"score", "risk_score", "riskScore">>
           others == <<"signals", "risk_signals", "riskSignals">>
<1>1. /\ Is(new, "obj") /\ Present(new)
      /\ Get(new, "score") = value
      /\ \A k : k # "score" => Get(new, k) = Get(body, k)
  BY GetWith
<1> HIDE DEF new
<1>2. Present(value) /\ Is(value, "num")
  BY DEF Present, Is
<1>3. First(new, keys) = value
  BY <1>1, <1>2, FirstKey
<1>4. Score(new) = value
  BY <1>2, <1>3 DEF Score, AsNumber
<1>5. ChainAction(new) = ChainAction(body) /\ MatchedPolicies(new) = MatchedPolicies(body)
  BY <1>1, ChainActionSame, MatchedPoliciesSame
<1>6. Signals(new) = Signals(body)
  <2>1. Object(new, "data") = Object(body, "data")
    BY <1>1 DEF Object
  <2>2. First(new, others) = First(body, others)
    BY <1>1, FirstSame
  <2>3. QED
    BY <2>1, <2>2 DEF Signals
<1>7. QED
  BY <1>1, <1>4, <1>5, <1>6 DEF new

\* New signals leave the chain, the policies and the score as they are.
LEMMA WithSignals ==
  ASSUME NEW body, NEW signals, Is(body, "obj")
  PROVE  LET new == With(body, "signals", [list |-> signals])
         IN  /\ Is(new, "obj") /\ Present(new)
             /\ Score(new) = Score(body)
             /\ ChainAction(new) = ChainAction(body)
             /\ MatchedPolicies(new) = MatchedPolicies(body)
             /\ Signals(new) = {s.str : s \in {x \in signals : Is(x, "str")}}
<1> DEFINE value == [list |-> signals]
           new == With(body, "signals", value)
           keys == <<"signals", "risk_signals", "riskSignals">>
           others == <<"score", "risk_score", "riskScore">>
<1>1. /\ Is(new, "obj") /\ Present(new)
      /\ Get(new, "signals") = value
      /\ \A k : k # "signals" => Get(new, k) = Get(body, k)
  BY GetWith
<1> HIDE DEF new
<1>2. Present(value) /\ Is(value, "list") /\ value.list = signals
  BY DEF Present, Is
<1>3. First(new, keys) = value
  BY <1>1, <1>2, FirstKey
<1>4. Signals(new) = {s.str : s \in {x \in signals : Is(x, "str")}}
  BY <1>2, <1>3 DEF Signals
<1>5. ChainAction(new) = ChainAction(body) /\ MatchedPolicies(new) = MatchedPolicies(body)
  BY <1>1, ChainActionSame, MatchedPoliciesSame
<1>6. Score(new) = Score(body)
  <2>1. Object(new, "data") = Object(body, "data")
    BY <1>1 DEF Object
  <2>2. First(new, others) = First(body, others)
    BY <1>1, FirstSame
  <2>3. QED
    BY <2>1, <2>2 DEF Score
<1>7. QED
  BY <1>1, <1>4, <1>5, <1>6 DEF new

\* The outcome with another body is of the same status and error.
LEMMA OtherBody ==
  ASSUME NEW h \in Outcomes, NEW body
  PROVE  LET g == [h EXCEPT !.body = body]
         IN  /\ g.body = body /\ g.status = h.status /\ g.error = h.error
             /\ TransportFailure(g) <=> TransportFailure(h)
             /\ ClientError(g) <=> ClientError(h)
<1> DEFINE g == [h EXCEPT !.body = body]
<1>1. g.body = body /\ g.status = h.status /\ g.error = h.error
  BY OutcomesAssumption
<1> HIDE DEF g
<1>2. QED
  BY <1>1 DEF TransportFailure, ClientError, g

-------------------------------------------------------------------------------
(***************************************************************************)
(* What every decision is like.                                             *)
(***************************************************************************)
Reasons == {"policy_match", "shadow", "score_threshold", "signal_override", "no_match",
            "degraded", "client_error"}

Verdicts == [action : Actions, reason : Reasons, observed : Actions \union {"none"},
             enforced : BOOLEAN, degraded : BOOLEAN]

\* The chain's verdict has the chain's action or lets the call through.
LEMMA ChainVerdict ==
  ASSUME NEW chain \in Actions, NEW matched, NEW c
  PROVE  FromChain(chain, matched, c) \in {v \in Verdicts : ~v.degraded}
<1> DEFINE shadowed == Shadowed(matched, chain)
<1>1. shadowed \in BOOLEAN
  BY DEF Shadowed
<1> HIDE DEF shadowed
<1>2. QED
  BY <1>1 DEF FromChain, Verdict, Verdicts, Actions, Reasons, shadowed

\* So has the score's.
LEMMA ScoreVerdict ==
  ASSUME NEW score, NEW signals, NEW c
  PROVE  FromScore(score, signals, c) \in {v \in Verdicts : ~v.degraded}
<1>1. ByThreshold(score, c) \in Actions /\ BySignals(signals, c) \in Actions
  BY DEF ByThreshold, BySignals, Actions
<1>2. QED
  BY <1>1 DEF FromScore, Verdict, Verdicts, Actions, Reasons

\* client.py:73, "never raises for network or API problems": every answer becomes
\* one of the three actions for one of the seven reasons, and a degraded decision
\* is never an enforced one, unless float() refuses the score.
THEOREM DecisionTypeCorrect == DecisionSpec => []DecisionTypeOK
<1>1. DecisionInvariant => DecisionTypeOK
  <2> SUFFICES ASSUME DecisionInvariant, Decided, ~Is(Score(http.body), "huge")
               PROVE  /\ decision \in Verdicts
                      /\ decision.degraded => ~decision.enforced
    BY DEF DecisionTypeOK, Verdicts, Reasons
  <2>1. decision = Resolve(http, config)
    BY DEF DecisionInvariant, Decided
  <2>2. config.failureMode \in Actions /\ config.clientErrorMode \in Actions
    BY ConfigurationsAssumption DEF DecisionInvariant
  <2>3. ASSUME NEW a \in Actions, NEW r \in {"degraded", "client_error"}
        PROVE  LET v == Verdict(a, r, "none", FALSE, TRUE)
               IN  v \in Verdicts /\ ~v.enforced
    BY DEF Verdict, Verdicts, Reasons
  <2>4. CASE TransportFailure(http) \/ ClientError(http) \/ ~Present(http.body)
    BY <2>1, <2>2, <2>3, <2>4 DEF Resolve
  <2>5. CASE ~(TransportFailure(http) \/ ClientError(http) \/ ~Present(http.body))
    BY <2>1, <2>5, ChainActions, ChainVerdict, ScoreVerdict DEF Resolve
  <2>6. QED
    BY <2>4, <2>5
<1>2. QED
  BY <1>1, DecisionsResolve, PTL

\* SPEC.md:278-280: a live policy that carries the chain's action enforces it.
THEOREM LivePoliciesEnforce == DecisionSpec => []LivePolicyEnforces
<1>1. DecisionInvariant => LivePolicyEnforces
  <2> SUFFICES ASSUME DecisionInvariant, NEW p \in MatchedPolicies(http.body),
                      decision.observed # "none", p.action = decision.observed,
                      ~p.passThrough
               PROVE  decision.action = decision.observed
    BY DEF LivePolicyEnforces
  <2> DEFINE chain == ChainAction(http.body)
             matched == MatchedPolicies(http.body)
  <2>1. decision = Resolve(http, config)
    BY UndecidedObservesNothing DEF DecisionInvariant
  <2>2. decision.observed = chain /\ decision = FromChain(chain, matched, config)
    BY <2>1, ObservedIsChain
  <2>3. ~Shadowed(matched, chain)
    BY <2>2, LiveIsNotShadowed
  <2>4. QED
    BY <2>2, <2>3, NotShadowedIsEnforced
<1>2. QED
  BY <1>1, DecisionsResolve, PTL

\* SPEC.md:271-273: once the chain has spoken, no score and no signal changes the
\* decision, so a local threshold cannot override an allowlist.
THEOREM ChainOverrides == DecisionSpec => []ChainOverridesScore
<1>1. DecisionInvariant => ChainOverridesScore
  <2> SUFFICES ASSUME DecisionInvariant, decision.observed # "none",
                      NEW score \in {0, 100}, NEW signals
               PROVE  LET body == With(With(http.body, "score", [num |-> score]),
                                       "signals", [list |-> {[str |-> s] : s \in signals}])
                      IN  Resolve([http EXCEPT !.body = body], config) = decision
    BY DEF ChainOverridesScore
  <2> DEFINE chain == ChainAction(http.body)
             scored == With(http.body, "score", [num |-> score])
             body == With(scored, "signals", [list |-> {[str |-> s] : s \in signals}])
             h == [http EXCEPT !.body = body]
  <2>1. decision = Resolve(http, config)
    BY UndecidedObservesNothing DEF DecisionInvariant
  <2>2. /\ ~TransportFailure(http) /\ ~ClientError(http) /\ chain # "none"
        /\ decision = FromChain(chain, MatchedPolicies(http.body), config)
    BY <2>1, ObservedIsChain
  <2>3. Is(http.body, "obj")
    BY <2>2, ChainIsInObject
  <2>4. /\ Is(scored, "obj") /\ Score(scored) = [num |-> score]
        /\ ChainAction(scored) = chain /\ MatchedPolicies(scored) = MatchedPolicies(http.body)
    BY <2>3, WithScore
  <2>5. /\ Present(body) /\ Score(body) = Score(scored)
        /\ ChainAction(body) = chain /\ MatchedPolicies(body) = MatchedPolicies(http.body)
    BY <2>4, WithSignals
  <2> HIDE DEF body, scored, chain
  <2>6. h.body = body /\ ~TransportFailure(h) /\ ~ClientError(h)
    BY <2>2, OtherBody DEF DecisionInvariant
  <2>7. ~Is([num |-> score], "huge")
    BY DEF Is
  <2> HIDE DEF h
  <2>8. Resolve(h, config) = FromChain(chain, MatchedPolicies(http.body), config)
    BY <2>2, <2>4, <2>5, <2>6, <2>7 DEF Resolve
  <2>9. QED
    BY <2>2, <2>8 DEF h, body, scored
<1>2. QED
  BY <1>1, DecisionsResolve, PTL

-------------------------------------------------------------------------------
(***************************************************************************)
(* Comparing two resolutions.                                               *)
(***************************************************************************)
\* With no signals the score alone decides, and signals only add severity to it.
LEMMA SignalsAddSeverity ==
  ASSUME NEW score, NEW signals, NEW c
  PROVE  Severity(FromScore(score, signals, c).action) >=
            Severity(FromScore(score, {}, c).action)
<1> DEFINE threshold == ByThreshold(score, c)
           signal == BySignals(signals, c)
<1>1. threshold \in Actions /\ signal \in Actions
  BY DEF ByThreshold, BySignals, Actions
<1>2. BySignals({}, c) = "allow"
  BY DEF BySignals
<1>3. FromScore(score, {}, c).action = threshold
  BY <1>1, <1>2 DEF FromScore, Verdict, Severity, Actions
<1>4. FromScore(score, signals, c).action
        = IF Severity(signal) > Severity(threshold) THEN signal ELSE threshold
  BY DEF FromScore, Verdict
<1>5. Severity(threshold) \in Nat /\ Severity(signal) \in Nat
  BY DEF Severity
<1> HIDE DEF threshold, signal
<1>6. QED
  BY <1>3, <1>4, <1>5

\* SPEC.md:262: signals escalate a decision and never soften it; once the chain
\* has spoken they leave it alone.
THEOREM SignalsEscalate == DecisionSpec => []SignalsOnlyEscalate
<1>1. DecisionInvariant => SignalsOnlyEscalate
  <2> DEFINE silent == With(http.body, "signals", [list |-> {}])
             h == [http EXCEPT !.body = silent]
             quiet == Resolve(h, config)
  <2> SUFFICES ASSUME DecisionInvariant, Decided, Present(http.body)
               PROVE  /\ Severity(decision.action) >= Severity(quiet.action)
                      /\ decision.observed # "none" => decision = quiet
    BY DEF SignalsOnlyEscalate
  <2>1. decision = Resolve(http, config)
    BY DEF DecisionInvariant, Decided
  <2>2. Is(http.body, "obj")
    BY NullIsAbsent, OutcomesAssumption DEF DecisionInvariant
  <2>3. /\ Present(silent) /\ Score(silent) = Score(http.body)
        /\ ChainAction(silent) = ChainAction(http.body)
        /\ MatchedPolicies(silent) = MatchedPolicies(http.body)
        /\ Signals(silent) = {}
    <3>1. {s.str : s \in {x \in {} : Is(x, "str")}} = {}
      OBVIOUS
    <3>2. QED
      BY <2>2, <3>1, WithSignals
  <2> HIDE DEF silent
  <2>4. /\ h.body = silent
        /\ TransportFailure(h) <=> TransportFailure(http)
        /\ ClientError(h) <=> ClientError(http)
    BY OtherBody DEF DecisionInvariant
  <2> DEFINE byScore == /\ ~Is(Score(http.body), "huge") /\ ~TransportFailure(http)
                        /\ ~ClientError(http) /\ ChainAction(http.body) = "none"
  <2>5. CASE byScore
    <3>1. decision = FromScore(Score(http.body), Signals(http.body), config)
      BY <2>1, <2>5 DEF Resolve
    <3>2. Resolve(h, config) = FromScore(Score(http.body), {}, config)
      <4> HIDE DEF h
      <4>1. QED
        BY <2>3, <2>4, <2>5 DEF Resolve
    <3>3. decision.observed = "none"
      BY <3>1 DEF FromScore, Verdict
    <3>4. QED
      BY <3>1, <3>2, <3>3, SignalsAddSeverity
  <2>6. CASE ~byScore
    <3>1. Resolve(h, config) = decision
      <4> HIDE DEF h
      <4>1. QED
        BY <2>1, <2>3, <2>4, <2>6 DEF Resolve
    <3>2. Severity(decision.action) \in Nat
      BY DEF Severity
    <3>3. QED
      BY <3>1, <3>2
  <2>7. QED
    BY <2>5, <2>6
<1>2. QED
  BY <1>1, DecisionsResolve, PTL

\* http.py:132-137: whatever a failed call carries along, only the configured mode
\* decides it.
THEOREM FailuresDecideAlike == DecisionSpec => []BodyNeverDecidesFailure
<1>1. DecisionInvariant => BodyNeverDecidesFailure
  <2> SUFFICES ASSUME DecisionInvariant, Decided, decision # Raised,
                      http.error \/ http.status >= 400, NEW other \in Outcomes
               PROVE  Resolve([http EXCEPT !.body = other.body], config) \in {decision, Raised}
    BY DEF BodyNeverDecidesFailure
  <2> DEFINE h == [http EXCEPT !.body = other.body]
  <2>1. decision = Resolve(http, config) /\ ~Is(Score(http.body), "huge")
    BY DEF DecisionInvariant, Decided, Resolve
  <2>2. TransportFailure(http) \/ ClientError(http)
    BY DEF TransportFailure, ClientError
  <2>3. /\ TransportFailure(h) <=> TransportFailure(http)
        /\ ClientError(h) <=> ClientError(http)
    BY OtherBody DEF DecisionInvariant
  <2> HIDE DEF h
  <2>4. Resolve(h, config) \in {decision, Raised}
    BY <2>1, <2>2, <2>3 DEF Resolve
  <2>5. QED
    BY <2>4 DEF h
<1>2. QED
  BY <1>1, DecisionsResolve, PTL

\* SPEC.md section 7: a score that is no number decides as a score of 0 does, as
\* long as 0 is below the thresholds.
THEOREM NaNDecides == DecisionSpec => []NaNDecidesLikeZero
<1>1. DecisionInvariant => NaNDecidesLikeZero
  <2> DEFINE zero == With(http.body, "score", [num |-> 0])
             h == [http EXCEPT !.body = zero]
  <2> SUFFICES ASSUME DecisionInvariant, Decided, Is(Score(http.body), "nan"),
                      config.challengeAt > 0
               PROVE  decision = Resolve(h, config)
    BY DEF NaNDecidesLikeZero
  <2>1. decision = Resolve(http, config)
    BY DEF DecisionInvariant, Decided
  <2>2. Is(http.body, "obj")
    <3>1. http.body = Null => Score(http.body) = [num |-> 0]
      BY NothingFirst, NoFields, NullIsAbsent DEF Score, AsNumber, Object, Is, Null
    <3>2. ~Is([num |-> 0], "nan")
      BY DEF Is
    <3>3. QED
      BY <3>1, <3>2, OutcomesAssumption DEF DecisionInvariant
  <2>3. /\ Present(zero) /\ Score(zero) = [num |-> 0]
        /\ ChainAction(zero) = ChainAction(http.body)
        /\ MatchedPolicies(zero) = MatchedPolicies(http.body)
        /\ Signals(zero) = Signals(http.body)
    BY <2>2, WithScore
  <2> HIDE DEF zero
  <2>4. /\ h.body = zero
        /\ TransportFailure(h) <=> TransportFailure(http)
        /\ ClientError(h) <=> ClientError(http)
    BY OtherBody DEF DecisionInvariant
  <2> HIDE DEF h
  <2>5. ByThreshold(Score(http.body), config) = "allow"
    BY DEF ByThreshold, AtLeast, Is
  <2>6. ByThreshold([num |-> 0], config) = "allow"
    <3>1. config.challengeAt > 0 /\ config.denyAt > 0
      BY ConfigurationsAssumption DEF DecisionInvariant
    <3>2. QED
      BY <3>1, ConfigurationsAssumption DEF ByThreshold, AtLeast, DecisionInvariant
  <2>7. Present(http.body)
    BY <2>2 DEF Present, Is
  <2>8. ~Is(Score(http.body), "huge") /\ ~Is([num |-> 0], "huge")
    BY DEF Is
  <2>9. \A g : FromScore(Score(http.body), g, config) = FromScore([num |-> 0], g, config)
    BY <2>5, <2>6 DEF FromScore
  <2>10. QED
    BY <2>1, <2>3, <2>4, <2>7, <2>8, <2>9 DEF Resolve
<1>2. QED
  BY <1>1, DecisionsResolve, PTL

-------------------------------------------------------------------------------
(***************************************************************************)
(* SPEC.md sections 5.1 and 6.  The code tries more keys and knows more     *)
(* names than the document; where an answer uses none of those the two read *)
(* the same from it.  First the searches of both, value by value.           *)
(***************************************************************************)
\* The least index is the one below which there is none.
LEMMA LeastIs ==
  ASSUME NEW found, found \subseteq 1..5, NEW i \in found, \A j \in found : i <= j
  PROVE  Min(found) = i
<1>1. Min(found) \in found /\ Min(found) <= i /\ i <= Min(found)
  BY LeastIndex
<1>2. \A j \in found : j \in Int
  OBVIOUS
<1>3. \A j, k \in Int : (j <= k /\ k <= j) => j = k
  OBVIOUS
<1>4. QED
  BY <1>1, <1>2, <1>3, Zenon

\* FirstOf takes the one value before which none is present, or there is none.
LEMMA FirstFound ==
  ASSUME NEW values, DOMAIN values \subseteq 1..5, NEW i \in DOMAIN values,
         Present(values[i]), \A j \in DOMAIN values : j < i => ~Present(values[j])
  PROVE  FirstOf(values) = values[i]
<1> DEFINE there == {j \in DOMAIN values : Present(values[j])}
<1>1. there \subseteq 1..5 /\ i \in there /\ \A j \in there : i <= j
  OBVIOUS
<1>2. FirstOf(values) = IF there = {} THEN Null ELSE values[Min(there)]
  BY DEF FirstOf
<1> HIDE DEF there
<1>3. QED
  BY <1>1, <1>2, LeastIs

\* It is Null when there is none.
LEMMA NoneFound ==
  ASSUME NEW values, \A j \in DOMAIN values : ~Present(values[j])
  PROVE  FirstOf(values) = Null
  BY DEF FirstOf

\* What is there, or else the next.
OrElse(value, next) == IF Present(value) THEN value ELSE next

\* FirstOf tries its candidates one after the other.
LEMMA FirstOfThree ==
  ASSUME NEW u, NEW v, NEW w
  PROVE  FirstOf(<<u, v, w>>) = OrElse(u, OrElse(v, OrElse(w, Null)))
<1> DEFINE values == <<u, v, w>>
<1>1. DOMAIN values = 1..3 /\ values[1] = u /\ values[2] = v /\ values[3] = w
  OBVIOUS
<1> SUFFICES FirstOf(values) = OrElse(u, OrElse(v, OrElse(w, Null)))
  OBVIOUS
<1> HIDE DEF values
<1>2. CASE Present(u)
  <2>1. FirstOf(values) = values[1]
    BY <1>1, <1>2, FirstFound
  <2>2. QED
    BY <1>1, <1>2, <2>1 DEF OrElse
<1>3. CASE ~Present(u) /\ Present(v)
  <2>1. FirstOf(values) = values[2]
    BY <1>1, <1>3, FirstFound
  <2>2. QED
    BY <1>1, <1>3, <2>1 DEF OrElse
<1>4. CASE ~Present(u) /\ ~Present(v) /\ Present(w)
  <2>1. FirstOf(values) = values[3]
    BY <1>1, <1>4, FirstFound
  <2>2. QED
    BY <1>1, <1>4, <2>1 DEF OrElse
<1>5. CASE ~Present(u) /\ ~Present(v) /\ ~Present(w)
  <2>1. FirstOf(values) = Null
    BY <1>1, <1>5, NoneFound
  <2>2. QED
    BY <1>5, <2>1 DEF OrElse
<1>6. QED
  BY <1>2, <1>3, <1>4, <1>5

\* So it does with a fourth.
LEMMA FirstOfFour ==
  ASSUME NEW u, NEW v, NEW w, NEW x
  PROVE  FirstOf(<<u, v, w, x>>) = OrElse(u, OrElse(v, OrElse(w, OrElse(x, Null))))
<1> DEFINE values == <<u, v, w, x>>
<1>1. /\ DOMAIN values = 1..4
      /\ values[1] = u /\ values[2] = v /\ values[3] = w /\ values[4] = x
  OBVIOUS
<1> SUFFICES FirstOf(values) = OrElse(u, OrElse(v, OrElse(w, OrElse(x, Null))))
  OBVIOUS
<1> HIDE DEF values
<1>2. CASE Present(u)
  <2>1. FirstOf(values) = values[1]
    BY <1>1, <1>2, FirstFound
  <2>2. QED
    BY <1>1, <1>2, <2>1 DEF OrElse
<1>3. CASE ~Present(u) /\ Present(v)
  <2>1. FirstOf(values) = values[2]
    BY <1>1, <1>3, FirstFound
  <2>2. QED
    BY <1>1, <1>3, <2>1 DEF OrElse
<1>4. CASE ~Present(u) /\ ~Present(v) /\ Present(w)
  <2>1. FirstOf(values) = values[3]
    BY <1>1, <1>4, FirstFound
  <2>2. QED
    BY <1>1, <1>4, <2>1 DEF OrElse
<1>5. CASE ~Present(u) /\ ~Present(v) /\ ~Present(w) /\ Present(x)
  <2>1. FirstOf(values) = values[4]
    BY <1>1, <1>5, FirstFound
  <2>2. QED
    BY <1>1, <1>5, <2>1 DEF OrElse
<1>6. CASE ~Present(u) /\ ~Present(v) /\ ~Present(w) /\ ~Present(x)
  <2>1. FirstOf(values) = Null
    BY <1>1, <1>6, NoneFound
  <2>2. QED
    BY <1>6, <2>1 DEF OrElse
<1>7. QED
  BY <1>2, <1>3, <1>4, <1>5, <1>6

\* _first() is FirstOf over what its keys lead to.
LEMMA FirstIsFirstOf ==
  ASSUME NEW source, NEW keys, NEW values, DOMAIN keys \subseteq 1..5,
         DOMAIN values = DOMAIN keys,
         \A i \in DOMAIN keys : values[i] = Get(source, keys[i])
  PROVE  First(source, keys) = FirstOf(values)
<1> DEFINE there == {i \in DOMAIN values : Present(values[i])}
           found == {i \in DOMAIN keys : Present(Get(source, keys[i]))}
<1>1. there = found
  OBVIOUS
<1>2. FirstOf(values) = IF there = {} THEN Null ELSE values[Min(there)]
  BY DEF FirstOf
<1>3. First(source, keys) = IF found = {} THEN Null ELSE Get(source, keys[Min(found)])
  BY DEF First
<1>4. found # {} => Min(found) \in DOMAIN keys
  BY LeastIndex
<1> HIDE DEF there, found
<1>5. QED
  BY <1>1, <1>2, <1>3, <1>4

\* _first() with three keys,
LEMMA FirstThree ==
  ASSUME NEW source, NEW a, NEW b, NEW c
  PROVE  First(source, <<a, b, c>>)
           = OrElse(Get(source, a), OrElse(Get(source, b), OrElse(Get(source, c), Null)))
<1> DEFINE keys == <<a, b, c>>
           values == <<Get(source, a), Get(source, b), Get(source, c)>>
<1>1. /\ DOMAIN keys \subseteq 1..5 /\ DOMAIN values = DOMAIN keys
      /\ \A i \in DOMAIN keys : values[i] = Get(source, keys[i])
  OBVIOUS
<1>2. First(source, keys) = FirstOf(values)
  <2> HIDE DEF keys, values
  <2>1. QED
    BY <1>1, FirstIsFirstOf
<1>3. QED
  BY <1>2, FirstOfThree

\* with four,
LEMMA FirstFour ==
  ASSUME NEW source, NEW a, NEW b, NEW c, NEW d
  PROVE  First(source, <<a, b, c, d>>)
           = OrElse(Get(source, a), OrElse(Get(source, b),
               OrElse(Get(source, c), OrElse(Get(source, d), Null))))
<1> DEFINE keys == <<a, b, c, d>>
           values == <<Get(source, a), Get(source, b), Get(source, c), Get(source, d)>>
<1>1. /\ DOMAIN keys \subseteq 1..5 /\ DOMAIN values = DOMAIN keys
      /\ \A i \in DOMAIN keys : values[i] = Get(source, keys[i])
  OBVIOUS
<1>2. First(source, keys) = FirstOf(values)
  <2> HIDE DEF keys, values
  <2>1. QED
    BY <1>1, FirstIsFirstOf
<1>3. QED
  BY <1>2, FirstOfFour

\* and with two.
LEMMA FirstTwo ==
  ASSUME NEW source, NEW a, NEW b
  PROVE  First(source, <<a, b>>) = OrElse(Get(source, a), OrElse(Get(source, b), Null))
<1> DEFINE keys == <<a, b>>
           values == <<Get(source, a), Get(source, b)>>
<1>1. /\ DOMAIN keys \subseteq 1..5 /\ DOMAIN values = DOMAIN keys
      /\ \A i \in DOMAIN keys : values[i] = Get(source, keys[i])
  OBVIOUS
<1>6. values[1] = Get(source, a) /\ values[2] = Get(source, b) /\ DOMAIN values = 1..2
  OBVIOUS
<1> SUFFICES First(source, keys) = OrElse(values[1], OrElse(values[2], Null))
  OBVIOUS
<1> HIDE DEF keys, values
<1>2. First(source, keys) = FirstOf(values)
  BY <1>1, FirstIsFirstOf
<1>3. CASE Present(values[1])
  BY <1>2, <1>6, <1>3, FirstFound DEF OrElse
<1>4. CASE ~Present(values[1]) /\ Present(values[2])
  BY <1>2, <1>6, <1>4, FirstFound DEF OrElse
<1>5. CASE ~Present(values[1]) /\ ~Present(values[2])
  BY <1>2, <1>6, <1>5, NoneFound DEF OrElse
<1>7. QED
  BY <1>3, <1>4, <1>5

-------------------------------------------------------------------------------
\* An action, or else the next.
OrNext(action, next) == IF action # "none" THEN action ELSE next

\* The code and the document look for the first action that parses.
LEMMA FirstParsed ==
  ASSUME NEW actions, DOMAIN actions \subseteq 1..5,
         NEW there, there = {i \in DOMAIN actions : actions[i] # "none"},
         NEW chain, chain = IF there = {} THEN "none" ELSE actions[Min(there)]
  PROVE  /\ DOMAIN actions = 1..4 =>
              chain = OrNext(actions[1], OrNext(actions[2], OrNext(actions[3], actions[4])))
         /\ DOMAIN actions = 1..5 =>
              chain = OrNext(actions[1], OrNext(actions[2], OrNext(actions[3],
                        OrNext(actions[4], actions[5]))))
<1>1. ASSUME NEW i \in DOMAIN actions, actions[i] # "none",
             \A j \in DOMAIN actions : j < i => actions[j] = "none"
      PROVE  chain = actions[i]
  <2>1. there \subseteq 1..5 /\ i \in there /\ \A j \in there : i <= j
    BY <1>1
  <2>2. QED
    BY <2>1, LeastIs
<1>2. (\A j \in DOMAIN actions : actions[j] = "none") => chain = "none"
  OBVIOUS
<1>3. ASSUME DOMAIN actions = 1..4
      PROVE  chain = OrNext(actions[1], OrNext(actions[2], OrNext(actions[3], actions[4])))
  <2>1. CASE actions[1] # "none"
    BY <1>1, <1>3, <2>1 DEF OrNext
  <2>2. CASE actions[1] = "none" /\ actions[2] # "none"
    BY <1>1, <1>3, <2>2 DEF OrNext
  <2>3. CASE actions[1] = "none" /\ actions[2] = "none" /\ actions[3] # "none"
    BY <1>1, <1>3, <2>3 DEF OrNext
  <2>4. CASE actions[1] = "none" /\ actions[2] = "none" /\ actions[3] = "none"
    <3>1. CASE actions[4] # "none"
      BY <1>1, <1>3, <2>4, <3>1 DEF OrNext
    <3>2. CASE actions[4] = "none"
      BY <1>2, <1>3, <2>4, <3>2 DEF OrNext
    <3>3. QED
      BY <3>1, <3>2
  <2>5. QED
    BY <2>1, <2>2, <2>3, <2>4
<1>4. ASSUME DOMAIN actions = 1..5
      PROVE  chain = OrNext(actions[1], OrNext(actions[2], OrNext(actions[3],
                       OrNext(actions[4], actions[5]))))
  <2>1. CASE actions[1] # "none"
    BY <1>1, <1>4, <2>1 DEF OrNext
  <2>2. CASE actions[1] = "none" /\ actions[2] # "none"
    BY <1>1, <1>4, <2>2 DEF OrNext
  <2>3. CASE actions[1] = "none" /\ actions[2] = "none" /\ actions[3] # "none"
    BY <1>1, <1>4, <2>3 DEF OrNext
  <2>4. CASE /\ actions[1] = "none" /\ actions[2] = "none" /\ actions[3] = "none"
             /\ actions[4] # "none"
    BY <1>1, <1>4, <2>4 DEF OrNext
  <2>5. CASE /\ actions[1] = "none" /\ actions[2] = "none" /\ actions[3] = "none"
             /\ actions[4] = "none"
    <3>1. CASE actions[5] # "none"
      BY <1>1, <1>4, <2>5, <3>1 DEF OrNext
    <3>2. CASE actions[5] = "none"
      BY <1>2, <1>4, <2>5, <3>2 DEF OrNext
    <3>3. QED
      BY <3>1, <3>2
  <2>6. QED
    BY <2>1, <2>2, <2>3, <2>4, <2>5
<1>5. QED
  BY <1>3, <1>4

-------------------------------------------------------------------------------
\* Names of actions that the code knows and SPEC.md 5.1 does not.
NewAlias(value) == Is(value, "str") /\ value.str \in {"approve", "review", "reject", "decline"}

\* A body with no spelling but those of SPEC.md 5.1: none of the other keys the code
\* tries holds anything, and no action goes by another name.
DocumentedSpelling(body) ==
    LET policy == Object(body, "policy")
        inner  == Object(body, "decision")
        data   == Object(body, "data")
    IN  /\ \A key \in {"inline_action", "inlineAction", "matchedPolicies"} : ~Present(Get(policy, key))
        /\ ~Present(Get(inner, "decision"))
        /\ \A key \in {"riskScore", "riskSignals", "matchedPolicies", "matched"} :
              ~Present(Get(body, key))
        /\ \A key \in {"score", "risk_score", "risk_signals", "riskSignals"} :
              ~Present(Get(data, key))
        /\ \A value \in {Get(policy, "action"), Get(policy, "decision"), Get(inner, "action"),
                         Get(body, "decision"), Get(body, "action")} : ~NewAlias(value)
        /\ \A entry \in DocumentedMatched(body) :
              ~NewAlias(First(entry, <<"action", "inline_action", "inlineAction">>))

\* parse_action() gives the documented names their documented meaning.
LEMMA SameName ==
  ASSUME NEW value, ~NewAlias(value)
  PROVE  ParseAction(value) = DocumentedAction(value)
  BY DEF NewAlias, ParseAction, DocumentedAction

\* None names no action.
LEMMA AbsentIsNoAction == \A value : ~Present(value) => ParseAction(value) = "none"
  BY DEF Present, Is, ParseAction

\* extract_chain_action() tries its four candidates in order.
LEMMA ChainInOrder ==
  ASSUME NEW body
  PROVE  LET one == First(Object(body, "policy"),
                          <<"action", "decision", "inline_action", "inlineAction">>)
             two == First(Object(body, "decision"), <<"action", "decision">>)
         IN  ChainAction(body)
               = OrNext(ParseAction(one), OrNext(ParseAction(two),
                   OrNext(ParseAction(Get(body, "decision")), ParseAction(Get(body, "action")))))
<1> DEFINE one == First(Object(body, "policy"),
                        <<"action", "decision", "inline_action", "inlineAction">>)
           two == First(Object(body, "decision"), <<"action", "decision">>)
           three == Get(body, "decision")
           four == Get(body, "action")
           candidates == <<one, two, three, four>>
           parsed == {i \in DOMAIN candidates : ParseAction(candidates[i]) # "none"}
           actions == <<ParseAction(one), ParseAction(two), ParseAction(three), ParseAction(four)>>
<1>1. ChainAction(body) = IF parsed = {} THEN "none" ELSE ParseAction(candidates[Min(parsed)])
  BY DEF ChainAction
<1> HIDE DEF one, two, three, four
<1>2. /\ DOMAIN candidates = 1..4 /\ DOMAIN actions = 1..4
      /\ \A i \in 1..4 : actions[i] = ParseAction(candidates[i])
  OBVIOUS
<1>3. /\ actions[1] = ParseAction(one) /\ actions[2] = ParseAction(two)
      /\ actions[3] = ParseAction(three) /\ actions[4] = ParseAction(four)
  OBVIOUS
<1>4. parsed = {i \in DOMAIN actions : actions[i] # "none"} /\ parsed \subseteq 1..4
  BY <1>2
<1> HIDE DEF candidates, actions, parsed
<1>5. parsed # {} => Min(parsed) \in 1..4
  <2>1. parsed \subseteq 1..5
    BY <1>4
  <2>2. parsed # {} => Min(parsed) \in parsed
    BY <2>1, LeastIndex
  <2>3. QED
    BY <1>4, <2>2
<1>6. ChainAction(body) = IF parsed = {} THEN "none" ELSE actions[Min(parsed)]
  BY <1>1, <1>2, <1>5
<1>7. DOMAIN actions \subseteq 1..5
  BY <1>2
<1>8. ChainAction(body)
        = OrNext(actions[1], OrNext(actions[2], OrNext(actions[3], actions[4])))
  BY <1>2, <1>4, <1>6, <1>7, FirstParsed
<1>9. QED
  BY <1>3, <1>8 DEF one, two, three, four

\* SPEC.md:200 has five locations.
LEMMA DocumentedInOrder ==
  ASSUME NEW body
  PROVE  LET policy == Object(body, "policy")
         IN  DocumentedChain(body)
               = OrNext(DocumentedAction(Get(policy, "action")),
                 OrNext(DocumentedAction(Get(policy, "decision")),
                 OrNext(DocumentedAction(Get(Object(body, "decision"), "action")),
                 OrNext(DocumentedAction(Get(body, "decision")),
                        DocumentedAction(Get(body, "action"))))))
<1> DEFINE one == Get(Object(body, "policy"), "action")
           two == Get(Object(body, "policy"), "decision")
           three == Get(Object(body, "decision"), "action")
           four == Get(body, "decision")
           five == Get(body, "action")
           locations == <<one, two, three, four, five>>
           there == {i \in DOMAIN locations : DocumentedAction(locations[i]) # "none"}
           actions == <<DocumentedAction(one), DocumentedAction(two), DocumentedAction(three),
                        DocumentedAction(four), DocumentedAction(five)>>
<1>1. DocumentedChain(body) = IF there = {} THEN "none" ELSE DocumentedAction(locations[Min(there)])
  BY DEF DocumentedChain
<1> HIDE DEF one, two, three, four, five
<1>2. /\ DOMAIN locations = 1..5 /\ DOMAIN actions = 1..5
      /\ \A i \in 1..5 : actions[i] = DocumentedAction(locations[i])
  OBVIOUS
<1>3. /\ actions[1] = DocumentedAction(one) /\ actions[2] = DocumentedAction(two)
      /\ actions[3] = DocumentedAction(three) /\ actions[4] = DocumentedAction(four)
      /\ actions[5] = DocumentedAction(five)
  OBVIOUS
<1>4. there = {i \in DOMAIN actions : actions[i] # "none"} /\ there \subseteq 1..5
  BY <1>2
<1> HIDE DEF locations, actions, there
<1>5. there # {} => Min(there) \in 1..5
  BY <1>4, LeastIndex
<1>6. DocumentedChain(body) = IF there = {} THEN "none" ELSE actions[Min(there)]
  BY <1>1, <1>2, <1>5
<1>7. DOMAIN actions \subseteq 1..5
  BY <1>2
<1>8. DocumentedChain(body)
        = OrNext(actions[1], OrNext(actions[2], OrNext(actions[3], OrNext(actions[4], actions[5]))))
  BY <1>2, <1>4, <1>6, <1>7, FirstParsed
<1>9. QED
  BY <1>3, <1>8 DEF one, two, three, four, five

\* The code looks at policy.action and policy.decision as one candidate; that is
\* the same unless the first hides the second.
LEMMA SameChain ==
  ASSUME NEW body, DocumentedSpelling(body), ~HidesAction(body)
  PROVE  ChainAction(body) = DocumentedChain(body)
<1> DEFINE policy == Object(body, "policy")
           one == Get(policy, "action")
           two == Get(policy, "decision")
           three == Get(Object(body, "decision"), "action")
           four == Get(body, "decision")
           five == Get(body, "action")
<1>1. /\ First(policy, <<"action", "decision", "inline_action", "inlineAction">>)
           = OrElse(one, OrElse(two, Null))
      /\ First(Object(body, "decision"), <<"action", "decision">>) = OrElse(three, Null)
  BY FirstFour, FirstTwo DEF DocumentedSpelling, OrElse
<1>2. \A value \in {one, two, three, four, five} : ParseAction(value) = DocumentedAction(value)
  BY SameName DEF DocumentedSpelling
<1>3. ~(Present(one) /\ DocumentedAction(one) = "none" /\ DocumentedAction(two) # "none")
  BY DEF HidesAction
<1>4. /\ ChainAction(body)
           = OrNext(ParseAction(OrElse(one, OrElse(two, Null))),
             OrNext(ParseAction(OrElse(three, Null)),
             OrNext(ParseAction(four), ParseAction(five))))
      /\ DocumentedChain(body)
           = OrNext(DocumentedAction(one), OrNext(DocumentedAction(two),
             OrNext(DocumentedAction(three), OrNext(DocumentedAction(four), DocumentedAction(five)))))
  BY <1>1, ChainInOrder, DocumentedInOrder
<1> HIDE DEF policy, one, two, three, four, five
<1>5. ParseAction(OrElse(three, Null)) = ParseAction(three)
  BY AbsentIsNoAction, NullIsAbsent DEF OrElse
<1>6. ParseAction(OrElse(one, OrElse(two, Null)))
        = IF Present(one) THEN ParseAction(one) ELSE ParseAction(two)
  BY AbsentIsNoAction, NullIsAbsent DEF OrElse
<1>7. ParseAction(OrElse(one, OrElse(two, Null)))
        = OrNext(DocumentedAction(one), DocumentedAction(two))
  BY <1>2, <1>3, <1>6, AbsentIsNoAction DEF OrNext
<1>8. QED
  BY <1>2, <1>4, <1>5, <1>7 DEF OrNext

-------------------------------------------------------------------------------
\* The list of matched policies is the same one, unless there are two.
LEMMA SameList ==
  ASSUME NEW body, DocumentedSpelling(body), ~TwoLists(body)
  PROVE  MatchedPolicies(body)
           = {MatchedPolicy(e) : e \in {x \in DocumentedMatched(body) : Is(x, "str") \/ Is(x, "obj")}}
<1> DEFINE policy == Object(body, "policy")
           one == Get(policy, "matched")
           two == Get(policy, "matched_policies")
           three == Get(body, "matched_policies")
           four == Get(policy, "hits")
           nested == First(policy, <<"matched", "matched_policies", "matchedPolicies", "hits">>)
           top == First(body, <<"matched_policies", "matchedPolicies", "matched">>)
           raw == IF Present(nested) THEN nested ELSE top
           list == FirstOf(<<one, two, three, four>>)
<1>1. nested = OrElse(one, OrElse(two, OrElse(four, Null))) /\ top = OrElse(three, Null)
  BY FirstFour, FirstThree DEF DocumentedSpelling, OrElse
<1>2. list = OrElse(one, OrElse(two, OrElse(three, OrElse(four, Null))))
  BY FirstOfFour
<1>3. ~(Present(four) /\ Present(three))
  BY DEF TwoLists
<1>4. /\ MatchedPolicies(body)
           = IF Is(raw, "list")
             THEN {MatchedPolicy(e) : e \in {x \in raw.list : Is(x, "str") \/ Is(x, "obj")}}
             ELSE {}
      /\ DocumentedMatched(body) = IF Is(list, "list") THEN list.list ELSE {}
  BY DEF MatchedPolicies, DocumentedMatched
<1> HIDE DEF one, two, three, four, nested, top, list
<1>5. raw = list
  BY <1>1, <1>2, <1>3, NullIsAbsent DEF OrElse
<1>6. QED
  BY <1>4, <1>5

\* An entry of that list is read as the document says.
LEMMA SameEntry ==
  ASSUME NEW entry, ~NewAlias(First(entry, <<"action", "inline_action", "inlineAction">>)),
         ~Is(entry, "str")
  PROVE  /\ MatchedPolicy(entry).action = DocumentedPolicyAction(entry)
         /\ MatchedPolicy(entry).passThrough <=> DocumentedFlag(entry)
<1> DEFINE value == First(entry, <<"action", "inline_action", "inlineAction">>)
           flag == First(entry, <<"pass_through", "passThrough", "shadow", "pass_through_mode">>)
<1>1. /\ DocumentedPolicyAction(entry) = DocumentedAction(value)
  BY FirstThree, FirstOfThree DEF DocumentedPolicyAction
<1>2. DocumentedFlag(entry) <=> AsBool(flag)
  BY FirstFour, FirstOfFour DEF DocumentedFlag
<1>3. MatchedPolicy(entry) = [action |-> ParseAction(value), passThrough |-> AsBool(flag)]
  BY Zenon DEF MatchedPolicy
<1> HIDE DEF value, flag
<1>4. MatchedPolicy(entry).action = ParseAction(value)
  BY <1>3
<1>5. MatchedPolicy(entry).passThrough <=> AsBool(flag)
  <2>1. \A a, f : [action |-> a, passThrough |-> f].passThrough = f
    OBVIOUS
  <2>2. MatchedPolicy(entry).passThrough = AsBool(flag)
    BY <1>3, <2>1, Zenon
  <2>3. QED
    BY <2>2, Zenon
<1>6. ParseAction(value) = DocumentedAction(value)
  BY SameName DEF value
<1>7. QED
  BY <1>1, <1>2, <1>4, <1>5, <1>6, Zenon

\* What is no object names no action.
LEMMA CarrierIsObject ==
  ASSUME NEW entry, DocumentedPolicyAction(entry) # "none"
  PROVE  Is(entry, "obj") /\ ~Is(entry, "str")
<1> SUFFICES ASSUME ~Is(entry, "obj") PROVE FALSE
  BY DEF Is
<1>1. FirstOf(<<Null, Null, Null>>) = Null
  BY FirstOfThree, NullIsAbsent DEF OrElse
<1>2. DocumentedPolicyAction(entry) = DocumentedAction(Null)
  BY <1>1, NoFields DEF DocumentedPolicyAction
<1>3. QED
  BY <1>2, NullIsAbsent DEF DocumentedAction

\* is_shadowed() asks all policies when none carries the chain's action, and with
\* none of those it asks the carriers as SPEC.md:278-282 does.
LEMMA SameShadow ==
  ASSUME NEW body, DocumentedSpelling(body), ~TwoLists(body), ~NobodyCarries(body),
         ChainAction(body) # "none"
  PROVE  Shadowed(MatchedPolicies(body), ChainAction(body))
           <=> DocumentedShadowed(body, ChainAction(body))
<1> DEFINE chain == ChainAction(body)
           matched == MatchedPolicies(body)
           deciding == {p \in matched : p.action = chain}
           carriers == {e \in DocumentedMatched(body) : DocumentedPolicyAction(e) = chain}
<1>1. matched
        = {MatchedPolicy(e) : e \in {x \in DocumentedMatched(body) : Is(x, "str") \/ Is(x, "obj")}}
  BY SameList
<1>2. \A e \in DocumentedMatched(body) :
         ~NewAlias(First(e, <<"action", "inline_action", "inlineAction">>))
  BY DEF DocumentedSpelling
<1>3. ASSUME NEW e \in carriers
      PROVE  /\ MatchedPolicy(e) \in deciding
             /\ MatchedPolicy(e).passThrough <=> DocumentedFlag(e)
  <2>1. Is(e, "obj") /\ ~Is(e, "str")
    BY CarrierIsObject
  <2>2. MatchedPolicy(e) \in matched
    BY <1>1, <2>1
  <2>3. MatchedPolicy(e).action = chain
    BY <1>2, <2>1, SameEntry
  <2>4. MatchedPolicy(e).passThrough <=> DocumentedFlag(e)
    BY <1>2, <2>1, SameEntry, Zenon
  <2>5. QED
    BY <2>2, <2>3, <2>4, Zenon
<1>4. ASSUME NEW p \in deciding PROVE \E e \in carriers : p = MatchedPolicy(e)
  <2>1. PICK e \in DocumentedMatched(body) : p = MatchedPolicy(e)
    BY <1>1
  <2>2. p.action = chain
    OBVIOUS
  <2>3. ~Is(e, "str")
    BY <2>1, <2>2 DEF MatchedPolicy
  <2>4. DocumentedPolicyAction(e) = chain
    BY <1>2, <2>1, <2>2, <2>3, SameEntry
  <2>5. QED
    BY <2>1, <2>4
<1>5. deciding = {} => matched = {}
  BY DEF NobodyCarries
<1>6. /\ Shadowed(matched, chain)
           <=> LET relevant == IF deciding # {} THEN deciding ELSE matched
               IN  relevant # {} /\ \A p \in relevant : p.passThrough
      /\ DocumentedShadowed(body, chain) <=> carriers # {} /\ \A e \in carriers : DocumentedFlag(e)
  BY Zenon DEF Shadowed, DocumentedShadowed
<1> HIDE DEF chain, matched, deciding, carriers
<1>7. Shadowed(matched, chain) <=> deciding # {} /\ \A p \in deciding : p.passThrough
  BY <1>5, <1>6, Zenon
<1>8. deciding # {} <=> carriers # {}
  BY <1>3, <1>4, Zenon
<1>9. (\A p \in deciding : p.passThrough) <=> (\A e \in carriers : DocumentedFlag(e))
  BY <1>3, <1>4, Zenon
<1>10. QED
  BY <1>6, <1>7, <1>8, <1>9, Zenon DEF chain, matched

\* The score and the signals are read from the documented places.
LEMMA SameScore ==
  ASSUME NEW body, DocumentedSpelling(body)
  PROVE  /\ Score(body) = DocumentedScore(body)
         /\ Signals(body) = DocumentedSignals(body)
<1> DEFINE data == Object(body, "data")
<1>1. /\ First(body, <<"score", "risk_score", "riskScore">>)
           = OrElse(Get(body, "score"), OrElse(Get(body, "risk_score"), Null))
      /\ First(data, <<"score", "risk_score", "riskScore">>) = OrElse(Get(data, "riskScore"), Null)
      /\ First(body, <<"signals", "risk_signals", "riskSignals">>)
           = OrElse(Get(body, "signals"), OrElse(Get(body, "risk_signals"), Null))
      /\ First(data, <<"signals", "risk_signals", "riskSignals">>) = OrElse(Get(data, "signals"), Null)
  BY FirstThree DEF DocumentedSpelling, OrElse
<1>2. \A u, v, w : LET top == OrElse(u, OrElse(v, Null))
                   IN  (IF Present(top) THEN top ELSE OrElse(w, Null)) = FirstOf(<<u, v, w>>)
  BY FirstOfThree, NullIsAbsent DEF OrElse
<1>3. Score(body) = DocumentedScore(body)
  BY <1>1, <1>2 DEF Score, DocumentedScore
<1>4. Signals(body) = DocumentedSignals(body)
  BY <1>1, <1>2 DEF Signals, DocumentedSignals
<1>5. QED
  BY <1>3, <1>4

\* The more severe of the two is deny when one of them is, and so on.
LEMMA SameEscalation ==
  ASSUME NEW body, NEW c, DocumentedSpelling(body)
  PROVE  FromScore(Score(body), Signals(body), c).action = DocumentedEscalation(body, c)
<1> DEFINE score == DocumentedScore(body)
           signals == DocumentedSignals(body)
<1>1. FromScore(score, signals, c).action
        = IF Severity(BySignals(signals, c)) > Severity(ByThreshold(score, c))
          THEN BySignals(signals, c) ELSE ByThreshold(score, c)
  BY DEF FromScore, Verdict
<1>2. QED
  BY <1>1, SameScore DEF DocumentedEscalation, ByThreshold, BySignals, Severity

\* The steps of SPEC.md section 6, one by one.
LEMMA SameResolution ==
  ASSUME NEW h, NEW c, h.status \in Nat, h.error \in BOOLEAN,
         h.error => h.status \notin {400, 401, 403, 422},
         Documented(h), DocumentedSpelling(h.body),
         ~HidesAction(h.body), ~NobodyCarries(h.body), ~TwoLists(h.body),
         Resolve(h, c) # Raised
  PROVE  Resolve(h, c).action = DocumentedResolution(h, c)
<1> DEFINE chain == ChainAction(h.body)
           answered == h.status \in 200..299 /\ ~h.error
           listed == h.status \in {400, 401, 403, 422}
<1>1. DocumentedChain(h.body) = chain
  BY SameChain
<1>2. /\ ~answered /\ listed => DocumentedResolution(h, c) = c.clientErrorMode
      /\ ~answered /\ ~listed => DocumentedResolution(h, c) = c.failureMode
      /\ answered /\ ~Present(h.body) => DocumentedResolution(h, c) = c.failureMode
      /\ answered /\ Present(h.body) /\ chain = "none"
            => DocumentedResolution(h, c) = DocumentedEscalation(h.body, c)
      /\ answered /\ Present(h.body) /\ chain # "none"
            => DocumentedResolution(h, c)
                 = IF DocumentedShadowed(h.body, chain) /\ ~c.enforceShadow THEN "allow" ELSE chain
  BY <1>1 DEF DocumentedResolution
<1>3. /\ answered => ~TransportFailure(h) /\ ~ClientError(h)
      /\ listed => ~TransportFailure(h) /\ ClientError(h)
      /\ ~answered /\ ~listed => TransportFailure(h)
  BY DEF TransportFailure, ClientError, Documented
<1>4. ~Is(Score(h.body), "huge")
  BY DEF Resolve
<1>5. FromChain(chain, MatchedPolicies(h.body), c).action
        = IF Shadowed(MatchedPolicies(h.body), chain) /\ ~c.enforceShadow THEN "allow" ELSE chain
  BY DEF FromChain, Verdict
<1>6. CASE ~answered /\ listed
  <2>1. Resolve(h, c) = Verdict(c.clientErrorMode, "client_error", "none", FALSE, TRUE)
    BY <1>3, <1>4, <1>6 DEF Resolve
  <2>2. QED
    BY <1>2, <1>6, <2>1 DEF Verdict
<1>7. CASE ~answered /\ ~listed
  <2>1. Resolve(h, c) = Verdict(c.failureMode, "degraded", "none", FALSE, TRUE)
    BY <1>3, <1>4, <1>7 DEF Resolve
  <2>2. QED
    BY <1>2, <1>7, <2>1 DEF Verdict
<1>8. CASE answered /\ ~Present(h.body)
  <2>1. Resolve(h, c) = Verdict(c.failureMode, "degraded", "none", FALSE, TRUE)
    BY <1>3, <1>4, <1>8 DEF Resolve
  <2>2. QED
    BY <1>2, <1>8, <2>1 DEF Verdict
<1>9. CASE answered /\ Present(h.body) /\ chain = "none"
  <2>1. Resolve(h, c) = FromScore(Score(h.body), Signals(h.body), c)
    BY <1>3, <1>4, <1>9 DEF Resolve
  <2>2. QED
    BY <1>2, <1>9, <2>1, SameEscalation
<1>10. CASE answered /\ Present(h.body) /\ chain # "none"
  <2>1. Resolve(h, c) = FromChain(chain, MatchedPolicies(h.body), c)
    BY <1>3, <1>4, <1>10 DEF Resolve
  <2>2. Shadowed(MatchedPolicies(h.body), chain) <=> DocumentedShadowed(h.body, chain)
    BY <1>10, SameShadow
  <2>3. QED
    BY <1>2, <1>5, <1>10, <2>1, <2>2, Zenon
<1>11. QED
  BY <1>6, <1>7, <1>8, <1>9, <1>10

\* SPEC.md section 6, "produce exactly one Action": for every answer in the spellings
\* of SPEC.md 5.1 the code takes the documented action, apart from the three shapes
\* that AgreesWithSpec excludes.  An outcome with an error never has the status of a
\* client error (http.py:133).
THEOREM SpecIsFollowed ==
  ASSUME \A h \in Outcomes : h.error => h.status \in {0, 429} \/ h.status >= 500
  PROVE  DecisionSpec => [](DocumentedSpelling(http.body) => AgreesWithSpec)
<1>1. ASSUME DecisionInvariant, DocumentedSpelling(http.body) PROVE AgreesWithSpec
  <2> SUFFICES ASSUME Decided, decision # Raised, Documented(http), ~HidesAction(http.body),
                      ~NobodyCarries(http.body), ~TwoLists(http.body)
               PROVE  decision.action = DocumentedResolution(http, config)
    BY DEF AgreesWithSpec
  <2>1. decision = Resolve(http, config)
    BY <1>1 DEF DecisionInvariant, Decided
  <2>2. http.status \in Nat /\ http.error \in BOOLEAN
    BY <1>1, OutcomesAssumption DEF DecisionInvariant
  <2>3. http.error => http.status \notin {400, 401, 403, 422}
    BY <1>1, <2>2 DEF DecisionInvariant
  <2>4. QED
    BY <1>1, <2>1, <2>2, <2>3, SameResolution
<1>2. QED
  BY <1>1, DecisionsResolve, PTL
===============================================================================
