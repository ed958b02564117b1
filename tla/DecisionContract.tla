---------------------------- MODULE DecisionContract --------------------------
(***************************************************************************)
(* The normative algorithm of SPEC.md sections 5.1 and 6, written from the  *)
(* document, to be compared with the translation of the code in Decision.   *)
(***************************************************************************)
EXTENDS Decision

FirstOf(values) ==
    LET there == {i \in DOMAIN values : Present(values[i])}
    IN  IF there = {} THEN Null ELSE values[Min(there)]

\* SPEC.md:208-211, the aliases it lists.
DocumentedAction(value) ==
    IF ~Is(value, "str") THEN "none"
    ELSE CASE value.str \in {"allow", "pass", "accept"} -> "allow"
           [] value.str \in {"challenge", "stepup", "step_up"} -> "challenge"
           [] value.str \in {"deny", "block"} -> "deny"
           [] OTHER -> "none"

\* SPEC.md:200: five locations, in order; what is not recognised is absent.
DocumentedChain(body) ==
    LET policy    == Object(body, "policy")
        locations == << Get(policy, "action"), Get(policy, "decision"),
                        Get(Object(body, "decision"), "action"),
                        Get(body, "decision"), Get(body, "action") >>
        there     == {i \in DOMAIN locations : DocumentedAction(locations[i]) # "none"}
    IN  IF there = {} THEN "none" ELSE DocumentedAction(locations[Min(there)])

\* SPEC.md:201.
DocumentedMatched(body) ==
    LET policy == Object(body, "policy")
        list   == FirstOf(<< Get(policy, "matched"), Get(policy, "matched_policies"),
                             Get(body, "matched_policies"), Get(policy, "hits") >>)
    IN  IF Is(list, "list") THEN list.list ELSE {}

\* SPEC.md:204-205.
DocumentedPolicyAction(entry) ==
    DocumentedAction(FirstOf(<< Get(entry, "action"), Get(entry, "inline_action"),
                                Get(entry, "inlineAction") >>))

DocumentedFlag(entry) ==
    AsBool(FirstOf(<< Get(entry, "pass_through"), Get(entry, "passThrough"),
                      Get(entry, "shadow"), Get(entry, "pass_through_mode") >>))

\* SPEC.md:278-282: every matched policy with the chain's action is flagged, and
\* some policy shows a flag.
DocumentedShadowed(body, chain) ==
    LET carriers == {p \in DocumentedMatched(body) : DocumentedPolicyAction(p) = chain}
    IN  carriers # {} /\ \A p \in carriers : DocumentedFlag(p)

\* SPEC.md:202-203.
DocumentedScore(body) ==
    AsNumber(FirstOf(<< Get(body, "score"), Get(body, "risk_score"),
                        Get(Object(body, "data"), "riskScore") >>))

DocumentedSignals(body) ==
    LET list == FirstOf(<< Get(body, "signals"), Get(body, "risk_signals"),
                           Get(Object(body, "data"), "signals") >>)
    IN  IF Is(list, "list") THEN {s.str : s \in {x \in list.list : Is(x, "str")}} ELSE {}

\* SPEC.md:252-266, the action of step 4: the more severe of the two.
DocumentedEscalation(body, c) ==
    LET score   == DocumentedScore(body)
        signals == DocumentedSignals(body)
        \* a verdict is reached when its threshold or one of its signals is
        denied     == AtLeast(score, c.denyAt) \/ signals \intersect c.denyOn # {}
        challenged == AtLeast(score, c.challengeAt) \/ signals \intersect c.challengeOn # {}
    IN  IF denied THEN "deny" ELSE IF challenged THEN "challenge" ELSE "allow"

\* SPEC.md:224-266, the action of each step.
DocumentedResolution(h, c) ==
    LET chain    == DocumentedChain(h.body)
        shadowed == DocumentedShadowed(h.body, chain)
        answered == h.status \in 200..299 /\ ~h.error
    IN  CASE ~answered /\ h.status \in {400, 401, 403, 422} -> c.clientErrorMode
          [] ~answered /\ h.status \notin {400, 401, 403, 422} -> c.failureMode
          [] answered /\ ~Present(h.body) -> c.failureMode
          [] answered /\ Present(h.body) /\ chain = "none" -> DocumentedEscalation(h.body, c)
          [] answered /\ Present(h.body) /\ chain # "none" ->
                IF shadowed /\ ~c.enforceShadow THEN "allow" ELSE chain

-------------------------------------------------------------------------------
\* Three shapes of answer on which code and document part, whichever action they
\* end in: an unrecognised action in front of another key of the same object,
HidesAction(body) ==
    LET policy == Object(body, "policy")
    IN  /\ Present(Get(policy, "action"))
        /\ DocumentedAction(Get(policy, "action")) = "none"
        /\ DocumentedAction(Get(policy, "decision")) # "none"

\* a chain action that none of the matched policies carries,
NobodyCarries(body) ==
    /\ ChainAction(body) # "none"
    /\ MatchedPolicies(body) # {}
    /\ \A p \in MatchedPolicies(body) : p.action # ChainAction(body)

\* and policy.hits next to a top-level matched_policies.
TwoLists(body) ==
    /\ Present(Get(Object(body, "policy"), "hits"))
    /\ Present(Get(body, "matched_policies"))

\* SPEC.md section 6 says nothing of a redirect, or of a client error it does
\* not list.
Documented(h) ==
    h.status \in {0, 400, 401, 403, 408, 422, 429} \union 200..299 \union 500..599

\* SPEC.md section 6, "produce exactly one Action": apart from those shapes the
\* code takes the documented action, for every spelling of SPEC.md 5.1.
AgreesWithSpec ==
    LET comparable == /\ Documented(http)
                      /\ ~HidesAction(http.body)
                      /\ ~NobodyCarries(http.body)
                      /\ ~TwoLists(http.body)
    IN  (Decided /\ decision # Raised /\ comparable) => decision.action = DocumentedResolution(http, config)
===============================================================================
