---------------------------- MODULE ResolutionProofs ----------------------------
(***************************************************************************)
(* Lemmas about resolve_decision() and the extractors, for every body and   *)
(* every setting.  They are cited by the proofs about Decision and FlaskApp.*)
(***************************************************************************)
EXTENDS Resolution, TLAPS

-------------------------------------------------------------------------------
(***************************************************************************)
(* Reading a body.                                                          *)
(***************************************************************************)
\* What is no object has no fields: get() finds nothing in it.
LEMMA NoFields ==
  ASSUME NEW source, ~Is(source, "obj")
  PROVE  \A key : Get(source, key) = Null
  BY DEF Get

\* None is absent and has no fields.
LEMMA NullIsAbsent == ~Present(Null) /\ ~Is(Null, "obj") /\ ~Is(Null, "str") /\ ~Is(Null, "list")
  BY DEF Present, Is, Null

\* _first() finds nothing in what has no fields.
LEMMA NothingFirst ==
  ASSUME NEW source, NEW keys, ~Is(source, "obj")
  PROVE  First(source, keys) = Null
  BY NoFields, NullIsAbsent DEF First

\* At most five keys or candidates are ever tried, and there is a first of them.
LEMMA LeastIndex ==
  ASSUME NEW found, found \subseteq 1..5, found # {}
  PROVE  Min(found) \in found /\ \A i \in found : Min(found) <= i
<1>1. found \subseteq {1, 2, 3, 4, 5}
  OBVIOUS
<1>2. \E m \in found : \A i \in found : m <= i
  <2>1. CASE 1 \in found
    BY <1>1, <2>1
  <2>2. CASE 1 \notin found /\ 2 \in found
    BY <1>1, <2>2
  <2>3. CASE 1 \notin found /\ 2 \notin found /\ 3 \in found
    BY <1>1, <2>3
  <2>4. CASE 1 \notin found /\ 2 \notin found /\ 3 \notin found /\ 4 \in found
    BY <1>1, <2>4
  <2>5. CASE 1 \notin found /\ 2 \notin found /\ 3 \notin found /\ 4 \notin found
    <3>1. found = {5}
      BY <1>1, <2>5
    <3>2. QED
      BY <3>1
  <2>6. QED
    BY <2>1, <2>2, <2>3, <2>4, <2>5
<1>3. QED
  BY <1>2 DEF Min

\* _first() depends on the keys it is given and on nothing else in the object.
LEMMA FirstSame ==
  ASSUME NEW one, NEW other, NEW keys, DOMAIN keys \subseteq 1..4,
         \A i \in DOMAIN keys : Get(one, keys[i]) = Get(other, keys[i])
  PROVE  First(one, keys) = First(other, keys)
<1> DEFINE Found(source) == {i \in DOMAIN keys : Present(Get(source, keys[i]))}
<1>1. Found(one) = Found(other)
  OBVIOUS
<1>2. CASE Found(one) = {}
  BY <1>1, <1>2 DEF First
<1>3. CASE Found(one) # {}
  <2>1. First(one, keys) = Get(one, keys[Min(Found(one))])
    BY <1>3 DEF First
  <2>2. First(other, keys) = Get(other, keys[Min(Found(other))])
    BY <1>1, <1>3 DEF First
  <2>3. QED
    BY <1>1, <1>3, <2>1, <2>2, LeastIndex
<1>4. QED
  BY <1>2, <1>3

\* A present first key is the first value there is.
LEMMA FirstKey ==
  ASSUME NEW source, NEW keys, DOMAIN keys \subseteq 1..4, 1 \in DOMAIN keys,
         Present(Get(source, keys[1]))
  PROVE  First(source, keys) = Get(source, keys[1])
<1> DEFINE found == {i \in DOMAIN keys : Present(Get(source, keys[i]))}
<1>1. found \subseteq 1..4 /\ 1 \in found
  OBVIOUS
<1>2. Min(found) \in 1..4 /\ Min(found) <= 1
  BY <1>1, LeastIndex
<1>3. QED
  BY <1>1, <1>2 DEF First

-------------------------------------------------------------------------------
(***************************************************************************)
(* The action of the chain and the policies that matched.                   *)
(***************************************************************************)
\* parse_action() knows three actions and the absence of one.
LEMMA ParsedActions == \A value : ParseAction(value) \in Actions \union {"none"}
  BY DEF ParseAction, Actions

\* So does extract_chain_action().
LEMMA ChainActions == \A body : ChainAction(body) \in Actions \union {"none"}
  BY ParsedActions DEF ChainAction

\* A body that is no object says nothing of any action.
LEMMA ChainIsInObject ==
  ASSUME NEW body, ChainAction(body) # "none"
  PROVE  Is(body, "obj")
<1> SUFFICES ASSUME ~Is(body, "obj") PROVE FALSE
  OBVIOUS
<1>1. Object(body, "policy") = Null /\ Object(body, "decision") = Null
  BY NoFields, NullIsAbsent DEF Object
<1>2. \A keys : First(Null, keys) = Null
  BY NothingFirst, NullIsAbsent
<1>3. Get(body, "decision") = Null /\ Get(body, "action") = Null
  BY NoFields
<1>4. ParseAction(Null) = "none"
  BY NullIsAbsent DEF ParseAction
<1> DEFINE candidates == <<Null, Null, Null, Null>>
<1>5. ChainAction(body)
        = LET parsed == {i \in DOMAIN candidates : ParseAction(candidates[i]) # "none"}
          IN  IF parsed = {} THEN "none" ELSE ParseAction(candidates[Min(parsed)])
  BY <1>1, <1>2, <1>3 DEF ChainAction
<1>6. \A i \in DOMAIN candidates : ParseAction(candidates[i]) = "none"
  BY <1>4
<1>7. QED
  BY <1>5, <1>6

\* extract_chain_action() reads three fields, extract_matched_policies() four.
LEMMA ChainActionSame ==
  ASSUME NEW one, NEW other,
         \A key \in {"policy", "decision", "action"} : Get(one, key) = Get(other, key)
  PROVE  ChainAction(one) = ChainAction(other)
<1>1. /\ Object(one, "policy") = Object(other, "policy")
      /\ Object(one, "decision") = Object(other, "decision")
  BY DEF Object
<1>2. Get(one, "decision") = Get(other, "decision") /\ Get(one, "action") = Get(other, "action")
  OBVIOUS
<1>3. QED
  BY <1>1, <1>2 DEF ChainAction

\* extract_matched_policies() reads no field but its four.
LEMMA MatchedPoliciesSame ==
  ASSUME NEW one, NEW other,
         \A key \in {"policy", "matched_policies", "matchedPolicies", "matched"} :
            Get(one, key) = Get(other, key)
  PROVE  MatchedPolicies(one) = MatchedPolicies(other)
<1> DEFINE keys == <<"matched_policies", "matchedPolicies", "matched">>
<1>1. Object(one, "policy") = Object(other, "policy")
  BY DEF Object
<1>2. First(one, keys) = First(other, keys)
  BY FirstSame
<1>3. QED
  BY <1>1, <1>2 DEF MatchedPolicies

\* is_shadowed() is False for a list that is empty or has a live policy with the
\* action of the chain.
LEMMA LiveIsNotShadowed ==
  ASSUME NEW matched, NEW action,
         \/ matched = {}
         \/ \E p \in matched : p.action = action /\ ~p.passThrough
  PROVE  ~Shadowed(matched, action)
  BY DEF Shadowed

\* What is not shadowed keeps the action of the chain.
LEMMA NotShadowedIsEnforced ==
  ASSUME NEW matched, NEW chain, NEW c, ~Shadowed(matched, chain)
  PROVE  FromChain(chain, matched, c).action = chain
  BY DEF FromChain, Verdict

-------------------------------------------------------------------------------
(***************************************************************************)
(* The steps of resolve_decision().                                         *)
(***************************************************************************)
\* A decision with an observed action is that of the chain, on an answer that is
\* no failure of any kind.
LEMMA ObservedIsChain ==
  ASSUME NEW h, NEW c, Resolve(h, c).observed # "none"
  PROVE  LET chain == ChainAction(h.body)
         IN  /\ ~Is(Score(h.body), "huge") /\ ~TransportFailure(h) /\ ~ClientError(h)
             /\ Present(h.body) /\ chain # "none" /\ Resolve(h, c).observed = chain
             /\ Resolve(h, c) = FromChain(chain, MatchedPolicies(h.body), c)
<1>1. \A s, g : FromScore(s, g, c).observed = "none"
  BY DEF FromScore, Verdict
<1>2. \A m, a : FromChain(a, m, c).observed = a
  BY DEF FromChain, Verdict
<1>3. Raised.observed = "none"
  BY DEF Raised, Verdict
<1>4. \A a, r : Verdict(a, r, "none", FALSE, TRUE).observed = "none"
  BY DEF Verdict
<1> HIDE DEF Verdict
<1>5. QED
  BY <1>1, <1>2, <1>3, <1>4 DEF Resolve
===============================================================================
