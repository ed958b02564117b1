---------------------------- MODULE ManagementProofs ---------------------------
(***************************************************************************)
(* Proofs about Management, for every number of calls, retries and tokens   *)
(* and every order in which the network executes, refuses and loses what    *)
(* was sent.                                                                *)
(***************************************************************************)
EXTENDS Management, TLAPS

\* Every request ever sent and not lost or refused.
Sent == requests \union executed

\* What may come back to an attempt.
Answers == [status : {200} \union Refusals, decoded : BOOLEAN, policy : Policies]

\* The type invariant with the rest of the variables, and what a call that is
\* under way has set.
FullTypeOK ==
    /\ ManagementTypeOK
    /\ operation \in Operations \union {"none"}
    /\ bearer \in Tokens \union {"none"}
    /\ answer = NoAnswer \/ answer \in Answers
    /\ answer # NoAnswer => attempt # Idle
    /\ attempt # Idle => /\ calls >= 1
                         /\ operation \in Operations
                         /\ bearer \in Tokens
                         /\ result = "none"

\* No request is newer than the attempt that waits: the next one is new.
NothingAhead ==
    \A r \in Sent :
        /\ r.call <= calls
        /\ (r.call = calls /\ attempt # Idle) => r.attempt <= attempt

\* The requests of the current call all ask the same under the same token.
OneCallOneMind ==
    \A r \in Sent : r.call = calls => r.op = operation /\ r.token = bearer

Bookkeeping == FullTypeOK /\ NothingAhead /\ OneCallOneMind /\ CallKeepsToken

\* A new script has sent nothing.
LEMMA BookkeepingInit == ManagementInit => Bookkeeping
  BY MaxCallsAssumption, MaxRetriesAssumption
     DEF ManagementInit, Bookkeeping, FullTypeOK, ManagementTypeOK, NothingAhead,
         OneCallOneMind, CallKeepsToken, Sent, Idle

\* What sending the attempt k of a call does, when it is the newest of all.
LEMMA SendStep ==
  ASSUME Bookkeeping, NEW n \in 1..MaxCalls, NEW k \in 0..MaxRetries,
         NEW op \in Operations, NEW jwt \in Tokens,
         Send(n, k, op, jwt),
         UNCHANGED <<token, executed, policy, entries>>,
         calls' = n, operation' = op, bearer' = jwt, result' = "none",
         \A r \in Sent : r.call <= n,
         \A r \in Sent : r.call = n => r.attempt < k /\ r.op = op /\ r.token = jwt
  PROVE  Bookkeeping'
<1> DEFINE new == Request(n, k, op, jwt)
<1> USE MaxCallsAssumption, MaxRetriesAssumption
<1>1. new \in Requests /\ new.call = n /\ new.attempt = k /\ new.op = op /\ new.token = jwt
  BY DEF Request, Requests
<1>2. requests' = requests \union {new} /\ attempt' = k /\ answer' = NoAnswer
  BY DEF Send
<1>3. new \notin Sent
  BY <1>1
<1> HIDE DEF new
<1>4. FullTypeOK'
  BY <1>1, <1>2, <1>3 DEF Bookkeeping, FullTypeOK, ManagementTypeOK, Sent, Idle
<1>5. Sent' = Sent \union {new}
  BY <1>2 DEF Sent
<1>6. NothingAhead'
  BY <1>1, <1>2, <1>5 DEF Bookkeeping, FullTypeOK, ManagementTypeOK, Requests, NothingAhead, Sent
<1>7. OneCallOneMind'
  BY <1>1, <1>5 DEF OneCallOneMind
<1>8. CallKeepsToken'
  BY <1>1, <1>5 DEF Bookkeeping, CallKeepsToken, Sent
<1>9. QED
  BY <1>4, <1>6, <1>7, <1>8 DEF Bookkeeping

\* A call ends: its attempt is forgotten and nothing is sent.
LEMMA FinishStep ==
  ASSUME Bookkeeping, NEW how \in {"ok", "raised"}, NEW what, Finish(how, what),
         UNCHANGED <<callVars, serverVars>>
  PROVE  Bookkeeping'
<1>1. FullTypeOK'
  BY MaxRetriesAssumption DEF Finish, callVars, serverVars, Bookkeeping, FullTypeOK, ManagementTypeOK, Idle
<1>2. NothingAhead' /\ OneCallOneMind' /\ CallKeepsToken'
  BY DEF Finish, callVars, serverVars, Bookkeeping, NothingAhead, OneCallOneMind,
         CallKeepsToken, Sent
<1>3. QED
  BY <1>1, <1>2 DEF Bookkeeping

\* The next attempt of the current call.
LEMMA ResendStep ==
  ASSUME Bookkeeping, attempt # Idle, attempt < MaxRetries,
         Send(calls, attempt + 1, operation, bearer), UNCHANGED result,
         UNCHANGED <<callVars, serverVars>>
  PROVE  Bookkeeping'
<1> USE MaxCallsAssumption, MaxRetriesAssumption
<1>1. calls \in 1..MaxCalls /\ attempt \in 0..MaxRetries
  BY DEF Bookkeeping, FullTypeOK, ManagementTypeOK, Idle
<1>2. \A r \in Sent : r.call <= calls
  BY DEF Bookkeeping, NothingAhead
<1>3. \A r \in Sent : r.attempt \in 0..MaxRetries
  BY DEF Sent, Bookkeeping, FullTypeOK, ManagementTypeOK, Requests
<1>4. \A r \in Sent :
        r.call = calls => r.attempt < attempt + 1 /\ r.op = operation /\ r.token = bearer
  BY <1>1, <1>3 DEF Bookkeeping, NothingAhead, OneCallOneMind
<1>5. /\ operation \in Operations /\ bearer \in Tokens
      /\ result' = "none" /\ attempt + 1 \in 0..MaxRetries
  BY <1>1 DEF Bookkeeping, FullTypeOK
<1>6. QED
  BY <1>1, <1>2, <1>4, <1>5, SendStep DEF callVars, serverVars

\* The server or the network takes one request away; what was executed stays.
LEMMA TakeStep ==
  ASSUME Bookkeeping, NEW r \in requests,
         requests' = requests \ {r},
         executed' \in {executed, executed \union {r}},
         answer' = answer \/ answer' \in Answers,
         answer' # answer => attempt # Idle,
         policy' \in Policies,
         entries' \subseteq executed',
         UNCHANGED <<callVars, attempt, result>>
  PROVE  Bookkeeping'
<1>1. FullTypeOK'
  BY DEF callVars, Bookkeeping, FullTypeOK, ManagementTypeOK
<1>2. Sent' \subseteq Sent
  BY DEF Sent
<1>3. QED
  BY <1>1, <1>2 DEF callVars, Bookkeeping, NothingAhead, OneCallOneMind, CallKeepsToken, Sent

\* What an execution does to the list: one entry more, one less, or none.
LEMMA ExecuteEntries ==
  ASSUME NEW r, Execute(r), entries \subseteq executed PROVE entries' \subseteq executed'
<1>1. executed' = executed \union {r}
  BY DEF Execute
<1>2. CASE r.op = "add"
  BY <1>1, <1>2 DEF Execute
<1>3. CASE r.op = "delete" /\ entries # {}
  BY <1>1, <1>3 DEF Execute
<1>4. CASE r.op # "add" /\ ~(r.op = "delete" /\ entries # {})
  BY <1>1, <1>4 DEF Execute
<1>5. QED
  BY <1>2, <1>3, <1>4

\* The policy stays a policy, in whichever position.
LEMMA ExecutePolicy ==
  ASSUME NEW r, Execute(r), policy \in Policies PROVE policy' \in Policies
<1>1. CASE r.op \in {"enable", "disable", "shadow", "promote"}
  BY <1>1 DEF Execute, Policies
<1>2. CASE r.op \notin {"enable", "disable", "shadow", "promote"}
  BY <1>2 DEF Execute
<1>3. QED
  BY <1>1, <1>2

\* Every step of the script, the server and the network keeps the books.
LEMMA BookkeepingStep == Bookkeeping /\ [ManagementNext]_managementVars => Bookkeeping'
<1> SUFFICES ASSUME Bookkeeping, [ManagementNext]_managementVars PROVE Bookkeeping'
  OBVIOUS
<1> USE MaxCallsAssumption, MaxRetriesAssumption
<1>1. ASSUME NEW jwt \in Tokens, WithToken(jwt) PROVE Bookkeeping'
  <2>1. FullTypeOK'
    BY <1>1 DEF WithToken, serverVars, Bookkeeping, FullTypeOK, ManagementTypeOK
  <2>2. QED
    BY <1>1, <2>1 DEF WithToken, serverVars, Bookkeeping, NothingAhead, OneCallOneMind,
                      CallKeepsToken, Sent
<1>2. ASSUME NEW op \in Operations, Call(op) PROVE Bookkeeping'
  <2>1. calls + 1 \in 1..MaxCalls /\ token \in Tokens /\ 0 \in 0..MaxRetries
    BY <1>2 DEF Call, Bookkeeping, FullTypeOK, ManagementTypeOK
  <2>2. \A r \in Sent : r.call \in Int /\ r.call <= calls
    BY DEF Bookkeeping, FullTypeOK, ManagementTypeOK, NothingAhead, Sent, Requests
  <2>3. calls \in Int
    BY DEF Bookkeeping, FullTypeOK, ManagementTypeOK
  <2>4. \A r \in Sent : r.call <= calls + 1 /\ r.call # calls + 1
    BY <2>2, <2>3
  <2>5. QED
    BY <1>2, <2>1, <2>4, SendStep DEF Call, serverVars
<1>3. ASSUME NEW op \in Operations, CallRaises(op) PROVE Bookkeeping'
  <2>1. \A r \in Sent : r.call \in Int /\ r.call <= calls
    BY DEF Bookkeeping, FullTypeOK, ManagementTypeOK, NothingAhead, Sent, Requests
  <2>2. calls \in Int
    BY DEF Bookkeeping, FullTypeOK, ManagementTypeOK
  <2>3. FullTypeOK'
    BY <1>3 DEF CallRaises, Finish, serverVars, Bookkeeping, FullTypeOK, ManagementTypeOK, Idle
  <2>4. \A r \in Sent' : r.call <= calls' /\ r.call # calls'
    BY <1>3, <2>1, <2>2 DEF CallRaises, Finish, serverVars, Sent
  <2>5. NothingAhead' /\ OneCallOneMind'
    BY <2>4 DEF NothingAhead, OneCallOneMind
  <2>6. CallKeepsToken'
    BY <1>3 DEF CallRaises, Finish, serverVars, Bookkeeping, CallKeepsToken
  <2>7. QED
    BY <2>3, <2>5, <2>6 DEF Bookkeeping
<1>4. CASE ReceiveAnswer
  <2>1. attempt # Idle
    BY <1>4 DEF ReceiveAnswer, Bookkeeping, FullTypeOK
  <2>2. CASE Retryable(answer.status) /\ attempt < MaxRetries
    BY <1>4, <2>1, <2>2, ResendStep DEF ReceiveAnswer
  <2>3. CASE ~(Retryable(answer.status) /\ attempt < MaxRetries)
    <3>1. PICK what : Finish(Verdict(answer.status), what)
      BY <1>4, <2>3 DEF ReceiveAnswer
    <3>2. Verdict(answer.status) \in {"ok", "raised"}
      BY DEF Verdict
    <3>3. QED
      BY <1>4, <3>1, <3>2, FinishStep DEF ReceiveAnswer
  <2>4. QED
    BY <2>2, <2>3
<1>5. CASE AttemptLost
  BY <1>5, ResendStep, FinishStep DEF AttemptLost
<1>6. ASSUME NEW r \in requests, Execute(r) PROVE Bookkeeping'
  <2>1. answer' = answer \/ answer' \in Answers
    BY <1>6 DEF Execute, Reply, Answers, Bookkeeping, FullTypeOK, ManagementTypeOK
  <2>2. answer' # answer => attempt # Idle
    BY <1>6 DEF Execute, Reply, Current, Request, Bookkeeping, FullTypeOK, ManagementTypeOK,
                Requests, Idle
  <2>3. entries' \subseteq executed' /\ policy' \in Policies
    BY <1>6, ExecuteEntries, ExecutePolicy DEF Bookkeeping, FullTypeOK, ManagementTypeOK
  <2>4. requests' = requests \ {r} /\ executed' = executed \union {r}
    BY <1>6 DEF Execute
  <2>5. UNCHANGED <<callVars, attempt, result>>
    BY <1>6 DEF Execute
  <2>6. QED
    BY <2>1, <2>2, <2>3, <2>4, <2>5, TakeStep
<1>7. ASSUME NEW r \in requests, NEW status \in Refusals, Refuse(r, status) PROVE Bookkeeping'
  <2>1. answer' = answer \/ answer' \in Answers
    BY <1>7 DEF Refuse, Reply, Answers, Bookkeeping, FullTypeOK, ManagementTypeOK
  <2>2. answer' # answer => attempt # Idle
    BY <1>7 DEF Refuse, Reply, Current, Request, Bookkeeping, FullTypeOK, ManagementTypeOK,
                Requests, Idle
  <2>3. QED
    BY <1>7, <2>1, <2>2, TakeStep DEF Refuse, serverVars, Bookkeeping, FullTypeOK, ManagementTypeOK
<1>8. ASSUME NEW r \in requests, Lose(r) PROVE Bookkeeping'
  BY <1>8, TakeStep DEF Lose, serverVars, Bookkeeping, FullTypeOK, ManagementTypeOK
<1>9. CASE UNCHANGED managementVars
  BY <1>9 DEF managementVars, callVars, serverVars, Bookkeeping, FullTypeOK, ManagementTypeOK,
     NothingAhead, OneCallOneMind, CallKeepsToken, Sent
<1>10. QED
  BY <1>1, <1>2, <1>3, <1>4, <1>5, <1>6, <1>7, <1>8, <1>9 DEF ManagementNext

\* The token, the attempts, the requests and what the server has executed keep
\* their types: attempts stay within the limit, no request is both executed and
\* still under way, and the list holds nothing that was not sent.
THEOREM ManagementTypeCorrect == ManagementSpec => []ManagementTypeOK
<1>1. Bookkeeping => ManagementTypeOK
  BY DEF Bookkeeping, FullTypeOK
<1>2. QED
  BY <1>1, BookkeepingInit, BookkeepingStep, PTL DEF ManagementSpec

\* management.py:182: all requests of one call carry the token the client held
\* when the call began, whoever replaces it meanwhile.
THEOREM OneCallOneToken == ManagementSpec => []CallKeepsToken
<1>1. Bookkeeping => CallKeepsToken
  BY DEF Bookkeeping
<1>2. QED
  BY <1>1, BookkeepingInit, BookkeepingStep, PTL DEF ManagementSpec

-------------------------------------------------------------------------------
(***************************************************************************)
(* A call that returns was executed, and did what it was for.  urllib hands *)
(* a 3xx it does not follow to _call() as an answer, which takes it for a   *)
(* success, so all of this needs refusals to be client or server errors.    *)
(***************************************************************************)
RefusalsRaise == Refusals \subseteq 400..599

\* Some request of the current call was executed.
CallExecuted == \E r \in executed : r.call = calls

\* The switch that op throws is in the position it asks for.
InPosition(op, p) ==
    /\ op = "enable" => p.enabled
    /\ op = "disable" => ~p.enabled
    /\ op = "shadow" => p.passThrough
    /\ op = "promote" => ~p.passThrough

\* A good answer on its way, or a call that returned, has been executed.
GoodNewsIsTrue ==
    /\ (answer # NoAnswer /\ answer.status = 200) => CallExecuted
    /\ result = "ok" => CallExecuted

\* While nothing older than the current call is under way, what its executed
\* requests did to the policy lasts, and what an audit read of it is still so.
QuietIsQuiet ==
    quiet =>
        /\ \A r \in requests : r.call = calls
        /\ CallExecuted => InPosition(operation, policy)
        /\ (operation = "audit" /\ answer # NoAnswer /\ answer.status = 200)
               => answer.policy = policy
        /\ (operation = "audit" /\ result = "ok") => report \in {Classify(policy), "nothing"}

OutcomeInvariant == Bookkeeping /\ GoodNewsIsTrue /\ QuietIsQuiet

\* A new script has heard nothing.
LEMMA OutcomeInit == ManagementInit => OutcomeInvariant
  BY BookkeepingInit DEF ManagementInit, OutcomeInvariant, GoodNewsIsTrue, QuietIsQuiet,
     CallExecuted

\* An answer is either good or one that _call() raises for.
LEMMA AnswerIsGoodOrRaised ==
  ASSUME RefusalsRaise, Bookkeeping, answer # NoAnswer
  PROVE  /\ answer.status = 200 \/ answer.status \in 400..599
         /\ Verdict(answer.status) = "ok" => answer.status = 200
         /\ answer.policy \in Policies
<1>1. answer.status \in {200} \union Refusals /\ answer.policy \in Policies
  BY DEF Answers, Bookkeeping, FullTypeOK
<1>2. answer.status = 200 \/ answer.status \in 400..599
  BY <1>1 DEF RefusalsRaise
<1>3. QED
  BY <1>1, <1>2 DEF Verdict

\* An execution throws the switch its request asks for and no other.
LEMMA ExecuteMoves ==
  ASSUME NEW r, Execute(r), policy \in Policies
  PROVE  /\ InPosition(r.op, policy')
         /\ r.op = "audit" => policy' = policy
<1>1. CASE r.op \in {"enable", "disable", "shadow", "promote"}
  BY <1>1 DEF Execute, Policies, InPosition
<1>2. CASE r.op \notin {"enable", "disable", "shadow", "promote"}
  BY <1>2 DEF Execute, InPosition
<1>3. QED
  BY <1>1, <1>2

\* A call begins, or is refused before its first request.
LEMMA BeginStep ==
  ASSUME Bookkeeping, calls' = calls + 1, answer' = NoAnswer, result' \in {"none", "raised"},
         UNCHANGED executed,
         quiet' = (requests = {}),
         \A r \in requests' : r \in requests \/ r.call = calls'
  PROVE  GoodNewsIsTrue' /\ QuietIsQuiet'
<1>1. \A r \in executed : r.call \in Int /\ r.call <= calls
  BY DEF Bookkeeping, FullTypeOK, ManagementTypeOK, NothingAhead, Sent, Requests
<1>2. calls \in Int
  BY DEF Bookkeeping, FullTypeOK, ManagementTypeOK
<1>3. ~CallExecuted'
  BY <1>1, <1>2 DEF CallExecuted
<1>4. QED
  BY <1>3 DEF GoodNewsIsTrue, QuietIsQuiet

\* Every step keeps what is said of outcomes.
LEMMA OutcomeStep ==
  ASSUME RefusalsRaise
  PROVE  OutcomeInvariant /\ [ManagementNext]_managementVars => OutcomeInvariant'
<1> SUFFICES ASSUME OutcomeInvariant, [ManagementNext]_managementVars
             PROVE  GoodNewsIsTrue' /\ QuietIsQuiet'
  BY BookkeepingStep DEF OutcomeInvariant
<1> DEFINE Goal == GoodNewsIsTrue' /\ QuietIsQuiet'
<1>0. Bookkeeping /\ GoodNewsIsTrue /\ QuietIsQuiet
  BY DEF OutcomeInvariant
<1>1. ASSUME NEW jwt \in Tokens, WithToken(jwt) PROVE Goal
  BY <1>0, <1>1 DEF WithToken, serverVars, GoodNewsIsTrue, QuietIsQuiet, CallExecuted
<1>2. ASSUME NEW op \in Operations, Call(op) PROVE Goal
  BY <1>0, <1>2, BeginStep DEF Call, Send, Request, serverVars
<1>3. ASSUME NEW op \in Operations, CallRaises(op) PROVE Goal
  BY <1>0, <1>3, BeginStep DEF CallRaises, Finish, serverVars
<1>4. ASSUME attempt # Idle, Send(calls, attempt + 1, operation, bearer),
             UNCHANGED <<callVars, serverVars, result>>
      PROVE  Goal
  BY <1>0, <1>4 DEF Send, Request, callVars, serverVars, GoodNewsIsTrue, QuietIsQuiet,
     CallExecuted, Bookkeeping, FullTypeOK
<1>5. CASE ReceiveAnswer
  <2>1. answer # NoAnswer /\ attempt # Idle
    BY <1>0, <1>5 DEF ReceiveAnswer, Bookkeeping, FullTypeOK
  <2>2. CASE Retryable(answer.status) /\ attempt < MaxRetries
    BY <1>4, <1>5, <2>1, <2>2 DEF ReceiveAnswer
  <2>3. CASE ~(Retryable(answer.status) /\ attempt < MaxRetries)
    <3> DEFINE what == IF operation = "audit" /\ Accepted(answer.status)
                       THEN Audited(answer) ELSE "none"
    <3>1. /\ attempt' = Idle /\ answer' = NoAnswer /\ result' = Verdict(answer.status)
          /\ report' = what /\ UNCHANGED <<requests, callVars, serverVars>>
      BY <1>5, <2>3 DEF ReceiveAnswer, Finish
    <3>2. result' = "ok" => answer.status = 200
      BY <1>0, <2>1, <3>1, AnswerIsGoodOrRaised
    <3>3. answer.status = 200 /\ operation = "audit"
             => report' \in {Classify(answer.policy), "nothing"}
      BY <3>1 DEF Accepted, Audited
    <3> HIDE DEF what
    <3>4. GoodNewsIsTrue'
      BY <1>0, <2>1, <3>1, <3>2 DEF GoodNewsIsTrue, CallExecuted, callVars, serverVars
    <3>5. QuietIsQuiet'
      BY <1>0, <2>1, <3>1, <3>2, <3>3
         DEF QuietIsQuiet, CallExecuted, callVars, serverVars
    <3>6. QED
      BY <3>4, <3>5
  <2>4. QED
    BY <2>2, <2>3
<1>6. CASE AttemptLost
  <2>1. CASE attempt < MaxRetries
    BY <1>4, <1>6, <2>1 DEF AttemptLost
  <2>2. CASE ~(attempt < MaxRetries)
    BY <1>0, <1>6, <2>2 DEF AttemptLost, Finish, callVars, serverVars, GoodNewsIsTrue,
       QuietIsQuiet, CallExecuted
  <2>3. QED
    BY <2>1, <2>2
<1>7. ASSUME NEW r \in requests, Execute(r) PROVE Goal
  <2>1. /\ requests' = requests \ {r} /\ executed' = executed \union {r}
        /\ UNCHANGED <<callVars, attempt, result, report>>
        /\ answer' \in {answer} \union {[status |-> 200, decoded |-> d, policy |-> policy] : d \in BOOLEAN}
        /\ answer' # answer => r = Current
    BY <1>7 DEF Execute, Reply
  <2>2. GoodNewsIsTrue'
    BY <1>0, <2>1 DEF GoodNewsIsTrue, CallExecuted, callVars, Current, Request
  <2>3. ASSUME quiet PROVE QuietIsQuiet'
    <3>1. r.call = calls /\ r.op = operation
      BY <1>0, <2>3 DEF QuietIsQuiet, Bookkeeping, OneCallOneMind, Sent
    <3>2. policy \in Policies
      BY <1>0 DEF Bookkeeping, FullTypeOK, ManagementTypeOK
    <3>3. InPosition(operation, policy') /\ (operation = "audit" => policy' = policy)
      BY <1>7, <3>1, <3>2, ExecuteMoves
    <3>4. \A s \in requests' : s.call = calls'
      BY <1>0, <2>1, <2>3 DEF QuietIsQuiet, callVars
    <3>5. (operation' = "audit" /\ answer' # NoAnswer /\ answer'.status = 200)
             => answer'.policy = policy'
      BY <1>0, <2>1, <2>3, <3>3 DEF QuietIsQuiet, callVars
    <3>6. (operation' = "audit" /\ result' = "ok") => report' \in {Classify(policy'), "nothing"}
      BY <1>0, <2>1, <2>3, <3>3 DEF QuietIsQuiet, callVars
    <3>7. QED
      BY <2>1, <3>3, <3>4, <3>5, <3>6 DEF QuietIsQuiet, callVars
  <2>4. QED
    BY <2>1, <2>2, <2>3 DEF QuietIsQuiet, callVars
<1>8. ASSUME NEW r \in requests, NEW status \in Refusals, Refuse(r, status) PROVE Goal
  <2>1. /\ requests' = requests \ {r} /\ UNCHANGED <<callVars, result, report, serverVars>>
        /\ answer' = answer \/ answer'.status = status
    BY <1>8 DEF Refuse, Reply
  <2>2. status # 200
    BY <1>8 DEF RefusalsRaise
  <2>3. QED
    BY <1>0, <2>1, <2>2 DEF GoodNewsIsTrue, QuietIsQuiet, CallExecuted, callVars, serverVars
<1>9. ASSUME NEW r \in requests, Lose(r) PROVE Goal
  BY <1>0, <1>9 DEF Lose, GoodNewsIsTrue, QuietIsQuiet, CallExecuted, callVars, serverVars
<1>10. CASE UNCHANGED managementVars
  BY <1>0, <1>10 DEF managementVars, callVars, serverVars, GoodNewsIsTrue, QuietIsQuiet,
     CallExecuted
<1>11. QED
  BY <1>1, <1>2, <1>3, <1>5, <1>6, <1>7, <1>8, <1>9, <1>10 DEF ManagementNext

\* management.py:5-6, "fail loudly, not silently no-op": a call that returns was
\* executed, whatever was lost or repeated on the way.
THEOREM ReturnedIsExecuted ==
  ASSUME RefusalsRaise PROVE ManagementSpec => []ReturnedMeansExecuted
<1>1. OutcomeInvariant => ReturnedMeansExecuted
  BY DEF OutcomeInvariant, GoodNewsIsTrue, CallExecuted, ReturnedMeansExecuted
<1>2. QED
  BY <1>1, OutcomeInit, OutcomeStep, PTL DEF ManagementSpec

\* A switch that was thrown with nothing older under way stays thrown, though late
\* attempts of the same call are still executed after the call has returned.
THEOREM SwitchesHold ==
  ASSUME RefusalsRaise PROVE ManagementSpec => []SwitchHolds
<1>1. OutcomeInvariant => SwitchHolds
  BY DEF OutcomeInvariant, GoodNewsIsTrue, QuietIsQuiet, InPosition, SwitchHolds
<1>2. QED
  BY <1>1, OutcomeInit, OutcomeStep, PTL DEF ManagementSpec

\* management.py:71-72: what an audit with nothing older under way reports of the
\* policy is what the server has, whichever of its attempts was the one answered.
THEOREM AuditsAreCurrent ==
  ASSUME RefusalsRaise PROVE ManagementSpec => []AuditIsCurrent
<1>1. OutcomeInvariant => AuditIsCurrent
  <2> SUFFICES ASSUME OutcomeInvariant, result = "ok", quiet, operation = "audit",
                      report # "nothing"
               PROVE  /\ report = "live" <=> (policy.enabled /\ ~policy.passThrough)
                      /\ report = "disabled" <=> ~policy.enabled
    BY DEF AuditIsCurrent
  <2>1. report = Classify(policy)
    BY DEF OutcomeInvariant, QuietIsQuiet
  <2>2. policy.enabled \in BOOLEAN /\ policy.passThrough \in BOOLEAN
    BY DEF OutcomeInvariant, Bookkeeping, FullTypeOK, ManagementTypeOK, Policies
  <2>3. QED
    BY <2>1, <2>2 DEF Classify
<1>2. QED
  BY <1>1, OutcomeInit, OutcomeStep, PTL DEF ManagementSpec
===============================================================================
