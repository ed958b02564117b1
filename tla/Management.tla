------------------------------ MODULE Management ------------------------------
(***************************************************************************)
(* The management client of traitx/management.py: an admin script that      *)
(* changes policies and lists on the server, one call after the other.      *)
(*                                                                          *)
(* Its calls go through Transport.send(), which retries whatever the method *)
(* is.  Of send() this module keeps the retry loop; of the network, that a  *)
(* request may be executed long after its sender has given it up, or never, *)
(* and that its answer may be lost.  Policies are one policy with its two   *)
(* switches, a list is the set of its entries, and an entry is the request  *)
(* that created it, so that two entries for one call are told apart.  The   *)
(* portal token belongs to the client: another script that shares it may    *)
(* replace the token at any time.                                           *)
(***************************************************************************)
EXTENDS HttpStatus, FiniteSets

CONSTANTS
    MaxRetries,         \* Config.max_retries
    MaxCalls,           \* bound on the calls of the script
    Operations,         \* the operations the script uses
    Tokens,             \* the portal tokens
    Refusals            \* the statuses of requests that are not executed

ASSUME MaxRetriesAssumption == MaxRetries \in Nat
ASSUME MaxCallsAssumption == MaxCalls \in Nat
ASSUME RefusalsAssumption == Refusals \subseteq 300..599

Switches == {"enable", "disable", "shadow", "promote"}

ASSUME OperationsAssumption == Operations \subseteq Switches \union {"add", "delete", "audit"}

VARIABLES
    token,              \* ManagementClient._token, or "none"
    calls,              \* calls made so far; the number of the current one
    operation,          \* the operation of the current or last call
    bearer,             \* the token in the headers of that call
    attempt,            \* its attempt that is waiting for an answer, or Idle
    result,             \* "none", "ok" or "raised": how the last call ended
    report,             \* what the last call returned to the script
    answer,             \* the answer on its way back to the waiting attempt
    requests,           \* requests in the network, not yet executed
    executed,           \* history: the requests executed
    quiet,              \* history: no request was under way when the call began
    policy,             \* the server's policy
    entries             \* the server's list

callVars == <<token, calls, operation, bearer, quiet>>
serverVars == <<executed, policy, entries>>

managementVars == <<callVars, attempt, result, report, answer, requests, serverVars>>

Idle == -1
NoAnswer == [status |-> 0]

Policies == [enabled : BOOLEAN, passThrough : BOOLEAN]

Requests ==
    [call : 1..MaxCalls, attempt : 0..MaxRetries, op : Operations, token : Tokens]

Request(n, k, op, jwt) == [call |-> n, attempt |-> k, op |-> op, token |-> jwt]

Current == Request(calls, attempt, operation, bearer)

\* Attempts stay within the retry limit, requests are those of the calls made,
\* and the list holds nothing but what an executed request put there.
ManagementTypeOK ==
    /\ token \in Tokens \union {"none"}
    /\ calls \in 0..MaxCalls
    /\ attempt \in Idle..MaxRetries
    /\ result \in {"none", "ok", "raised"}
    /\ requests \subseteq Requests
    /\ executed \subseteq Requests
    /\ requests \intersect executed = {}
    /\ entries \subseteq executed
    /\ policy \in Policies

ManagementInit ==
    /\ token = "none"
    /\ calls = 0
    /\ operation = "none"
    /\ bearer = "none"
    /\ attempt = Idle
    /\ result = "none"
    /\ report = "none"
    /\ answer = NoAnswer
    /\ requests = {}
    /\ executed = {}
    /\ quiet = TRUE
    /\ policy \in Policies
    /\ entries = {}

-------------------------------------------------------------------------------
\* with_token(), by this script or by another one; a blank token is refused.
WithToken(jwt) ==
    /\ token' = jwt
    /\ UNCHANGED <<calls, operation, bearer, quiet, attempt, result, report, answer,
                   requests, serverVars>>

\* A slip in send(): the headers are made for every attempt anew.
SendFresh(n, k, op, jwt) ==
    /\ attempt' = k
    /\ answer' = NoAnswer
    /\ requests' = requests \union {Request(n, k, op, token)}
    /\ UNCHANGED report

\* An attempt goes out; whatever its predecessor is still owed is forgotten.
Send(n, k, op, jwt) ==
    /\ attempt' = k
    /\ answer' = NoAnswer
    /\ requests' = requests \union {Request(n, k, op, jwt)}
    /\ UNCHANGED report

Finish(how, what) ==
    /\ attempt' = Idle
    /\ answer' = NoAnswer
    /\ result' = how
    /\ report' = what
    /\ UNCHANGED requests

\* A public method up to the first request of its call.
Call(op) ==
    /\ attempt = Idle
    /\ calls < MaxCalls
    /\ token # "none"
    /\ calls' = calls + 1
    /\ operation' = op
    /\ bearer' = token
    /\ result' = "none"
    /\ quiet' = (requests = {})
    /\ Send(calls + 1, 0, op, token)
    /\ UNCHANGED <<token, serverVars>>

\* Nothing is sent: no token, a value or batch that is refused, a breaker that
\* is open.
CallRaises(op) ==
    /\ attempt = Idle
    /\ calls < MaxCalls
    /\ calls' = calls + 1
    /\ operation' = op
    /\ quiet' = (requests = {})
    /\ Finish("raised", "none")
    /\ UNCHANGED <<token, bearer, serverVars>>

\* A slip in audit_policies(): a policy is live whenever it is not a shadow.
ClassifyByShadow(p) == IF p.passThrough THEN "shadow" ELSE "live"

\* audit_policies() sorts each policy of the answer into one of three lists.
Classify(p) ==
    CASE ~p.enabled -> "disabled"
      [] p.enabled /\ p.passThrough -> "shadow"
      [] OTHER -> "live"

\* What a successful audit returns.  A body that cannot be decoded is an empty
\* answer to _call(), so that no policy is reported at all.
Audited(reply) == IF reply.decoded THEN Classify(reply.policy) ELSE "nothing"

\* A slip in _call(): only server errors are raised.
VerdictLenient(status) == IF status >= 500 THEN "raised" ELSE "ok"

\* What _call() makes of a final status.
Verdict(status) == IF status >= 400 THEN "raised" ELSE "ok"

ReceiveAnswer ==
    /\ answer # NoAnswer
    /\ IF Retryable(answer.status) /\ attempt < MaxRetries
       THEN Send(calls, attempt + 1, operation, bearer) /\ UNCHANGED result
       ELSE Finish(Verdict(answer.status),
                   IF operation = "audit" /\ Accepted(answer.status)
                   THEN Audited(answer) ELSE "none")
    /\ UNCHANGED <<callVars, serverVars>>

\* Slips: one attempt too many; transport_error not looked at.
AttemptLostAgain ==
    /\ attempt # Idle
    /\ IF attempt <= MaxRetries
       THEN Send(calls, attempt + 1, operation, bearer) /\ UNCHANGED result
       ELSE Finish("raised", "none")
    /\ UNCHANGED <<callVars, serverVars>>

AttemptLostQuietly ==
    /\ attempt # Idle
    /\ IF attempt < MaxRetries
       THEN Send(calls, attempt + 1, operation, bearer) /\ UNCHANGED result
       ELSE Finish("ok", "none")
    /\ UNCHANGED <<callVars, serverVars>>

\* The attempt times out or its connection breaks.
AttemptLost ==
    /\ attempt # Idle
    /\ IF attempt < MaxRetries
       THEN Send(calls, attempt + 1, operation, bearer) /\ UNCHANGED result
       ELSE Finish("raised", "none")
    /\ UNCHANGED <<callVars, serverVars>>

-------------------------------------------------------------------------------
\* The server and the network.  An answer reaches only an attempt that waits.
Reply(r, status, decoded) ==
    answer' = IF r = Current
              THEN [status |-> status, decoded |-> decoded, policy |-> policy] ELSE answer

\* Both kinds of delete take one entry away; an audit changes nothing.  What comes
\* back need not be the JSON the server sent.
Execute(r) ==
    /\ r \in requests
    /\ requests' = requests \ {r}
    /\ executed' = executed \union {r}
    /\ \E decoded \in BOOLEAN : Reply(r, 200, decoded)
    /\ policy' = CASE r.op = "enable"  -> [policy EXCEPT !.enabled = TRUE]
                   [] r.op = "disable" -> [policy EXCEPT !.enabled = FALSE]
                   [] r.op = "shadow"  -> [policy EXCEPT !.passThrough = TRUE]
                   [] r.op = "promote" -> [policy EXCEPT !.passThrough = FALSE]
                   [] OTHER -> policy
    /\ CASE r.op = "add" -> entries' = entries \union {r}
         [] r.op = "delete" /\ entries # {} -> \E e \in entries : entries' = entries \ {e}
         [] OTHER -> UNCHANGED entries
    /\ UNCHANGED <<callVars, attempt, result, report>>

\* The body of a refusal only words the exception.
Refuse(r, status) ==
    /\ r \in requests
    /\ requests' = requests \ {r}
    /\ Reply(r, status, FALSE)
    /\ UNCHANGED <<callVars, attempt, result, report, serverVars>>

Lose(r) ==
    /\ r \in requests
    /\ requests' = requests \ {r}
    /\ UNCHANGED <<callVars, attempt, result, report, answer, serverVars>>

ManagementNext ==
    \/ \E jwt \in Tokens : WithToken(jwt)
    \/ \E op \in Operations : Call(op) \/ CallRaises(op)
    \/ ReceiveAnswer
    \/ AttemptLost
    \/ \E r \in requests :
         \/ Execute(r)
         \/ \E status \in Refusals : Refuse(r, status)
         \/ Lose(r)

ManagementSpec == ManagementInit /\ [][ManagementNext]_managementVars

-------------------------------------------------------------------------------
\* management.py:5-6, "they raise on failure: an admin script should fail
\* loudly, not silently no-op": a call that returns was executed.
ReturnedMeansExecuted ==
    result = "ok" => \E r \in executed : r.call = calls

\* A switch may be thrown by several attempts of its call, but they all throw it
\* the same way: if the network was quiet when the call began and the call
\* returned, the policy is in the position it asked for, and a late attempt of
\* the same call cannot move it.
SwitchHolds ==
    (result = "ok" /\ quiet) =>
        CASE operation = "enable"  -> policy.enabled
          [] operation = "disable" -> ~policy.enabled
          [] operation = "shadow"  -> policy.passThrough
          [] operation = "promote" -> ~policy.passThrough
          [] OTHER -> TRUE

\* management.py:182: all the requests of one call speak for one operator, the one
\* whose token the client held when the call began, though another script may
\* replace the token before a retry.
CallKeepsToken ==
    \A r, s \in requests \union executed : r.call = s.call => r.token = s.token

\* management.py:71-72, "rather than assuming the control plane matches your code":
\* an audit that returns with nothing of an older call under way, and reports the
\* policy, finds it live exactly when the server enforces it, and disabled exactly
\* when it is not evaluated, whichever of its attempts was the one answered.
AuditIsCurrent ==
    (result = "ok" /\ quiet /\ operation = "audit" /\ report # "nothing") =>
        /\ report = "live" <=> (policy.enabled /\ ~policy.passThrough)
        /\ report = "disabled" <=> ~policy.enabled
===============================================================================
