------------------------------- MODULE FlaskApp -------------------------------
(***************************************************************************)
(* The application of examples/flask_app.py: its routes, served by threads  *)
(* that share one client, with health checks, lookups, management calls and *)
(* a doctor() run beside them.                                              *)
(*                                                                          *)
(* A login whose password is wrong is answered before the client is asked   *)
(* and does not appear.  What a route answers is a function of what the     *)
(* client returned to it.                                                   *)
(***************************************************************************)
EXTENDS Client

Routes == {"login", "otp_right", "otp_wrong", "transfer"}

\* A slip in login() and transfer(): whoever is not denied goes through.
GateUnlessDenied(decision, passed, challenged) ==
    IF decision.action = "deny" THEN "denied" ELSE passed

\* is_denied(), requires_challenge(), and the rest.
Gate(decision, passed, challenged) ==
    CASE decision.action = "deny" -> "denied"
      [] decision.action = "challenge" -> challenged
      [] OTHER -> passed

\* The answer of a route.  An exception is an internal error, and so is a
\* decision that login() and transfer() cannot read.
Response(r) ==
    CASE r.raises -> "error"
      [] ~r.raises /\ r.op = "otp_right" -> "token"
      [] ~r.raises /\ r.op = "otp_wrong" -> "invalid code"
      [] ~r.raises /\ r.op \in {"login", "transfer"} ->
            IF r.hook = "garbage" THEN "error"
            ELSE IF r.op = "login" THEN Gate(r.value, "token", "otp")
            ELSE Gate(r.value, "submitted", "3ds")

\* A request comes in, with or without X-TraitX-Request-Id.
Serve(c) == \E route \in Routes, id \in {"r1", ""} : Evaluate(c, route, id)

FlaskNext ==
    \/ \E c \in Callers : Serve(c) \/ ClientStep(c)
    \/ TimePasses

FlaskSpec == ClientInit /\ [][FlaskNext]_clientVars

-------------------------------------------------------------------------------
Gated == returned.op \in {"login", "transfer"} /\ returned.hook = "keep"

\* The chain said a, and a matched policy that carries it is live, or none is
\* named and the server stands for it.
LiveAction(body, a) ==
    /\ ChainAction(body) = a
    /\ \/ MatchedPolicies(body) = {}
       \/ \E p \in MatchedPolicies(body) : p.action = a /\ ~p.passThrough

\* decision.py:207-213: what a live policy denies or challenges in the answer to a
\* request gets neither token nor transfer out of that request, and a denied one
\* no second chance, whatever the breaker and the other threads do meanwhile.
GateHolds ==
    LET h == returned.outcome
    IN  (Gated /\ ~h.error /\ Accepted(h.status)) =>
            /\ LiveAction(h.body, "deny") => Response(returned) \in {"denied", "error"}
            /\ LiveAction(h.body, "challenge") => Response(returned) \in {"otp", "3ds", "error"}

\* The call of a login with the collector's id failed, and there was no answer to
\* read a decision from.
Failed(h) == h.error \/ h.status >= 400 \/ ~Present(h.body)
FailedLogin == returned.op = "login" /\ returned.id # "" /\ Failed(returned.outcome)

\* flask_app.py:29-30, "TraitX down must not block logins", "a rotated key must not
\* block logins either": whoever proved the password gets the token when send()
\* returned that the call failed, in whatever way, or that the breaker is open.  An
\* answer whose score is beyond a float is left to OutageNeverBlocks.
DegradedLoginPasses ==
    (FailedLogin /\ returned.hook = "keep" /\ ~Is(Score(returned.outcome.body), "huge"))
        => Response(returned) = "token"

\* The same lines and client.py:73-75, "Never raises for network or API problems":
\* the login passes however the call ended, an exception from send() and an error
\* answer with any score included.
OutageNeverBlocks ==
    (FailedLogin /\ returned.hook \in {"keep", "none"}) => Response(returned) = "token"
===============================================================================
