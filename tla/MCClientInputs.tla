---------------------------- MODULE MCClientInputs ----------------------------
(* Instances of ClientInputs for TLC: the options and the calls to try. *)
EXTENDS PayloadFields

Str(text) == [str |-> text]
Padded(text) == [padded |-> text]
Number(n) == [num |-> n]
Fields(f) == [obj |-> f]

\* Timestamps: none, blank, a text, a naive and an aware datetime.
Aware == [aware |-> [local |-> 5, offset |-> 3]]
Times == {Null, Padded(""), Str("2026-08-08T16:04:11Z"), [local |-> 5], Aware}

Sessions ==
    {Null} \union {Fields([id |-> i, created_at |-> t]) : i \in {Null, Str("s1")}, t \in Times}

Addresses ==
    {Null} \union {Fields([city |-> c, latitude |-> l]) : c \in {Null, Str("Taif")}, l \in {Null, Number(0)}}

Users ==
    {Null} \union {Fields([id |-> i, created_at |-> c, registered_at |-> t, address |-> a]) :
                     i \in {Null, Str("u1")}, c \in {Null, Padded("")}, t \in {Null, Aware}, a \in Addresses}

Plain == [type |-> Str("$login"), request_id |-> Str("r1"), status |-> Null, created_at |-> Null,
          session |-> Null, context |-> Null, user |-> Null, attributes |-> << >>]

Attributes ==
    { << >>, [amount |-> Number(0)], [amount |-> Null], [note |-> Str(""), flag |-> [bool |-> FALSE]],
      [type |-> Str("$login")], [user |-> Null], [payee_id |-> Str("p1"), items |-> [list |-> {}]] }

Events ==
    {[Plain EXCEPT !.type = t, !.request_id = r, !.status = s] :
        t \in {Null, Padded(""), Str("$login"), Padded("$login"), Str("login"), Str("$mfa"),
               Str("$before_all"), Padded("$after_all")},
        r \in {Null, Padded(""), Str("r1"), Padded("r1")},
        s \in {Null, Str(""), Str("$failed"), Str("$pending")}}
      \union {[Plain EXCEPT !.session = s, !.created_at = t] : s \in Sessions, t \in Times}
      \union {[Plain EXCEPT !.user = u, !.attributes = a] : u \in Users, a \in Attributes}

NoKeywords == [amount |-> Null]
Made(method, event, keywords, passed, inbound) ==
    [method |-> method, event |-> event, keywords |-> keywords, passed |-> passed, inbound |-> inbound]

\* What a proxy forwards.
Inbound ==
    {Null} \union
    {[headers |-> h, remote |-> r] :
        h \in { << >>, [referer |-> Str("")],
                [h \in {"x-forwarded-for", "accept"} |->
                    IF h = "accept" THEN Str("*/*")
                    ELSE [hops |-> <<Padded("10.0.0.7"), Str("10.0.0.1")>>]],
                [h \in {"x-forwarded-for"} |-> [hops |-> <<Str(""), Str("10.0.0.1")>>]],
                [h \in {"x-forwarded-for", "cookie"} |->
                    IF h = "cookie" THEN Str("secret") ELSE [hops |-> <<Str("10.0.0.7")>>]] },
        r \in {Null, Str(""), Str("10.0.0.1")}}

Keywords == {[amount |-> a, payee_id |-> p] : a \in {Null, Number(0), Number(9)}, p \in {Null, Str("p2")}}

MadeCalls ==
    {Made("evaluate", e, NoKeywords, FALSE, Null) : e \in Events}
      \union {Made("transaction", [Plain EXCEPT !.attributes = a], k, FALSE, i) :
                a \in Attributes, k \in Keywords, i \in Inbound}
      \union {Made(m, [Plain EXCEPT !.request_id = r, !.status = s], NoKeywords, p, i) :
                m \in DOMAIN Shorthands \ {"transaction"}, r \in {Null, Str("r1")},
                s \in {Null, Str("$failed")}, p \in BOOLEAN, i \in Inbound}

Default == [base_url |-> [kind |-> "absolute", padded |-> FALSE, tail |-> ""],
            api_key |-> [class |-> "private", padded |-> FALSE],
            challengeAt |-> 40, denyAt |-> 70, timeout |-> 2500, retries |-> 2,
            failureMode |-> "allow", clientErrorMode |-> "allow"]

EveryOptions ==
    {[Default EXCEPT !.base_url = [kind |-> u, padded |-> p, tail |-> s],
                     !.api_key = [class |-> k, padded |-> q]] :
        u \in {"", "relative", "scheme", "absolute"}, p \in BOOLEAN, s \in {"", "slashes", "blank_slashes"},
        k \in {"", "public", "private", "other"}, q \in BOOLEAN}
      \union
    {[Default EXCEPT !.challengeAt = c, !.denyAt = d, !.timeout = t, !.retries = r, !.failureMode = f] :
        c \in {0, 70, 71}, d \in {0, 70}, t \in {0, 1}, r \in {-1, 0}, f \in {"deny", "block"}}

\* Every call with the default options, and every choice of options with one call.
MadeInputs ==
    ({Default} \X MadeCalls)
      \union (EveryOptions \X {Made("evaluate", Plain, NoKeywords, FALSE, Null)})
===============================================================================
