------------------------------- MODULE Serialize ------------------------------
(***************************************************************************)
(* From a call of the client to the payload it posts: the shorthands of     *)
(* traitx/client.py, context_from_headers(), validate_event() and           *)
(* serialize_event() of traitx/serialize.py.                                *)
(*                                                                          *)
(* A text is [str |-> t], or [padded |-> t] with blanks around it; a        *)
(* timestamp is a text, [local |-> n] for a naive datetime or [aware |-> t] *)
(* with t = [local |-> n, offset |-> k], and becomes [utc |-> m].           *)
(* A group of fields is an [obj |-> ...] that names its fields, Null when   *)
(* they are None; of the plain fields of a user or an address the instances *)
(* have a few.  A forwarded header is the sequence of its hops.             *)
(***************************************************************************)
EXTENDS JsonValues

\* ValidationError or ConfigurationError in place of a result.
Rejected == [rejected |-> TRUE]

EventTypes == {"$login", "$registration", "$logout", "$transaction", "$challenge",
               "$profile", "$profile_update", "$profile_reset",
               "$password_reset_request", "$custom", "$generic"}
ChainHooks == {"$before_all", "$after_all"}
ReservedRootKeys == {"request_id", "type", "status", "created_at",
                     "session", "context", "user"}

\* The other texts with a leading "$" that the instances use.
StartsWithDollar(text) == text \in EventTypes \union ChainHooks \union {"$mfa"}

\* str(value or "").strip()
Text(value) ==
    CASE Is(value, "str") -> value.str
      [] Is(value, "padded") -> value.padded
      [] OTHER -> ""

Truthy(value) == Present(value) /\ value # [str |-> ""]

-------------------------------------------------------------------------------
\* A slip in validate_event(): the hooks are looked up before the blanks are cut.
ValidBeforeStrip(event) ==
    /\ ~(Is(event.type, "str") /\ event.type.str \in ChainHooks)
    /\ StartsWithDollar(Text(event.type))
    /\ Text(event.request_id) # ""
    /\ DOMAIN event.attributes \intersect ReservedRootKeys = {}

\* validate_event(event) returns.
Valid(event) ==
    /\ Text(event.type) \notin ChainHooks
    /\ StartsWithDollar(Text(event.type))
    /\ Text(event.request_id) # ""
    /\ DOMAIN event.attributes \intersect ReservedRootKeys = {}

\* to_iso(value, fallback): a naive datetime counts as UTC, a text goes as it is.
ToIso(value, fallback) ==
    IF Is(value, "aware") THEN [utc |-> value.aware.local - value.aware.offset]
    ELSE IF Is(value, "local") THEN [utc |-> value.local]
    ELSE IF Text(value) # "" THEN value ELSE fallback

PresentFields(fields) ==
    [obj |-> [k \in {f \in DOMAIN fields : Present(fields[f])} |-> fields[k]]]

Empty(value) == Is(value, "obj") /\ DOMAIN value.obj = {}

\* A slip in _compact(): a group is left as it is.
CompactShallow(fields) == PresentFields(fields)

\* _compact(): absent fields go, and so do groups with nothing in them.  The
\* events have groups of two levels.
Compact(fields) ==
    LET inner == [k \in DOMAIN fields |->
                    IF Is(fields[k], "obj") THEN PresentFields(fields[k].obj) ELSE fields[k]]
        kept  == {k \in DOMAIN fields : Present(inner[k]) /\ ~Empty(inner[k])}
    IN  [obj |-> [k \in kept |-> inner[k]]]

\* The groups of the payload; each is Null when the event has none.
Session(s) ==
    IF ~Present(s) THEN Null
    ELSE Compact([s.obj EXCEPT !.created_at = ToIso(@, Null)])

Context(c) ==
    IF ~Present(c) THEN Null
    ELSE LET kept == {k \in {"ip", "headers"} : Truthy(c.obj[k]) /\ c.obj[k] # [list |-> {}]}
         IN  [obj |-> [k \in kept |-> c.obj[k]]]

User(u) ==
    LET field(k) ==
            IF k \in {"created_at", "registered_at", "updated_at"} THEN ToIso(u.obj[k], Null)
            ELSE IF k = "address" /\ Present(u.obj[k]) THEN Compact(u.obj[k].obj)
            ELSE u.obj[k]
    IN  IF ~Present(u) THEN Null ELSE Compact([k \in DOMAIN u.obj |-> field(k)])

\* A slip in the last loop: `if value` for `if value is not None`.
SentAttributesTruthy(attributes) ==
    [k \in {a \in DOMAIN attributes :
              Truthy(attributes[a]) /\ attributes[a] # [num |-> 0]} |-> attributes[k]]

SentAttributes(attributes) ==
    [k \in {a \in DOMAIN attributes : Present(attributes[a])} |-> attributes[k]]

\* Two dicts as one; where both have a key, `first` has its way.
Merged(first, second) ==
    [k \in DOMAIN first \union DOMAIN second |->
        IF k \in DOMAIN first THEN first[k] ELSE second[k]]

\* serialize_event(event, now); an attribute never meets a reserved field.
SerializeEvent(event, now) ==
    LET own == [request_id |-> [str |-> Text(event.request_id)],
                type       |-> [str |-> Text(event.type)],
                status     |-> IF Truthy(event.status) THEN event.status
                               ELSE [str |-> "$succeeded"],
                created_at |-> ToIso(event.created_at, [utc |-> now])]
        groups == [session |-> Session(event.session), context |-> Context(event.context),
                   user |-> User(event.user)]
        filled == {g \in DOMAIN groups : Present(groups[g]) /\ ~Empty(groups[g])}
        sent   == [g \in filled |-> groups[g]]
    IN  IF Valid(event)
        THEN [obj |-> Merged(SentAttributes(event.attributes), Merged(sent, own))]
        ELSE Rejected

-------------------------------------------------------------------------------
InterestingHeaders == {"user-agent", "accept-language", "accept", "referer", "x-forwarded-for"}

\* context_from_headers(headers, remote_addr): the headers under their names in
\* lower case; the end user is the first hop.
ContextFromHeaders(headers, remote) ==
    LET hops  == IF "x-forwarded-for" \in DOMAIN headers THEN headers["x-forwarded-for"].hops
                 ELSE << >>
        first == IF hops # << >> THEN Text(hops[1]) ELSE ""
        sent  == {h \in InterestingHeaders \intersect DOMAIN headers : Truthy(headers[h])}
    IN  [obj |-> [ip      |-> IF first # "" THEN [str |-> first]
                              ELSE IF Truthy(remote) THEN remote ELSE Null,
                  headers |-> [list |-> {<<h, headers[h]>> : h \in sent}]]]

Shorthands == [login          |-> "$login",
               registration   |-> "$registration",
               transaction    |-> "$transaction",
               password_reset |-> "$password_reset_request",
               profile_update |-> "$profile_update",
               challenge      |-> "$challenge"]

\* The RiskEvent that a method of the client makes of its arguments.
\* evaluate_transaction() merges its own keywords under the attributes;
\* report_challenge_outcome() drops a status it is given.
EventOf(c) ==
    LET named == PresentFields(c.keywords).obj
        event == [c.event EXCEPT
                    !.context = IF Present(c.inbound)
                                THEN ContextFromHeaders(c.inbound.headers, c.inbound.remote)
                                ELSE Null]
    IN  CASE c.method = "evaluate" -> event
          [] c.method = "transaction" ->
                [event EXCEPT !.type = [str |-> "$transaction"],
                              !.attributes = Merged(event.attributes, named)]
          [] c.method = "challenge" ->
                [event EXCEPT !.type = [str |-> "$challenge"],
                              !.status = [str |-> IF c.passed THEN "$succeeded" ELSE "$failed"]]
          [] OTHER -> [event EXCEPT !.type = [str |-> Shorthands[c.method]]]
===============================================================================
