----------------------------- MODULE PayloadFields ----------------------------
(***************************************************************************)
(* What the payload of ClientInputs should say, stated a second time, field *)
(* by field from the arguments of the call.  Get() of a field that is not   *)
(* there is Null, so equal fields are the same value, or missing from both. *)
(***************************************************************************)
EXTENDS ClientInputs

Names(value) == IF Is(value, "obj") THEN DOMAIN value.obj ELSE {}

\* An instant of the caller's, as UTC.
Instant(value) ==
    IF Is(value, "aware") THEN [utc |-> value.aware.local - value.aware.offset]
    ELSE IF Is(value, "local") THEN [utc |-> value.local]
    ELSE IF Text(value) = "" THEN Null ELSE value

\* The end user is the first hop, if it is named, or the peer.
EndUser(inbound) ==
    LET headers == inbound.headers
        named   == /\ "x-forwarded-for" \in DOMAIN headers
                   /\ headers["x-forwarded-for"].hops # << >>
                   /\ Text(headers["x-forwarded-for"].hops[1]) # ""
    IN  IF named THEN [str |-> Text(headers["x-forwarded-for"].hops[1])]
        ELSE IF inbound.remote = [str |-> ""] THEN Null ELSE inbound.remote

\* What call c says under the key k, outside the groups.
SaidAtRoot(c, k) ==
    LET e == c.event
        status  == IF c.method = "challenge"
                   THEN [str |-> IF c.passed THEN "$succeeded" ELSE "$failed"]
                   ELSE IF e.status \in {Null, [str |-> ""]} THEN [str |-> "$succeeded"] ELSE e.status
        created == IF Instant(e.created_at) = Null THEN [utc |-> Now] ELSE Instant(e.created_at)
        keyword == IF c.method = "transaction" /\ k \in DOMAIN c.keywords THEN c.keywords[k] ELSE Null
    IN  CASE k = "request_id" -> [str |-> Text(e.request_id)]
          [] k = "type" -> [str |-> IF c.method = "evaluate" THEN Text(e.type)
                                    ELSE Shorthands[c.method]]
          [] k = "status" -> status
          [] k = "created_at" -> created
          [] OTHER -> IF k \in DOMAIN e.attributes THEN e.attributes[k] ELSE keyword

\* What a session or a user says under the key k.
SaidIn(group, k) ==
    IF k \in {"created_at", "registered_at", "updated_at"} THEN Instant(Get(group, k))
    ELSE Get(group, k)

Groups == {"session", "context", "user"}

\* A keyword of evaluate_transaction() and an attribute of the same name: the
\* attribute goes, even one that is None.
Contradictory(c) ==
    c.method = "transaction" /\ DOMAIN c.keywords \intersect DOMAIN c.event.attributes # {}

\* SPEC.md 3.1 and 3.2: what is posted says what the caller said and nothing else:
\* every value that is not None arrives, at the root or in its group, zero and
\* False included, instants are those the caller meant, and no field takes the
\* place of another.
PayloadSaysCall ==
    (Posted /\ ~Contradictory(call)) =>
        LET e       == call.event
            root    == {"request_id", "type", "status", "created_at"}
                         \union DOMAIN e.attributes \union DOMAIN call.keywords
            session == Get(payload, "session")
            user    == Get(payload, "user")
            context == Get(payload, "context")
        IN  /\ \A k \in (root \union Names(payload)) \ Groups :
                 Get(payload, k) = SaidAtRoot(call, k)
            /\ \A k \in Names(e.session) \union Names(session) :
                 Get(session, k) = SaidIn(e.session, k)
            /\ \A k \in (Names(e.user) \union Names(user)) \ {"address"} :
                 Get(user, k) = SaidIn(e.user, k)
            /\ \A k \in Names(Get(e.user, "address")) \union Names(Get(user, "address")) :
                 Get(Get(user, "address"), k) = Get(Get(e.user, "address"), k)
            /\ Names(context) \subseteq {"ip", "headers"}
            /\ Get(context, "ip")
                 = IF Present(call.inbound) THEN EndUser(call.inbound) ELSE Null

\* A value is no group, or a group with something in it and nothing left out.
Filled(value) ==
    Is(value, "obj") => DOMAIN value.obj # {} /\ \A k \in DOMAIN value.obj : Present(value.obj[k])

\* A group of the payload is never hollow, however deep what was left out lay: no
\* None and no empty group is posted in it or for it.
NoHollowGroup ==
    Posted => \A g \in Groups \intersect DOMAIN payload.obj :
                 LET group == payload.obj[g]
                 IN  Filled(group) /\ \A k \in Names(group) : Filled(group.obj[k])
===============================================================================
