------------------------------- MODULE InputProofs ------------------------------
(***************************************************************************)
(* Proofs about what ClientInputs posts, for every call and every choice of *)
(* options.                                                                 *)
(***************************************************************************)
EXTENDS PayloadFields, TLAPS

\* No attribute and no group takes the place of the type or of the request id
\* (serialize.py: validate_event() refuses reserved keys).
LEMMA OwnFields ==
  ASSUME NEW event, NEW now, Valid(event)
  PROVE  LET fields == SerializeEvent(event, now).obj
         IN  /\ fields.type = [str |-> Text(event.type)]
             /\ fields.request_id = [str |-> Text(event.request_id)]
<1> DEFINE own == [request_id |-> [str |-> Text(event.request_id)],
                   type       |-> [str |-> Text(event.type)],
                   status     |-> IF Truthy(event.status) THEN event.status
                                  ELSE [str |-> "$succeeded"],
                   created_at |-> ToIso(event.created_at, [utc |-> now])]
           groups == [session |-> Session(event.session), context |-> Context(event.context),
                      user |-> User(event.user)]
           filled == {g \in DOMAIN groups : Present(groups[g]) /\ ~Empty(groups[g])}
           sent == [g \in filled |-> groups[g]]
           attributes == SentAttributes(event.attributes)
<1>1. SerializeEvent(event, now) = [obj |-> Merged(attributes, Merged(sent, own))]
  BY Zenon DEF SerializeEvent
<1>2. DOMAIN sent \subseteq {"session", "context", "user"}
  OBVIOUS
<1>3. DOMAIN attributes \subseteq DOMAIN event.attributes
  BY DEF SentAttributes
<1>4. DOMAIN event.attributes \intersect ReservedRootKeys = {}
  BY DEF Valid
<1>5. {"type", "request_id"} \subseteq ReservedRootKeys \intersect DOMAIN own
  BY DEF ReservedRootKeys
<1>6. /\ own["type"] = [str |-> Text(event.type)]
      /\ own["request_id"] = [str |-> Text(event.request_id)]
  OBVIOUS
<1> HIDE DEF own, sent, attributes
<1>7. ASSUME NEW key \in {"type", "request_id"}
      PROVE  (Merged(attributes, Merged(sent, own)))[key] = own[key]
  <2>1. key \notin DOMAIN attributes /\ key \notin DOMAIN sent /\ key \in DOMAIN own
    BY <1>2, <1>3, <1>4, <1>5
  <2>2. QED
    BY <2>1 DEF Merged
<1>8. QED
  BY <1>1, <1>6, <1>7

\* SPEC.md section 4: whatever a caller builds, no chain hook and no event without
\* an id is posted, because validate_event() looks at what will be sent.
THEOREM HooksAreRefused == InputSpec => []NoHookPosted
<1>1. InputInit => NoHookPosted
  BY DEF InputInit, NoHookPosted, Posted
<1>2. NoHookPosted /\ [InputNext]_inputVars => NoHookPosted'
  <2> SUFFICES ASSUME NoHookPosted, [InputNext]_inputVars PROVE NoHookPosted'
    OBVIOUS
  <2>1. CASE UNCHANGED payload
    BY <2>1 DEF NoHookPosted, Posted
  <2>2. CASE Post
    <3> DEFINE event == EventOf(call)
    <3> SUFFICES ASSUME payload' # Rejected
                 PROVE  /\ payload'.obj.type.str \notin ChainHooks
                        /\ payload'.obj.request_id.str # ""
      BY DEF NoHookPosted, Posted
    <3>1. payload' = SerializeEvent(event, Now)
      BY <2>2 DEF Post
    <3>2. Valid(event)
      BY <3>1, Zenon DEF SerializeEvent
    <3>3. Text(event.type) \notin ChainHooks /\ Text(event.request_id) # ""
      BY <3>2 DEF Valid
    <3> HIDE DEF event
    <3>4. /\ payload'.obj.type = [str |-> Text(event.type)]
          /\ payload'.obj.request_id = [str |-> Text(event.request_id)]
      BY <3>1, <3>2, OwnFields
    <3>5. \A text : [str |-> text].str = text
      OBVIOUS
    <3>6. QED
      BY <3>3, <3>4, <3>5, Zenon
  <2>3. QED
    BY <2>1, <2>2 DEF InputNext, Construct, inputVars
<1>3. QED
  BY <1>1, <1>2, PTL DEF InputSpec

\* A configuration that a call can be made with.
Usable(c) ==
    /\ c.api_key.class \in {"private", "other"}
    /\ StartsAsHttp(c.base_url) /\ c.base_url.tail # "slashes" /\ ~c.base_url.padded
    /\ c.retries + 1 > 0
    /\ c.timeout > 0
    /\ c.challengeAt <= c.denyAt

\* build_config() trims the key and the address before it looks at them.
LEMMA CleanedUrl ==
  ASSUME NEW url PROVE CleanUrl(url).tail # "slashes" /\ ~CleanUrl(url).padded
<1>1. CleanUrl(url).tail \in {"", "blank"}
  BY DEF CleanUrl
<1>2. ~CleanUrl(url).padded
  BY Zenon DEF CleanUrl
<1>3. QED
  BY <1>1, <1>2

\* A public key is recognised behind its blanks: what is left is a private key or one of
\* another kind.
LEMMA CleanedKey ==
  ASSUME NEW key \in Keys, CleanKey(key).class # "", ~LooksPublic(CleanKey(key))
  PROVE  CleanKey(key).class \in {"private", "other"}
<1>1. key.class \in {"", "public", "private", "other"} /\ CleanKey(key).class = key.class
  BY DEF Keys, CleanKey
<1>2. ~CleanKey(key).padded
  BY Zenon DEF CleanKey
<1>3. CleanKey(key).class # "public"
  BY <1>2, Zenon DEF LooksPublic
<1>4. QED
  BY <1>1, <1>3

\* build_config() returns what a call can be made with, or raises.
LEMMA BuiltIsUsable ==
  ASSUME NEW o \in Options, BuildConfig(o) # ConfigRejected
  PROVE  Usable(BuildConfig(o))
<1> DEFINE c == [o EXCEPT !.base_url = CleanUrl(@), !.api_key = CleanKey(@)]
<1>1. /\ BuildConfig(o) = c
      /\ StartsAsHttp(CleanUrl(o.base_url)) /\ CleanKey(o.api_key).class # ""
      /\ ~LooksPublic(CleanKey(o.api_key)) /\ ~(o.challengeAt > o.denyAt)
      /\ ~(o.timeout <= 0) /\ ~(o.retries < 0)
  BY Zenon DEF BuildConfig
<1>2. /\ o.base_url \in Urls /\ o.api_key \in Keys
      /\ o.challengeAt \in Int /\ o.denyAt \in Int /\ o.timeout \in Int /\ o.retries \in Int
  BY DEF Options
<1>3. /\ c.base_url = CleanUrl(o.base_url) /\ c.api_key = CleanKey(o.api_key)
      /\ c.challengeAt = o.challengeAt /\ c.denyAt = o.denyAt
      /\ c.timeout = o.timeout /\ c.retries = o.retries
  BY DEF Options
<1> HIDE DEF c
<1>4. c.api_key.class \in {"private", "other"} /\ c.base_url = CleanUrl(o.base_url)
  BY <1>1, <1>2, <1>3, CleanedKey
<1>5. StartsAsHttp(c.base_url) /\ c.base_url.tail # "slashes" /\ ~c.base_url.padded
  BY <1>1, <1>4, CleanedUrl, Zenon
<1>6. c.retries + 1 > 0 /\ c.timeout > 0 /\ c.challengeAt <= c.denyAt
  <2>1. ~(o.challengeAt > o.denyAt) /\ ~(o.timeout <= 0) /\ ~(o.retries < 0)
    BY <1>1
  <2>2. o.challengeAt \in Int /\ o.denyAt \in Int /\ o.timeout \in Int /\ o.retries \in Int
    BY <1>2
  <2>3. /\ c.challengeAt = o.challengeAt /\ c.denyAt = o.denyAt
        /\ c.timeout = o.timeout /\ c.retries = o.retries
    BY <1>3
  <2>4. QED
    BY <2>1, <2>2, <2>3
<1>7. QED
  BY <1>1, <1>4, <1>5, <1>6 DEF Usable

\* Nothing is posted before there is a configuration.
ConfigInvariant ==
    /\ options \in Options
    /\ config \in {Null, ConfigRejected} \/ Usable(config)
    /\ Posted => config \notin {Null, ConfigRejected}

\* SPEC.md section 8, config.py:96-130: no client is made of a public key, an address
\* that does not begin as one or options that leave no attempt, so none posts.
THEOREM UsableConfigPosts == InputSpec => []PostsWithUsableConfig
<1>1. InputInit => ConfigInvariant
  BY InputsAssumption DEF InputInit, ConfigInvariant, Posted
<1>2. ConfigInvariant /\ [InputNext]_inputVars => ConfigInvariant'
  <2> SUFFICES ASSUME ConfigInvariant, [InputNext]_inputVars PROVE ConfigInvariant'
    OBVIOUS
  <2>1. CASE Construct
    <3>1. config' = ConfigRejected \/ Usable(config')
      BY <2>1, BuiltIsUsable DEF Construct, ConfigInvariant
    <3>2. options' = options /\ ~Posted /\ ~Posted'
      BY <2>1 DEF Construct, ConfigInvariant, Posted
    <3>3. QED
      BY <3>1, <3>2 DEF ConfigInvariant
  <2>2. CASE Post
    BY <2>2 DEF Post, ConfigInvariant, Usable
  <2>3. CASE UNCHANGED inputVars
    BY <2>3 DEF inputVars, ConfigInvariant, Posted, Usable
  <2>4. QED
    BY <2>1, <2>2, <2>3 DEF InputNext
<1>3. ConfigInvariant => PostsWithUsableConfig
  BY DEF ConfigInvariant, PostsWithUsableConfig, Usable
<1>4. QED
  BY <1>1, <1>2, <1>3, PTL DEF InputSpec

-------------------------------------------------------------------------------
(***************************************************************************)
(* What _compact() keeps.                                                   *)
(***************************************************************************)
\* Reading a field of an object, and of None.
LEMMA ObjectFields ==
  ASSUME NEW fields
  PROVE  LET object == [obj |-> fields]
         IN  /\ Is(object, "obj") /\ Present(object)
             /\ object.obj = fields /\ Names(object) = DOMAIN fields
             /\ \A k : Get(object, k) = IF k \in DOMAIN fields THEN fields[k] ELSE Null
  BY DEF Is, Present, Names, Get

\* None has no fields.
LEMMA NullFields ==
  ~Is(Null, "obj") /\ ~Present(Null) /\ Names(Null) = {} /\ \A k : Get(Null, k) = Null
  BY DEF Is, Present, Names, Get, Null

\* What becomes of a field, and whether it stays.
Inner(value) == IF Is(value, "obj") THEN PresentFields(value.obj) ELSE value
Kept(value) == Present(value) /\ ~Empty(value)

\* _compact() drops what is None or an empty group, after it has looked into the groups.
LEMMA CompactKeeps ==
  ASSUME NEW fields
  PROVE  LET kept == {k \in DOMAIN fields : Kept(Inner(fields[k]))}
         IN  Compact(fields) = [obj |-> [k \in kept |-> Inner(fields[k])]]
<1> DEFINE inner == [k \in DOMAIN fields |-> Inner(fields[k])]
           kept == {k \in DOMAIN fields : Present(inner[k]) /\ ~Empty(inner[k])}
<1>1. Compact(fields) = [obj |-> [k \in kept |-> inner[k]]]
  BY Zenon DEF Compact, Inner
<1>2. kept = {k \in DOMAIN fields : Kept(Inner(fields[k]))}
  BY DEF Kept
<1>3. [k \in kept |-> inner[k]] = [k \in kept |-> Inner(fields[k])]
  OBVIOUS
<1>4. QED
  BY <1>1, <1>2, <1>3

\* A field that is no group stays as it is, unless it is None.
Scalar(value) == Proper(value) /\ ~Is(value, "obj")

\* _compact() looks into no such field.
LEMMA ScalarStays ==
  ASSUME NEW value, Scalar(value)
  PROVE  Inner(value) = value /\ (Kept(value) \/ value = Null)
  BY DEF Scalar, Proper, Inner, Kept, Empty

\* A field that is no group says the same after _compact(), zero and False included.
LEMMA CompactScalars ==
  ASSUME NEW fields, NEW k, k \in DOMAIN fields => Scalar(fields[k])
  PROVE  Get(Compact(fields), k) = IF k \in DOMAIN fields THEN fields[k] ELSE Null
<1> DEFINE kept == {j \in DOMAIN fields : Kept(Inner(fields[j]))}
           there == [j \in kept |-> Inner(fields[j])]
<1>1. Compact(fields) = [obj |-> there]
  BY CompactKeeps
<1>2. Get(Compact(fields), k) = IF k \in kept THEN there[k] ELSE Null
  BY <1>1, ObjectFields
<1>3. k \in DOMAIN fields => Inner(fields[k]) = fields[k] /\ (k \in kept \/ fields[k] = Null)
  BY ScalarStays
<1>4. QED
  BY <1>2, <1>3

\* What _compact() returns has no None and no empty group in it.
LEMMA InnerFilled ==
  ASSUME NEW value, Kept(Inner(value)) PROVE Present(Inner(value)) /\ Filled(Inner(value))
<1>1. CASE Is(value, "obj")
  <2> DEFINE there == {k \in DOMAIN value.obj : Present(value.obj[k])}
             fields == [k \in there |-> value.obj[k]]
  <2>1. Inner(value) = [obj |-> fields]
    BY <1>1, Zenon DEF Inner, PresentFields
  <2>2. Is([obj |-> fields], "obj") /\ [obj |-> fields].obj = fields
    BY ObjectFields
  <2>3. DOMAIN fields # {} /\ \A k \in DOMAIN fields : Present(fields[k])
    BY <2>1, <2>2 DEF Kept, Empty
  <2> HIDE DEF fields
  <2>4. QED
    BY <2>1, <2>2, <2>3 DEF Kept, Filled
<1>2. CASE ~Is(value, "obj")
  BY <1>2 DEF Inner, Kept, Filled
<1>3. QED
  BY <1>1, <1>2

\* and neither has the group itself, unless it is left out whole.
LEMMA CompactFilled ==
  ASSUME NEW fields, ~Empty(Compact(fields))
  PROVE  LET group == Compact(fields)
         IN  Filled(group) /\ \A k \in Names(group) : Filled(group.obj[k])
<1> DEFINE kept == {j \in DOMAIN fields : Kept(Inner(fields[j]))}
           there == [j \in kept |-> Inner(fields[j])]
<1>1. Compact(fields) = [obj |-> there]
  BY CompactKeeps
<1>2. /\ Is([obj |-> there], "obj") /\ [obj |-> there].obj = there
      /\ Names([obj |-> there]) = DOMAIN there
  BY ObjectFields
<1>3. \A k \in DOMAIN there : Present(there[k]) /\ Filled(there[k])
  BY InnerFilled
<1> HIDE DEF there
<1>4. DOMAIN there # {}
  BY <1>1, <1>2 DEF Empty
<1>5. QED
  BY <1>1, <1>2, <1>3, <1>4 DEF Filled

-------------------------------------------------------------------------------
(***************************************************************************)
(* What the groups of the payload say.                                      *)
(***************************************************************************)
\* to_iso() sends the instant that the caller meant, or the fallback if there is none.
LEMMA IsoIsInstant ==
  ASSUME NEW value
  PROVE  /\ ToIso(value, Null) = Instant(value)
         /\ \A n : ToIso(value, [utc |-> n]) = IF Instant(value) = Null THEN [utc |-> n]
                                               ELSE Instant(value)
         /\ Instant(Null) = Null
         /\ Scalar(value) => Scalar(Instant(value))
<1>1. \A n : /\ [utc |-> n] # Null /\ Present([utc |-> n]) /\ ~Is([utc |-> n], "obj")
  BY DEF Null, Present, Is
<1>2. Text(value) # "" => value # Null
  BY DEF Text, Is, Null
<1>3. Instant(Null) = Null
  BY DEF Instant, Text, Is, Null
<1>4. Scalar(Null)
  BY NullFields DEF Scalar, Proper
<1>5. ToIso(value, Null) = Instant(value)
  BY Zenon DEF ToIso, Instant
<1>6. ASSUME NEW n PROVE ToIso(value, [utc |-> n]) = IF Instant(value) = Null THEN [utc |-> n]
                                                     ELSE Instant(value)
  <2>1. CASE Is(value, "aware")
    BY <1>1, <2>1 DEF ToIso, Instant
  <2>2. CASE ~Is(value, "aware") /\ Is(value, "local")
    BY <1>1, <2>2 DEF ToIso, Instant
  <2>3. CASE ~Is(value, "aware") /\ ~Is(value, "local")
    BY <1>2, <2>3, Zenon DEF ToIso, Instant
  <2>4. QED
    BY <2>1, <2>2, <2>3
<1>7. ASSUME Scalar(value) PROVE Scalar(Instant(value))
  <2>1. \A n : Scalar([utc |-> n])
    BY <1>1 DEF Scalar, Proper
  <2>2. QED
    BY <1>4, <1>7, <2>1, Zenon DEF Instant
<1>8. QED
  BY <1>3, <1>5, <1>6, <1>7

\* What the payload has of a group.
Shown(group) == IF Kept(group) THEN group ELSE Null

\* A group that _compact() has emptied is left out, and says as much as before.
LEMMA LeftOutSaysNothing ==
  ASSUME NEW group, NEW k PROVE Get(Shown(group), k) = Get(group, k)
  BY NullFields DEF Shown, Kept, Empty, Present, Is, Get

\* The instants of a session or a user.
Instants == {"created_at", "registered_at", "updated_at"}

\* The session that is sent says what the session of the event says.
LEMMA SessionSays ==
  ASSUME NEW s, NEW k,
         Present(s) => HasScalars(s, {}) /\ DOMAIN s.obj \subseteq {"id", "created_at"}
  PROVE  Get(Session(s), k) = SaidIn(s, k)
<1>1. CASE ~Present(s)
  <2>1. Session(s) = Null /\ Get(s, k) = Null
    BY <1>1 DEF Session, Present, Is, Get
  <2>2. QED
    BY <2>1, NullFields, IsoIsInstant DEF SaidIn
<1>2. CASE Present(s)
  <2> DEFINE fields == [s.obj EXCEPT !.created_at = ToIso(@, Null)]
  <2>1. Session(s) = Compact(fields)
    BY <1>2 DEF Session
  <2>2. DOMAIN fields = DOMAIN s.obj
    OBVIOUS
  <2>3. k \in DOMAIN s.obj => fields[k] = IF k = "created_at" THEN Instant(s.obj[k]) ELSE s.obj[k]
    BY IsoIsInstant
  <2>4. k \in DOMAIN s.obj => Scalar(s.obj[k])
    BY <1>2 DEF HasScalars, Scalar
  <2> HIDE DEF fields
  <2>5. k \in DOMAIN fields => Scalar(fields[k])
    BY <2>2, <2>3, <2>4, IsoIsInstant
  <2>6. Get(Session(s), k) = IF k \in DOMAIN fields THEN fields[k] ELSE Null
    BY <2>1, <2>5, CompactScalars
  <2>7. Get(s, k) = IF k \in DOMAIN s.obj THEN s.obj[k] ELSE Null
    BY <1>2 DEF Get, HasScalars
  <2>8. k \in DOMAIN s.obj => k \in {"id", "created_at"}
    BY <1>2
  <2>9. QED
    BY <2>2, <2>3, <2>6, <2>7, <2>8, IsoIsInstant DEF SaidIn
<1>3. QED
  BY <1>1, <1>2

\* The fields of the user that serialize_event() hands to _compact().
UserField(u, k) ==
    IF k \in {"created_at", "registered_at", "updated_at"} THEN ToIso(u.obj[k], Null)
    ELSE IF k = "address" /\ Present(u.obj[k]) THEN Compact(u.obj[k].obj)
    ELSE u.obj[k]

\* serialize_event() compacts the user field by field.
LEMMA UserCompacts ==
  ASSUME NEW u, Present(u)
  PROVE  User(u) = Compact([k \in DOMAIN u.obj |-> UserField(u, k)])
  BY Zenon DEF User, UserField

\* The user that is sent says what the user of the event says,
LEMMA UserSays ==
  ASSUME NEW u, NEW k, k # "address", Present(u) => HasScalars(u, {"address"})
  PROVE  Get(User(u), k) = SaidIn(u, k)
<1>1. CASE ~Present(u)
  <2>1. User(u) = Null /\ Get(u, k) = Null
    BY <1>1 DEF User, Present, Is, Get
  <2>2. QED
    BY <2>1, NullFields, IsoIsInstant DEF SaidIn
<1>2. CASE Present(u)
  <2> DEFINE fields == [j \in DOMAIN u.obj |-> UserField(u, j)]
  <2>1. User(u) = Compact(fields)
    BY <1>2, UserCompacts
  <2>2. DOMAIN fields = DOMAIN u.obj
    OBVIOUS
  <2>3. k \in DOMAIN u.obj => fields[k] = IF k \in Instants THEN Instant(u.obj[k]) ELSE u.obj[k]
    BY IsoIsInstant DEF UserField, Instants
  <2>4. k \in DOMAIN u.obj => Scalar(u.obj[k])
    BY <1>2 DEF HasScalars, Scalar
  <2> HIDE DEF fields
  <2>5. k \in DOMAIN fields => Scalar(fields[k])
    BY <2>2, <2>3, <2>4, IsoIsInstant
  <2>6. Get(User(u), k) = IF k \in DOMAIN fields THEN fields[k] ELSE Null
    BY <2>1, <2>5, CompactScalars
  <2>7. Get(u, k) = IF k \in DOMAIN u.obj THEN u.obj[k] ELSE Null
    BY <1>2 DEF Get, HasScalars
  <2>8. QED
    BY <2>2, <2>3, <2>6, <2>7, IsoIsInstant DEF SaidIn, Instants
<1>3. QED
  BY <1>1, <1>2

\* and so does its address, the one group in it.
LEMMA AddressSays ==
  ASSUME NEW u, NEW k,
         Present(u) => HasScalars(u, {"address"}),
         Present(Get(u, "address")) => HasScalars(Get(u, "address"), {})
  PROVE  Get(Get(User(u), "address"), k) = Get(Get(u, "address"), k)
<1>1. CASE ~Present(u)
  <2>1. User(u) = Null /\ Get(u, "address") = Null
    BY <1>1 DEF User, Present, Is, Get
  <2>2. QED
    BY <2>1, NullFields
<1>2. CASE Present(u)
  <2> DEFINE fields == [j \in DOMAIN u.obj |-> UserField(u, j)]
             there == {j \in DOMAIN fields : Kept(Inner(fields[j]))}
             sent == [j \in there |-> Inner(fields[j])]
             address == u.obj["address"]
  <2>1. User(u) = [obj |-> sent]
    BY <1>2, UserCompacts, CompactKeeps
  <2>2. Get(User(u), "address") = IF "address" \in there THEN sent["address"] ELSE Null
    <3> HIDE DEF sent, there
    <3>1. DOMAIN sent = there
      BY DEF sent
    <3>2. QED
      BY <2>1, <3>1, ObjectFields
  <2>3. Get(u, "address") = IF "address" \in DOMAIN u.obj THEN address ELSE Null
    BY <1>2 DEF Get, HasScalars
  <2>4. DOMAIN fields = DOMAIN u.obj
    OBVIOUS
  <2>5. CASE "address" \notin DOMAIN u.obj
    BY <2>2, <2>3, <2>4, <2>5
  <2>6. CASE "address" \in DOMAIN u.obj /\ ~Present(address)
    <3>1. fields["address"] = address
      BY <2>6 DEF UserField
    <3>2. ~Is(address, "obj")
      BY <2>6 DEF Present, Is
    <3>3. "address" \notin there
      BY <3>1, <3>2, <2>6 DEF Inner, Kept
    <3>4. Get(address, k) = Null
      BY <3>2 DEF Get
    <3>5. QED
      BY <2>2, <2>3, <3>3, <3>4, NullFields
  <2>7. CASE "address" \in DOMAIN u.obj /\ Present(address)
    <3> DEFINE shown == {j \in DOMAIN address.obj : Kept(Inner(address.obj[j]))}
               lines == [j \in shown |-> Inner(address.obj[j])]
    <3>1. fields["address"] = Compact(address.obj)
      BY <2>7 DEF UserField
    <3>2. HasScalars(address, {})
      BY <2>3, <2>7
    <3>3. \A j : Get(Compact(address.obj), j) = Get(address, j)
      BY <3>2, CompactScalars DEF HasScalars, Scalar, Get
    <3>4. Compact(address.obj) = [obj |-> lines]
      BY CompactKeeps
    <3>5. Inner(Compact(address.obj)) = Compact(address.obj)
      <4>1. \A j \in DOMAIN lines : Present(lines[j])
        BY DEF Kept
      <4> HIDE DEF lines
      <4>2. Is([obj |-> lines], "obj") /\ [obj |-> lines].obj = lines
        BY ObjectFields
      <4>3. {j \in DOMAIN lines : Present(lines[j])} = DOMAIN lines
        BY <4>1
      <4>4. lines = [j \in DOMAIN lines |-> lines[j]]
        BY DEF lines
      <4>5. PresentFields(lines) = [obj |-> lines]
        BY <4>3, <4>4, Zenon DEF PresentFields
      <4>6. QED
        BY <3>4, <4>2, <4>5 DEF Inner
    <3> DEFINE compact == Compact(address.obj)
    <3>6. Get(User(u), "address") = Shown(compact)
      BY <2>2, <2>4, <2>7, <3>1, <3>5 DEF Shown
    <3> HIDE DEF compact
    <3>7. Get(Get(User(u), "address"), k) = Get(compact, k)
      BY <3>6, LeftOutSaysNothing
    <3>8. QED
      BY <2>3, <2>7, <3>3, <3>7 DEF compact
  <2>8. QED
    BY <2>5, <2>6, <2>7
<1>3. QED
  BY <1>1, <1>2

\* No attribute of an event is an improper None.
ProperAttributes(event) == \A a \in DOMAIN event.attributes : Proper(event.attributes[a])

\* What p has for an event at the instant now: every plain field, a group unless it is
\* None or _compact() has emptied it, an attribute under a name of its own unless it is None.
Carries(p, event, now) ==
    /\ Is(p, "obj")
    /\ Get(p, "request_id") = [str |-> Text(event.request_id)]
    /\ Get(p, "type") = [str |-> Text(event.type)]
    /\ Get(p, "status") = IF Truthy(event.status) THEN event.status ELSE [str |-> "$succeeded"]
    /\ Get(p, "created_at") = ToIso(event.created_at, [utc |-> now])
    /\ Get(p, "session") = Shown(Session(event.session))
    /\ Get(p, "context") = Shown(Context(event.context))
    /\ Get(p, "user") = Shown(User(event.user))
    /\ \A k : k \notin ReservedRootKeys =>
         Get(p, k) = IF k \in DOMAIN event.attributes THEN event.attributes[k] ELSE Null

\* serialize_event() sends all of an event that validate_event() lets pass.
LEMMA PayloadParts ==
  ASSUME NEW event, NEW now, Valid(event), ProperAttributes(event)
  PROVE  Carries(SerializeEvent(event, now), event, now)
<1> DEFINE own == [request_id |-> [str |-> Text(event.request_id)],
                   type       |-> [str |-> Text(event.type)],
                   status     |-> IF Truthy(event.status) THEN event.status
                                  ELSE [str |-> "$succeeded"],
                   created_at |-> ToIso(event.created_at, [utc |-> now])]
           groups == [session |-> Session(event.session), context |-> Context(event.context),
                      user |-> User(event.user)]
           filled == {g \in DOMAIN groups : Present(groups[g]) /\ ~Empty(groups[g])}
           sent == [g \in filled |-> groups[g]]
           attributes == SentAttributes(event.attributes)
           fields == Merged(attributes, Merged(sent, own))
           p == SerializeEvent(event, now)
           plain == {"request_id", "type", "status", "created_at"}
<1>1. p = [obj |-> fields]
  BY Zenon DEF SerializeEvent
<1>2. DOMAIN groups = Groups /\ DOMAIN own = plain
  BY DEF Groups
<1>3. DOMAIN sent = {g \in Groups : Kept(groups[g])} /\ \A g \in DOMAIN sent : sent[g] = groups[g]
  BY <1>2 DEF Kept
<1>4. /\ DOMAIN attributes = {a \in DOMAIN event.attributes : Present(event.attributes[a])}
      /\ \A a \in DOMAIN attributes : attributes[a] = event.attributes[a]
  BY DEF SentAttributes
<1>5. DOMAIN event.attributes \intersect ReservedRootKeys = {}
  BY DEF Valid
<1>6. ReservedRootKeys = plain \union Groups /\ plain \intersect Groups = {}
  BY DEF ReservedRootKeys, Groups
<1>7. /\ own["request_id"] = [str |-> Text(event.request_id)]
      /\ own["type"] = [str |-> Text(event.type)]
      /\ own["status"] = IF Truthy(event.status) THEN event.status ELSE [str |-> "$succeeded"]
      /\ own["created_at"] = ToIso(event.created_at, [utc |-> now])
      /\ groups["session"] = Session(event.session)
      /\ groups["context"] = Context(event.context)
      /\ groups["user"] = User(event.user)
  OBVIOUS
<1> HIDE DEF own, groups, sent, attributes, plain
<1>8. /\ DOMAIN fields = DOMAIN attributes \union (DOMAIN sent \union DOMAIN own)
      /\ \A j \in DOMAIN fields :
           fields[j] = IF j \in DOMAIN attributes THEN attributes[j]
                       ELSE IF j \in DOMAIN sent THEN sent[j] ELSE own[j]
  BY DEF Merged
<1> HIDE DEF fields, p
<1>9. Is(p, "obj") /\ \A j : Get(p, j) = IF j \in DOMAIN fields THEN fields[j] ELSE Null
  BY <1>1, ObjectFields
<1>10. ASSUME NEW j \in plain PROVE Get(p, j) = own[j]
  BY <1>2, <1>3, <1>4, <1>5, <1>6, <1>8, <1>9
<1>11. ASSUME NEW g \in Groups PROVE Get(p, g) = Shown(groups[g])
  BY <1>2, <1>3, <1>4, <1>5, <1>6, <1>8, <1>9 DEF Shown
<1>12. ASSUME NEW k, k \notin ReservedRootKeys
       PROVE  Get(p, k) = IF k \in DOMAIN event.attributes THEN event.attributes[k] ELSE Null
  <2>1. Get(p, k) = IF k \in DOMAIN attributes THEN attributes[k] ELSE Null
    BY <1>2, <1>3, <1>6, <1>8, <1>9, <1>12
  <2>2. k \in DOMAIN event.attributes \ DOMAIN attributes => event.attributes[k] = Null
    BY <1>4 DEF Proper, ProperAttributes
  <2>3. QED
    BY <1>4, <2>1, <2>2
<1>13. {"request_id", "type", "status", "created_at"} = plain
  BY DEF plain
<1>14. QED
  BY <1>7, <1>9, <1>10, <1>11, <1>12, <1>13 DEF p, Groups, Carries

\* The context that a call sends is the end user and the headers it names.
LEMMA ContextSays ==
  ASSUME NEW inbound, inbound.remote \in {Null} \union [str : STRING]
  PROVE  LET group == Context(ContextFromHeaders(inbound.headers, inbound.remote))
         IN  /\ Is(group, "obj")
             /\ Names(group) \subseteq {"ip", "headers"}
             /\ Get(group, "ip") = EndUser(inbound)
             /\ \A k \in Names(group) : Present(group.obj[k]) /\ Filled(group.obj[k])
<1> DEFINE headers == inbound.headers
           remote == inbound.remote
           hops == IF "x-forwarded-for" \in DOMAIN headers THEN headers["x-forwarded-for"].hops
                   ELSE << >>
           first == IF hops # << >> THEN Text(hops[1]) ELSE ""
           listed == {h \in InterestingHeaders \intersect DOMAIN headers : Truthy(headers[h])}
           list == [list |-> {<<h, headers[h]>> : h \in listed}]
           ip == IF first # "" THEN [str |-> first] ELSE IF Truthy(remote) THEN remote ELSE Null
           said == [ip |-> ip, headers |-> list]
           kept == {k \in {"ip", "headers"} : Truthy(said[k]) /\ said[k] # [list |-> {}]}
           fields == [k \in kept |-> said[k]]
           group == Context(ContextFromHeaders(headers, remote))
<1>1. ContextFromHeaders(headers, remote) = [obj |-> said]
  BY Zenon DEF ContextFromHeaders
<1>2. Present([obj |-> said]) /\ [obj |-> said].obj = said
  <2> HIDE DEF said
  <2>1. QED
    BY ObjectFields
<1>3. group = [obj |-> fields]
  BY <1>1, <1>2, Zenon DEF Context
<1>4. said["ip"] = ip /\ said["headers"] = list
  OBVIOUS
<1>5. ~Is(list, "obj")
  BY DEF Is
<1>6. ip = EndUser(inbound) /\ (ip = Null \/ (DOMAIN ip = {"str"} /\ ip # [str |-> ""]))
  <2>1. CASE first # ""
    <3>1. ip = [str |-> first] /\ DOMAIN ip = {"str"} /\ ip # [str |-> ""]
      BY <2>1
    <3>2. EndUser(inbound) = [str |-> first]
      BY <2>1, Zenon DEF EndUser
    <3>3. QED
      BY <3>1, <3>2
  <2>2. CASE first = ""
    <3>1. EndUser(inbound) = IF remote = [str |-> ""] THEN Null ELSE remote
      BY <2>2, Zenon DEF EndUser
    <3>2. ip = IF Truthy(remote) THEN remote ELSE Null
      BY <2>2
    <3>3. QED
      BY <3>1, <3>2 DEF Truthy, Present, Is, Null
  <2>3. QED
    BY <2>1, <2>2
<1>7. DOMAIN list = {"list"}
  OBVIOUS
<1> HIDE DEF ip, list, said
<1>8. ip # Null => ip # [list |-> {}] /\ Truthy(ip) /\ ~Is(ip, "obj")
  BY <1>6 DEF Truthy, Present, Is
<1>9. ~Truthy(Null)
  BY DEF Truthy, Present, Is, Null
<1>10. Names(group) = kept /\ Is(group, "obj") /\ group.obj = fields
  <2> HIDE DEF fields
  <2>1. DOMAIN fields = kept
    BY DEF fields
  <2>2. QED
    BY <1>3, <2>1, ObjectFields
<1>11. Get(group, "ip") = ip
  <2>1. Get(group, "ip") = IF "ip" \in kept THEN said["ip"] ELSE Null
    BY <1>10 DEF Get, Names
  <2>2. QED
    BY <2>1, <1>4, <1>8, <1>9
<1>12. ASSUME NEW k \in Names(group) PROVE Present(group.obj[k]) /\ Filled(group.obj[k])
  <2>1. group.obj[k] = said[k] /\ Truthy(said[k]) /\ k \in {"ip", "headers"}
    BY <1>10
  <2>2. ~Is(said[k], "obj")
    BY <2>1, <1>4, <1>5, <1>8, <1>9
  <2>3. QED
    BY <2>1, <2>2 DEF Truthy, Filled
<1>13. QED
  BY <1>6, <1>10, <1>11, <1>12

\* What the methods of the client make of their arguments.
LEMMA EventFacts ==
  ASSUME NEW c, WellFormed(c)
  PROVE  LET e     == c.event
             event == EventOf(c)
         IN  /\ event.request_id = e.request_id
             /\ event.created_at = e.created_at
             /\ event.session = e.session
             /\ event.user = e.user
             /\ event.context = IF Present(c.inbound)
                                THEN ContextFromHeaders(c.inbound.headers, c.inbound.remote)
                                ELSE Null
             /\ Text(event.type) = IF c.method = "evaluate" THEN Text(e.type)
                                   ELSE Shorthands[c.method]
             /\ event.status = IF c.method = "challenge"
                               THEN [str |-> IF c.passed THEN "$succeeded" ELSE "$failed"]
                               ELSE e.status
             /\ event.attributes = IF c.method = "transaction"
                                   THEN Merged(e.attributes, PresentFields(c.keywords).obj)
                                   ELSE e.attributes
<1> DEFINE e == c.event
           context == IF Present(c.inbound)
                      THEN ContextFromHeaders(c.inbound.headers, c.inbound.remote) ELSE Null
           base == [e EXCEPT !.context = context]
           named == PresentFields(c.keywords).obj
           outcome == [str |-> IF c.passed THEN "$succeeded" ELSE "$failed"]
           event == EventOf(c)
<1>1. DOMAIN e = {"request_id", "type", "status", "created_at",
                  "session", "context", "user", "attributes"}
  BY DEF WellFormed
<1>2. \A text : Text([str |-> text]) = text
  BY DEF Text, Is
<1>3. /\ Shorthands["transaction"] = "$transaction"
      /\ Shorthands["challenge"] = "$challenge"
  BY DEF Shorthands
<1>4. CASE c.method = "evaluate"
  <2>1. event = base
    BY <1>4, Zenon DEF EventOf
  <2>2. QED
    BY <1>1, <1>4, <2>1
<1>5. CASE c.method = "transaction"
  <2>1. event = [base EXCEPT !.type = [str |-> "$transaction"],
                             !.attributes = Merged(base.attributes, named)]
    BY <1>5 DEF EventOf
  <2> HIDE DEF named
  <2>2. QED
    BY <1>1, <1>2, <1>3, <1>5, <2>1 DEF named
<1>6. CASE c.method = "challenge"
  <2>1. event = [base EXCEPT !.type = [str |-> "$challenge"], !.status = outcome]
    BY <1>6 DEF EventOf
  <2>2. QED
    BY <1>1, <1>2, <1>3, <1>6, <2>1
<1>7. CASE c.method \notin {"evaluate", "transaction", "challenge"}
  <2>1. event = [base EXCEPT !.type = [str |-> Shorthands[c.method]]]
    BY <1>7 DEF EventOf
  <2>2. QED
    BY <1>1, <1>2, <1>7, <2>1
<1>8. QED
  BY <1>4, <1>5, <1>6, <1>7

\* What the call says outside the groups is the event it makes, under the same key.
LEMMA AttributesSay ==
  ASSUME NEW c, WellFormed(c)
  PROVE  LET attributes == EventOf(c).attributes
             said(k) == IF k \in DOMAIN attributes THEN attributes[k] ELSE Null
         IN  /\ ProperAttributes(EventOf(c))
             /\ ~Contradictory(c) => \A k : k \notin ReservedRootKeys => said(k) = SaidAtRoot(c, k)
<1> DEFINE e == c.event
           attributes == EventOf(c).attributes
           named == PresentFields(c.keywords).obj
<1>1. /\ attributes = IF c.method = "transaction" THEN Merged(e.attributes, named)
                      ELSE e.attributes
      /\ \A k \in DOMAIN e.attributes : Proper(e.attributes[k])
      /\ \A k \in DOMAIN c.keywords : Proper(c.keywords[k])
  BY EventFacts DEF WellFormed
<1>2. /\ DOMAIN named = {k \in DOMAIN c.keywords : Present(c.keywords[k])}
      /\ \A k \in DOMAIN named : named[k] = c.keywords[k]
  BY DEF PresentFields
<1>3. ASSUME NEW k, k \notin ReservedRootKeys
      PROVE  SaidAtRoot(c, k)
               = IF k \in DOMAIN e.attributes THEN e.attributes[k]
                 ELSE IF c.method = "transaction" /\ k \in DOMAIN c.keywords THEN c.keywords[k]
                 ELSE Null
  <2>1. k \notin {"request_id", "type", "status", "created_at"}
    BY <1>3 DEF ReservedRootKeys
  <2>2. QED
    BY <2>1, Zenon DEF SaidAtRoot
<1> HIDE DEF named, attributes
<1>4. CASE c.method # "transaction"
  BY <1>1, <1>3, <1>4 DEF attributes, ProperAttributes
<1>5. CASE c.method = "transaction"
  <2>1. /\ DOMAIN attributes = DOMAIN e.attributes \union DOMAIN named
        /\ \A k \in DOMAIN attributes :
             attributes[k] = IF k \in DOMAIN e.attributes THEN e.attributes[k] ELSE named[k]
    BY <1>1, <1>5 DEF Merged
  <2>2. \A a \in DOMAIN attributes : Proper(attributes[a])
    BY <1>1, <1>2, <2>1
  <2>3. ASSUME NEW k, k \notin ReservedRootKeys
        PROVE  SaidAtRoot(c, k) = IF k \in DOMAIN attributes THEN attributes[k] ELSE Null
    <3>1. k \in DOMAIN c.keywords \ DOMAIN named => c.keywords[k] = Null
      BY <1>1, <1>2 DEF Proper
    <3>2. QED
      BY <1>2, <1>3, <1>5, <2>1, <2>3, <3>1
  <2>4. QED
    BY <2>2, <2>3 DEF attributes, ProperAttributes
<1>6. QED
  BY <1>4, <1>5

-------------------------------------------------------------------------------
(***************************************************************************)
(* What is posted.                                                          *)
(***************************************************************************)
\* What is posted is what serialize_event() makes of an event that it accepts.
PayloadInvariant ==
    /\ WellFormed(call)
    /\ Posted => Valid(EventOf(call)) /\ payload = SerializeEvent(EventOf(call), Now)

\* The payload is written once, from a call that never changes.
LEMMA PayloadIsSerialized == InputSpec => []PayloadInvariant
<1>1. InputInit => PayloadInvariant
  BY InputsAssumption DEF InputInit, PayloadInvariant, Posted
<1>2. PayloadInvariant /\ [InputNext]_inputVars => PayloadInvariant'
  <2> SUFFICES ASSUME PayloadInvariant, [InputNext]_inputVars PROVE PayloadInvariant'
    OBVIOUS
  <2>1. CASE Construct \/ UNCHANGED inputVars
    BY <2>1 DEF Construct, inputVars, PayloadInvariant, Posted
  <2>2. CASE Post
    <3> DEFINE event == EventOf(call)
    <3>1. call' = call /\ payload' = SerializeEvent(event, Now) /\ WellFormed(call)
      BY <2>2 DEF Post, PayloadInvariant
    <3> HIDE DEF event
    <3>2. payload' # Rejected => Valid(event)
      BY <3>1, Zenon DEF SerializeEvent
    <3>3. QED
      BY <3>1, <3>2 DEF event, PayloadInvariant, Posted
  <2>3. QED
    BY <2>1, <2>2 DEF InputNext
<1>3. QED
  BY <1>1, <1>2, PTL DEF InputSpec

\* The fields that serialize_event() writes itself say what the call said.
LEMMA RootSays ==
  ASSUME PayloadInvariant, Posted, ~Contradictory(call), NEW k, k \notin Groups
  PROVE  Get(payload, k) = SaidAtRoot(call, k)
<1> DEFINE e == call.event
           event == EventOf(call)
           said == SaidAtRoot(call, k)
<1>1. WellFormed(call) /\ Valid(event) /\ payload = SerializeEvent(event, Now)
  BY DEF PayloadInvariant
<1>2. ProperAttributes(event)
  BY <1>1, AttributesSay
<1> HIDE DEF event
<1>3. Carries(payload, event, Now)
  BY <1>1, <1>2, PayloadParts
<1>4. CASE k \notin ReservedRootKeys
  <2> DEFINE there == IF k \in DOMAIN event.attributes THEN event.attributes[k] ELSE Null
  <2>1. Get(payload, k) = there
    BY <1>4, <1>3 DEF Carries
  <2>2. there = said
    BY <1>1, <1>4, AttributesSay DEF event
  <2>3. QED
    BY <2>1, <2>2
<1>5. CASE k = "request_id"
  <2>1. said = [str |-> Text(e.request_id)]
    BY <1>5, Zenon DEF SaidAtRoot
  <2>2. event.request_id = e.request_id
    BY <1>1, EventFacts DEF event
  <2>3. QED
    BY <1>5, <1>3, <2>1, <2>2 DEF Carries
<1>6. CASE k = "type"
  <2>1. said = [str |-> IF call.method = "evaluate" THEN Text(e.type) ELSE Shorthands[call.method]]
    BY <1>6 DEF SaidAtRoot
  <2>2. Text(event.type) = IF call.method = "evaluate" THEN Text(e.type)
                           ELSE Shorthands[call.method]
    BY <1>1, EventFacts DEF event
  <2>3. QED
    BY <1>6, <1>3, <2>1, <2>2 DEF Carries
<1>7. CASE k = "status"
  <2> DEFINE outcome == [str |-> IF call.passed THEN "$succeeded" ELSE "$failed"]
             done == [str |-> "$succeeded"]
  <2>1. said = IF call.method = "challenge" THEN outcome
               ELSE IF e.status \in {Null, [str |-> ""]} THEN done ELSE e.status
    BY <1>7 DEF SaidAtRoot
  <2>2. event.status = IF call.method = "challenge" THEN outcome ELSE e.status
    BY <1>1, EventFacts DEF event
  <2>3. Get(payload, "status") = IF Truthy(event.status) THEN event.status ELSE done
    BY <1>3 DEF Carries
  <2>4. Truthy(outcome)
    <3>1. DOMAIN outcome = {"str"} /\ outcome # [str |-> ""]
      OBVIOUS
    <3> HIDE DEF outcome
    <3>2. QED
      BY <3>1 DEF Truthy, Present, Is
  <2>5. Truthy(e.status) <=> e.status \notin {Null, [str |-> ""]}
    BY <1>1, NullFields DEF WellFormed, Truthy, Proper
  <2> HIDE DEF outcome, done
  <2>6. QED
    BY <1>7, <2>1, <2>2, <2>3, <2>4, <2>5
<1>8. CASE k = "created_at"
  <2>1. said = IF Instant(e.created_at) = Null THEN [utc |-> Now] ELSE Instant(e.created_at)
    BY <1>8 DEF SaidAtRoot
  <2>2. event.created_at = e.created_at
    BY <1>1, EventFacts DEF event
  <2>3. Get(payload, "created_at") = ToIso(event.created_at, [utc |-> Now])
    BY <1>3 DEF Carries
  <2>4. QED
    BY <1>8, <2>1, <2>2, <2>3, IsoIsInstant
<1>9. QED
  BY <1>4, <1>5, <1>6, <1>7, <1>8 DEF ReservedRootKeys, Groups

\* The groups of the payload are those of the event, compacted.
LEMMA GroupsOfPayload ==
  ASSUME PayloadInvariant, Posted
  PROVE  LET e == call.event
         IN  /\ Is(payload, "obj")
             /\ Get(payload, "session") = Shown(Session(e.session))
             /\ Get(payload, "user") = Shown(User(e.user))
             /\ Get(payload, "context") = Shown(Context(
                  IF Present(call.inbound)
                  THEN ContextFromHeaders(call.inbound.headers, call.inbound.remote) ELSE Null))
<1> DEFINE e == call.event
           event == EventOf(call)
<1>1. WellFormed(call) /\ Valid(event) /\ payload = SerializeEvent(event, Now)
  BY DEF PayloadInvariant
<1>2. ProperAttributes(event)
  BY <1>1, AttributesSay
<1>3. /\ event.session = e.session
      /\ event.user = e.user
      /\ event.context = IF Present(call.inbound)
                         THEN ContextFromHeaders(call.inbound.headers, call.inbound.remote)
                         ELSE Null
  BY <1>1, EventFacts
<1> HIDE DEF event
<1>4. Carries(payload, event, Now)
  BY <1>1, <1>2, PayloadParts
<1>5. QED
  BY <1>3, <1>4 DEF Carries

\* SPEC.md 3.1 and 3.2, for every call: the payload says what the caller said and
\* nothing else (client.py's shorthands, serialize.py: serialize_event()).
THEOREM PayloadSays == InputSpec => []PayloadSaysCall
<1>1. PayloadInvariant => PayloadSaysCall
  <2> SUFFICES ASSUME PayloadInvariant, Posted, ~Contradictory(call) PROVE PayloadSaysCall
    BY DEF PayloadSaysCall
  <2> DEFINE e == call.event
             session == Get(payload, "session")
             user == Get(payload, "user")
             context == Get(payload, "context")
  <2>1. WellFormed(call)
    BY DEF PayloadInvariant
  <2>2. \A k : k \notin Groups => Get(payload, k) = SaidAtRoot(call, k)
    BY RootSays
  <2>3. \A k : Get(session, k) = SaidIn(e.session, k)
    BY <2>1, GroupsOfPayload, LeftOutSaysNothing, SessionSays DEF WellFormed
  <2>4. \A k : Get(user, k) = Get(User(e.user), k)
    BY GroupsOfPayload, LeftOutSaysNothing
  <2>5. \A k : k # "address" => Get(user, k) = SaidIn(e.user, k)
    BY <2>1, <2>4, UserSays DEF WellFormed
  <2>6. \A k : Get(Get(user, "address"), k) = Get(Get(e.user, "address"), k)
    BY <2>1, <2>4, AddressSays DEF WellFormed
  <2>7. /\ Names(context) \subseteq {"ip", "headers"}
        /\ Get(context, "ip") = IF Present(call.inbound) THEN EndUser(call.inbound) ELSE Null
    <3>1. CASE Present(call.inbound)
      <4> DEFINE group == Context(ContextFromHeaders(call.inbound.headers, call.inbound.remote))
      <4>1. context = Shown(group)
        BY <3>1, GroupsOfPayload
      <4>2. Names(group) \subseteq {"ip", "headers"} /\ Get(group, "ip") = EndUser(call.inbound)
        BY <2>1, <3>1, ContextSays DEF WellFormed
      <4> HIDE DEF group, context
      <4>3. QED
        BY <3>1, <4>1, <4>2, NullFields, LeftOutSaysNothing DEF Shown
    <3>2. CASE ~Present(call.inbound)
      <4>1. Context(Null) = Null
        BY NullFields DEF Context
      <4>2. context = Null
        BY <3>2, <4>1, GroupsOfPayload DEF Shown
      <4>3. QED
        BY <3>2, <4>2, NullFields
    <3>3. QED
      BY <3>1, <3>2
  <2> HIDE DEF session, user, context
  <2>8. QED
    BY <2>2, <2>3, <2>5, <2>6, <2>7, Zenon DEF PayloadSaysCall, session, user, context
<1>2. QED
  BY <1>1, PayloadIsSerialized, PTL

\* _compact(), for every call: no None and no empty group is posted in a group or
\* for one, however deep what was left out lay.
THEOREM GroupsAreFilled == InputSpec => []NoHollowGroup
<1>1. PayloadInvariant => NoHollowGroup
  <2> SUFFICES ASSUME PayloadInvariant, Posted, NEW g \in Groups \intersect DOMAIN payload.obj
               PROVE  LET group == payload.obj[g]
                      IN  Filled(group) /\ \A k \in Names(group) : Filled(group.obj[k])
    BY DEF NoHollowGroup
  <2> DEFINE e == call.event
             inbound == call.inbound
             context == Context(ContextFromHeaders(inbound.headers, inbound.remote))
             group == payload.obj[g]
  <2>1. WellFormed(call)
    BY DEF PayloadInvariant
  <2>2. group = Get(payload, g)
    BY GroupsOfPayload DEF Get
  <2>3. Context(Null) = Null /\ ~Kept(Null)
    BY NullFields DEF Context, Kept
  <2>4. \/ group = Null
        \/ group = Session(e.session) /\ Kept(group)
        \/ group = User(e.user) /\ Kept(group)
        \/ group = context /\ Kept(group) /\ Present(inbound)
    BY <2>2, <2>3, GroupsOfPayload DEF Groups, Shown
  <2> SUFFICES Filled(group) /\ \A k \in Names(group) : Filled(group.obj[k])
    OBVIOUS
  <2> HIDE DEF group
  <2>5. CASE group = Null
    BY <2>5, NullFields DEF Filled
  <2>6. ASSUME NEW fields, group = Compact(fields), Kept(group)
        PROVE  Filled(group) /\ \A k \in Names(group) : Filled(group.obj[k])
    BY <2>6, CompactFilled DEF Kept
  <2>7. CASE group = Session(e.session) /\ Kept(group)
    BY <2>3, <2>6, <2>7 DEF Session
  <2>8. CASE group = User(e.user) /\ Kept(group)
    <3>1. CASE Present(e.user)
      BY <2>6, <2>8, <3>1, UserCompacts
    <3>2. CASE ~Present(e.user)
      BY <2>3, <2>8, <3>2 DEF User
    <3>3. QED
      BY <3>1, <3>2
  <2>9. CASE group = context /\ Kept(group) /\ Present(inbound)
    <3>1. /\ Is(group, "obj")
          /\ \A k \in Names(group) : Present(group.obj[k]) /\ Filled(group.obj[k])
      BY <2>1, <2>9, ContextSays DEF WellFormed
    <3>2. QED
      BY <2>9, <3>1 DEF Kept, Empty, Filled, Names
  <2>10. QED
    BY <2>4, <2>5, <2>7, <2>8, <2>9
<1>2. QED
  BY <1>1, PayloadIsSerialized, PTL
===============================================================================
