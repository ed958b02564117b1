----------------------------- MODULE ClientInputs -----------------------------
(***************************************************************************)
(* What an application hands to the SDK before anything is decided: the     *)
(* options it constructs the client from, and a call.  The client posts a   *)
(* payload or rejects what it was given.                                    *)
(***************************************************************************)
EXTENDS Serialize, Config, Sequences

CONSTANTS
    Inputs,     \* pairs of options and a call
    Now         \* the instant of the call

\* The fields of a group but the nested ones are None or no groups themselves.
HasScalars(group, nested) ==
    /\ Is(group, "obj")
    /\ \A k \in DOMAIN group.obj \ nested : Proper(group.obj[k]) /\ ~Is(group.obj[k], "obj")

\* A call whose event is a RiskEvent with what the types of its fields allow.
WellFormed(c) ==
    LET e       == c.event
        address == Get(e.user, "address")
    IN  /\ c.method \in DOMAIN Shorthands \union {"evaluate"}
        /\ DOMAIN e = {"request_id", "type", "status", "created_at",
                       "session", "context", "user", "attributes"}
        /\ Proper(e.status)
        /\ Present(e.session) => /\ HasScalars(e.session, {})
                                 /\ DOMAIN e.session.obj \subseteq {"id", "created_at"}
        /\ Present(e.user) => HasScalars(e.user, {"address"})
        /\ Present(address) => HasScalars(address, {})
        /\ \A k \in DOMAIN e.attributes : Proper(e.attributes[k])
        /\ \A k \in DOMAIN c.keywords : Proper(c.keywords[k])
        /\ Present(c.inbound) => c.inbound.remote \in {Null} \union [str : STRING]

ASSUME InputsAssumption ==
    \A input \in Inputs : input[1] \in Options /\ WellFormed(input[2])

VARIABLES
    options,    \* the keywords of TraitXClient(...)
    config,     \* Null, then the resolved Config or ConfigRejected
    call,       \* the method and its arguments
    payload     \* Null, then the payload posted or Rejected

inputVars == <<options, config, call, payload>>

InputInit ==
    /\ \E input \in Inputs : options = input[1] /\ call = input[2]
    /\ config = Null
    /\ payload = Null

Construct ==
    /\ config = Null
    /\ config' = BuildConfig(options)
    /\ UNCHANGED <<options, call, payload>>

Post ==
    /\ config \notin {Null, ConfigRejected}
    /\ payload = Null
    /\ payload' = SerializeEvent(EventOf(call), Now)
    /\ UNCHANGED <<options, config, call>>

InputNext == Construct \/ Post

InputSpec == InputInit /\ [][InputNext]_inputVars

-------------------------------------------------------------------------------
Posted == payload \notin {Null, Rejected}

\* SPEC.md section 4: no chain hook is ever posted as an event, however it is
\* spelled, and no event without the id that ties it to a device.
NoHookPosted ==
    Posted => /\ payload.obj.type.str \notin ChainHooks
              /\ payload.obj.request_id.str # ""

\* SPEC.md section 8: nothing is posted with a public key, to an address that does not
\* start as one or that a path cannot be put behind, or under options that leave no
\* attempt to make or no time for it.
PostsWithUsableConfig ==
    Posted => /\ config.api_key.class \in {"private", "other"}
              /\ StartsAsHttp(config.base_url)
              /\ config.base_url.tail # "slashes" /\ ~config.base_url.padded
              /\ config.retries + 1 > 0
              /\ config.timeout > 0
              /\ config.challengeAt <= config.denyAt
===============================================================================
