-------------------------------- MODULE Config --------------------------------
(***************************************************************************)
(* build_config() of traitx/config.py, as an operator on the options.       *)
(*                                                                          *)
(* A URL is its kind ("" for nothing, "relative", "scheme" for http:// or   *)
(* https:// with nothing behind it, "absolute") and what follows it, a key  *)
(* its class ("", "public" for trx_, "private" for trx_pvk_, "other"), each *)
(* with what trimming takes away.  Options that build_config only copies    *)
(* keep their values.                                                       *)
(***************************************************************************)
EXTENDS Integers

ConfigRejected == [rejected |-> TRUE]

ActionNames == {"allow", "challenge", "deny"}

\* The options that build_config() looks at; a threshold is an integer.
Urls == [kind : {"", "relative", "scheme", "absolute"}, padded : BOOLEAN,
         tail : {"", "slashes", "blank_slashes"}]
Keys == [class : {"", "public", "private", "other"}, padded : BOOLEAN]
Options == [base_url : Urls, api_key : Keys, challengeAt : Int, denyAt : Int, timeout : Int,
            retries : Int, failureMode : STRING, clientErrorMode : STRING]

\* (base_url or "").strip().rstrip("/") and (api_key or "").strip(): a blank in front
\* of the slashes is left over.
CleanUrl(url) == [kind |-> url.kind, padded |-> FALSE,
                  tail |-> IF url.tail = "blank_slashes" THEN "blank" ELSE ""]
CleanKey(key) == [class |-> key.class, padded |-> FALSE]

\* key.startswith("trx_") and not key.startswith("trx_pvk_")
LooksPublic(key) == key.class = "public" /\ ~key.padded

\* startswith("http://") or startswith("https://"): of a scheme alone, the slashes have
\* been trimmed unless a blank stood between them.
StartsAsHttp(url) == url.kind = "absolute" \/ (url.kind = "scheme" /\ url.tail = "blank")

\* A slip: the class of the key is looked at before it is trimmed.
BuildConfigUntrimmed(o) ==
    IF \/ ~StartsAsHttp(CleanUrl(o.base_url))
       \/ CleanKey(o.api_key).class = ""
       \/ LooksPublic(o.api_key)
       \/ o.challengeAt > o.denyAt
       \/ o.timeout <= 0
       \/ o.retries < 0
       \/ {o.failureMode, o.clientErrorMode} \ ActionNames # {}
    THEN ConfigRejected
    ELSE [o EXCEPT !.base_url = CleanUrl(@), !.api_key = CleanKey(@)]

\* A ConfigurationError, or the ValueError of Action(mode).
BuildConfig(o) ==
    IF \/ ~StartsAsHttp(CleanUrl(o.base_url))
       \/ CleanKey(o.api_key).class = ""
       \/ LooksPublic(CleanKey(o.api_key))
       \/ o.challengeAt > o.denyAt
       \/ o.timeout <= 0
       \/ o.retries < 0
       \/ {o.failureMode, o.clientErrorMode} \ ActionNames # {}
    THEN ConfigRejected
    ELSE [o EXCEPT !.base_url = CleanUrl(@), !.api_key = CleanKey(@)]
===============================================================================
