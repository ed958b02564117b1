------------------------------ MODULE HttpStatus ------------------------------
(* The classes of HTTP status that send() and its callers tell apart. *)
EXTENDS Integers

\* The statuses for which urlopen() returns instead of raising HTTPError.
Accepted(status) == status \in 200..299

\* RETRYABLE_STATUSES
Retryable(status) == status \in {408, 429, 500, 502, 503, 504}

\* A final status that counts towards opening the breaker.
CountsAsFailure(status) == status >= 500 \/ status \in {408, 429}
===============================================================================
