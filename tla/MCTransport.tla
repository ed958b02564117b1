------------------------------ MODULE MCTransport -----------------------------
(* Instances of Transport for TLC. *)
EXTENDS Transport

CONSTANTS t1, t2

OneThread == {t1}

\* One status of each kind: accepted, redirect, client error, retryable client
\* error, retryable server error, other server error.
EveryKind == {200, 302, 401, 408, 503, 501}

EveryHeader == {NoHeader, NaiveDate, 0, 5}

AnyBody == {"encodable", "unencodable"}
===============================================================================
