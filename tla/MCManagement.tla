------------------------------ MODULE MCManagement ----------------------------
(* Instances of Management for TLC. *)
EXTENDS Management

Everything == Switches \union {"add", "delete", "audit"}
Failing == {401, 429, 503}
TwoTokens == {"jwt1", "jwt2"}
Redirecting == {307}
===============================================================================
