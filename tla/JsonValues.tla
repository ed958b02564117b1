------------------------------ MODULE JsonValues ------------------------------
(***************************************************************************)
(* Values as decision.py and serialize.py tell them apart.                  *)
(*                                                                          *)
(* A value is a record whose one field is its type, so a test of the type   *)
(* is a test of the domain: [str |-> s], [num |-> n], [bool |-> b],         *)
(* [list |-> set of values], [obj |-> function from keys to values], and    *)
(* Null for None, for `null` and for a key that is not there.  Two kinds of *)
(* number have no value: NaN, and an integer too large for a float.         *)
(***************************************************************************)
EXTENDS Integers, FiniteSetsExt

Null == [null |-> TRUE]
NaN == [nan |-> TRUE]
Huge == [huge |-> TRUE]

Is(value, type) == DOMAIN value = {type}
Present(value) == ~Is(value, "null")

\* There is one value of type null.
Proper(value) == Present(value) \/ value = Null

\* source.get(key), and _first(source, keys): the first key with a value.
Get(source, key) ==
    IF Is(source, "obj") /\ key \in DOMAIN source.obj THEN source.obj[key] ELSE Null

First(source, keys) ==
    LET found == {i \in DOMAIN keys : Present(Get(source, keys[i]))}
    IN  IF found = {} THEN Null ELSE Get(source, keys[Min(found)])

\* body.get(key) if isinstance(body.get(key), dict) else None
Object(source, key) ==
    IF Is(Get(source, key), "obj") THEN Get(source, key) ELSE Null
===============================================================================
