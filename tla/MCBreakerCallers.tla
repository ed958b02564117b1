--------------------------- MODULE MCBreakerCallers ---------------------------
(* Instances of BreakerCallers for TLC. *)
EXTENDS BreakerCallers, TLC

CONSTANTS c1, c2, c3

ThreeCallers == {c1, c2, c3}
TwoCallers == {c1, c2}

\* Callers are interchangeable, so safety runs may identify their permutations.
CallerSymmetry == Permutations(Callers)
===============================================================================
