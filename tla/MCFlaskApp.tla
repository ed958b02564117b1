------------------------------ MODULE MCFlaskApp ------------------------------
(* Instances of FlaskApp for TLC. *)
EXTENDS FlaskApp, TLC

CONSTANTS c1, c2

TwoThreads == {c1, c2}
ThreadSymmetry == Permutations(Callers)

\* flask_app.py:29-30; thresholds are the defaults.
FlaskSettings ==
    [failureMode |-> "allow", clientErrorMode |-> "allow", challengeAt |-> 40, denyAt |-> 70,
     denyOn |-> {}, challengeOn |-> {}, enforceShadow |-> FALSE]

Body(action, passThrough) ==
    [obj |-> [policy |-> [obj |-> [action  |-> [str |-> action],
                                   matched |-> [list |-> {[obj |->
                                       [action       |-> [str |-> action],
                                        pass_through |-> [bool |-> passThrough]]]}]]]]]

Scored(score) == [obj |-> [score |-> score]]

\* No enrichment came back for the id.
Blind == [obj |-> [action |-> [str |-> "allow"],
                   debug  |-> [obj |-> [abuse_ip |-> [obj |->
                                  [reason |-> [str |-> "no_enrichment_data"]]]]]]]

Answered(status, body) == [status |-> status, error |-> FALSE, body |-> body]

EveryAnswer ==
    { Answered(200, Body("deny", FALSE)), Answered(200, Body("deny", TRUE)),
      Answered(200, Body("challenge", FALSE)), Answered(200, Body("allow", FALSE)),
      Answered(200, Scored([num |-> 88])), Answered(200, Scored(Huge)), Answered(200, Blind), Answered(200, Null),
      Answered(302, Null), Answered(401, Null), Answered(503, Null),
      Answered(503, Scored(Huge)),
      [status |-> 503, error |-> TRUE, body |-> Body("deny", FALSE)] }

EveryHook == {"keep", "deny", "garbage", "raise"}
===============================================================================
