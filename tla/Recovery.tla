------------------------------- MODULE Recovery -------------------------------
(***************************************************************************)
(* Transport against a service that is down and then comes back.            *)
(*                                                                          *)
(* While it is down it answers with any of OutageStatuses or not at all.    *)
(* Once it is healthy it answers every attempt with an accepted JSON body;  *)
(* attempts that were under way when it came back may still fail.  The      *)
(* question is whether the breaker lets the application through again.      *)
(***************************************************************************)
EXTENDS Transport

CONSTANT
    OutageStatuses  \* the HTTP statuses it answers with until then

ASSUME ServiceAssumption ==
    OutageStatuses \subseteq Statuses /\ 200 \in Statuses /\ NoHeader \in Headers

VARIABLES
    healthy,        \* the service is back, for good
    doomed          \* threads whose attempt began before it came back

recoveryVars == <<transportVars, healthy, doomed>>

RecoveryInit ==
    /\ TransportInit
    /\ healthy = FALSE
    /\ doomed = {}

Attempting(t) == call[t].pc \in {"waiting", "reading"}

Heal ==
    /\ ~healthy
    /\ healthy' = TRUE
    /\ doomed' = {t \in Threads : Attempting(t)}
    /\ UNCHANGED transportVars

\* What the network and the service may do to the attempt of thread t.
AnythingGoes(t) ==
    /\ ~healthy \/ t \in doomed
    /\ \/ OperationEnds(t)
       \/ ConnectionFails(t)
       \/ \E status \in OutageStatuses, header \in Headers : HeadersArrive(t, status, header)
       \/ \E isObject \in BOOLEAN : BodyArrives(t, isObject)
       \/ BodyLost(t)

GoodAnswer(t) ==
    /\ healthy /\ t \notin doomed
    /\ OperationEnds(t) \/ HeadersArrive(t, 200, NoHeader) \/ BodyArrives(t, TRUE)

\* The application calls send(), again and again.
Request(t) == Begin(t) \/ ShortCircuit(t)

\* A call that is under way takes its next step.
Proceed(t) ==
    \/ \E body \in Bodies : Encode(t, body)
    \/ AnythingGoes(t)
    \/ GoodAnswer(t)
    \/ Wake(t)

RecoveryNext ==
    \/ Heal
    \/ /\ TransportTick \/ \E t \in Threads : Request(t) \/ Proceed(t)
       /\ doomed' = {t \in doomed : Attempting(t)'}
       /\ UNCHANGED healthy

\* A phase ends at its limit (socket timeout, sleep) and every thread goes on
\* making requests.  Time diverges: strong fairness, because calls that take no
\* time disable the tick over and over.  Nothing obliges the service to come
\* back.
Fairness ==
    /\ SF_recoveryVars(TransportTick /\ RecoveryNext)
    /\ \A t \in Threads :
         /\ WF_recoveryVars(Proceed(t) /\ RecoveryNext)
         /\ WF_recoveryVars(Request(t) /\ RecoveryNext)

RecoverySpec == RecoveryInit /\ [][RecoveryNext]_recoveryVars /\ Fairness

-------------------------------------------------------------------------------
\* SPEC.md:407-409: the half-open state lets a probe through and a success
\* closes the breaker, so once the service is back for good the breaker closes
\* and stays closed, whatever the calls in flight still report.
Recovers == healthy ~> [](State = "closed")

\* SPEC.md:392, "the total time spent must stay bounded", as progress: every
\* admitted call returns, however the service behaves.
CallsReturn == \A t \in Threads : (call[t].pc # "idle") ~> (call[t].pc = "idle")

\* SPEC.md:400, "counting transport failures only": a service that is back is not
\* held to what it did before.  Only attempts that began before it came back
\* still count as failures or restart the half-open timer; a retry that reaches
\* it counts as a success, whatever the attempts before it ended in.
OnlyDoomedCount ==
    [][(healthy /\ (failures' > failures \/ elapsed' < elapsed))
          => \E t \in doomed : call'[t].pc = "idle"]_recoveryVars
===============================================================================
