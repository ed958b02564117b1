----------------------------- MODULE RecoveryProofs ----------------------------
(***************************************************************************)
(* Proofs about Recovery: a service that fails and comes back is one of     *)
(* those that Transport allows, and once it is back only the attempts that  *)
(* began before can still count against it.                                 *)
(***************************************************************************)
EXTENDS Recovery, TransportProofs

\* The service of Recovery does nothing that the service of Transport may not do.
LEMMA RecoveryStepIsTransportStep ==
  [RecoveryNext]_recoveryVars => [TransportNext]_transportVars
<1> SUFFICES ASSUME [RecoveryNext]_recoveryVars PROVE TransportNext \/ UNCHANGED transportVars
  OBVIOUS
<1>1. ASSUME NEW t \in Threads, Request(t) PROVE TransportNext
  BY <1>1 DEF Request, ThreadStep, TransportNext
<1>2. ASSUME NEW t \in Threads, Proceed(t) PROVE TransportNext
  <2>1. CASE AnythingGoes(t)
    <3>1. ASSUME NEW status \in OutageStatuses, NEW header \in Headers,
                 HeadersArrive(t, status, header)
          PROVE  ThreadStep(t)
      BY <3>1, ServiceAssumption DEF ThreadStep
    <3>2. QED
      BY <2>1, <3>1 DEF AnythingGoes, ThreadStep, TransportNext
  <2>2. CASE GoodAnswer(t)
    <3>1. OperationEnds(t) \/ HeadersArrive(t, 200, NoHeader) \/ BodyArrives(t, TRUE)
      BY <2>2 DEF GoodAnswer
    <3>2. 200 \in Statuses /\ NoHeader \in Headers /\ TRUE \in BOOLEAN
      BY ServiceAssumption
    <3>3. QED
      BY <3>1, <3>2 DEF ThreadStep, TransportNext
  <2>3. QED
    BY <1>2, <2>1, <2>2 DEF Proceed, ThreadStep, TransportNext
<1>3. QED
  BY <1>1, <1>2 DEF RecoveryNext, Heal, TransportNext, recoveryVars

\* Recovery implements Transport, so what is proved of Transport holds while the
\* service fails, when it comes back and after.
THEOREM RecoveryImplementsTransport == RecoverySpec => TransportSpec
<1>1. RecoveryInit => TransportInit
  BY DEF RecoveryInit
<1>2. QED
  BY <1>1, RecoveryStepIsTransportStep, PTL DEF RecoverySpec, TransportSpec

\* The threads that retry against it are callers of the breaker, with the budget
\* computed from the options.
THEOREM RecoveryImplementsCallers == RecoverySpec => ImplementsCallers
  BY RecoveryImplementsTransport, SendImplementsCallers, PTL

-------------------------------------------------------------------------------
\* Once the service is back, an answer that is being read is the good one, unless
\* its attempt began before; and only attempts that still go on are doomed.
GoodNews ==
    /\ doomed \subseteq {t \in Threads : Attempting(t)}
    /\ \A t \in Threads :
         (healthy /\ call[t].pc = "reading" /\ t \notin doomed)
            => call[t].status = 200 /\ call[t].header = NoHeader

\* Thread t alone gets new locals, and they are not those of a read.
Moves(t) == \E l : call' = [call EXCEPT ![t] = l] /\ l.pc # "reading"

\* A call that ends is no longer reading.
LEMMA EndMoves ==
  ASSUME CallInvariant, NEW t \in Threads, NEW o, Return(t, o)
  PROVE  Moves(t) /\ call'[t].pc = "idle"
<1>1. call' = [call EXCEPT ![t] = NoCall] /\ DOMAIN call = Threads
  BY DEF Return, CallInvariant
<1>2. NoCall.pc = "idle"
  BY DEF NoCall
<1>3. QED
  BY <1>1, <1>2 DEF Moves

\* Nor is an attempt that is tried again, of which the breaker does not hear.
LEMMA RetryMoves ==
  ASSUME CallInvariant, NEW t \in Threads, NEW header, NEW status, NEW body,
         Retry(t, header, status, body)
  PROVE  Moves(t) /\ UNCHANGED breakerVars
<1>1. call[t] \in Locals
  BY DEF CallInvariant, GoodLocals
<1>2. PICK delay \in Delays(call[t].attempt + 1, header) :
        Continue(t, [call[t] EXCEPT !.pc = "sleeping", !.delay = delay,
                                    !.attempt = @ + 1, !.ops = 0,
                                    !.status = 0, !.header = NoHeader,
                                    !.lastStatus = status, !.lastBody = body])
  BY DEF Retry
<1> DEFINE l == [call[t] EXCEPT !.pc = "sleeping", !.delay = delay,
                                !.attempt = @ + 1, !.ops = 0,
                                !.status = 0, !.header = NoHeader,
                                !.lastStatus = status, !.lastBody = body]
           w == [l EXCEPT !.timer = 0]
<1>3. w.pc = "sleeping"
  BY <1>1 DEF Locals
<1>4. call' = [call EXCEPT ![t] = w] /\ UNCHANGED breakerVars
  BY <1>2 DEF Continue
<1>5. QED
  BY <1>3, <1>4 DEF Moves

\* What a thread may do to the breaker without ending its call: nothing.
Quietly(t) == Moves(t) /\ (UNCHANGED breakerVars \/ call'[t].pc = "idle")

\* A timeout or a broken connection (http.py: the last handler of send()).
LEMMA AttemptFailsQuietly ==
  ASSUME CallInvariant, NEW t \in Threads, AttemptFails(t) PROVE Quietly(t)
<1>1. CASE Retry(t, NoHeader, call[t].lastStatus, call[t].lastBody)
  BY <1>1, RetryMoves DEF Quietly
<1>2. CASE ~Retry(t, NoHeader, call[t].lastStatus, call[t].lastBody)
  <2>1. \E o : Return(t, o)
    BY <1>2, Zenon DEF AttemptFails
  <2>2. QED
    BY <2>1, EndMoves DEF Quietly
<1>3. QED
  BY <1>1, <1>2

\* The last answer that send() gives its verdict on.
LEMMA SettleQuietly ==
  ASSUME CallInvariant, NEW t \in Threads, NEW status, NEW body, Settle(t, status, body)
  PROVE  Quietly(t)
<1>1. \E o : Return(t, o)
  BY Zenon DEF Settle
<1>2. QED
  BY <1>1, EndMoves DEF Quietly

\* An answer that send() retries, or returns as it is.
LEMMA ErrorAnswerQuietly ==
  ASSUME CallInvariant, NEW t \in Threads, NEW body, ErrorAnswer(t, body)
  PROVE  Quietly(t)
<1>1. CASE Raise(t)
  BY <1>1, EndMoves DEF Raise, Quietly
<1>2. CASE Retry(t, call[t].header, call[t].status, body)
  BY <1>2, RetryMoves DEF Quietly
<1>3. CASE Settle(t, call[t].status, body)
  BY <1>3, SettleQuietly
<1>4. QED
  BY <1>1, <1>2, <1>3 DEF ErrorAnswer

\* What the network and the service may do to an attempt, apart from sending headers.
LEMMA BodyQuietly ==
  ASSUME CallInvariant, NEW t \in Threads,
         \/ ConnectionFails(t)
         \/ \E isObject \in BOOLEAN : BodyArrives(t, isObject)
         \/ BodyLost(t)
  PROVE  Quietly(t)
<1>1. ASSUME NEW isObject \in BOOLEAN, BodyArrives(t, isObject) PROVE Quietly(t)
  <2> DEFINE body == IF isObject THEN call[t].attempt ELSE NoBody
  <2>1. ErrorAnswer(t, body) \/ AttemptFails(t) \/ Settle(t, call[t].status, body)
    BY <1>1 DEF BodyArrives
  <2> HIDE DEF body
  <2>2. QED
    BY <2>1, ErrorAnswerQuietly, AttemptFailsQuietly, SettleQuietly
<1>2. QED
  BY <1>1, ErrorAnswerQuietly, AttemptFailsQuietly DEF ConnectionFails, BodyLost

\* Encoding and waking up do not concern the breaker.
LEMMA LocalQuietly ==
  ASSUME CallInvariant, NEW t \in Threads, (\E body \in Bodies : Encode(t, body)) \/ Wake(t)
  PROVE  Moves(t) /\ UNCHANGED breakerVars
<1>1. call[t] \in Locals
  BY DEF CallInvariant, GoodLocals
<1>2. CASE Raise(t)
  BY <1>2, EndMoves DEF Raise
<1>3. CASE ~Raise(t)
  <2>1. PICK l : Continue(t, l) /\ l \in {[call[t] EXCEPT !.pc = "waiting"],
                                          [call[t] EXCEPT !.pc = "waiting", !.delay = 0]}
    BY <1>3 DEF Encode, Wake
  <2> DEFINE w == [l EXCEPT !.timer = 0]
  <2>2. w.pc = "waiting"
    BY <1>1, <2>1 DEF Locals
  <2>3. call' = [call EXCEPT ![t] = w] /\ UNCHANGED breakerVars
    BY <2>1 DEF Continue
  <2>4. QED
    BY <2>2, <2>3 DEF Moves
<1>4. QED
  BY <1>2, <1>3

\* Asking the breaker moves neither its counter nor its timer.
LEMMA RequestMoves ==
  ASSUME CallInvariant, NEW t \in Threads, Request(t)
  PROVE  /\ Moves(t) \/ UNCHANGED call
         /\ UNCHANGED <<failures, elapsed>>
<1>1. CASE Begin(t)
  <2>1. call' = [call EXCEPT ![t] = [call[t] EXCEPT !.pc = "encoding"]]
    BY <1>1 DEF Begin
  <2>2. [call[t] EXCEPT !.pc = "encoding"].pc = "encoding"
    BY DEF CallInvariant, GoodLocals, Locals
  <2>3. UNCHANGED <<failures, elapsed>>
    BY <1>1 DEF Begin, AllowRequest, AllowClosed, AllowProbe, breakerVars
  <2>4. QED
    BY <2>1, <2>2, <2>3 DEF Moves
<1>2. CASE ShortCircuit(t)
  BY <1>2 DEF ShortCircuit, RefuseRequest, breakerVars
<1>3. QED
  BY <1>1, <1>2 DEF Request

\* Headers leave the other threads and the breaker alone.
LEMMA HeadersMove ==
  ASSUME CallInvariant, NEW t \in Threads, NEW status, NEW header,
         HeadersArrive(t, status, header)
  PROVE  /\ \E l : /\ call' = [call EXCEPT ![t] = l]
                   /\ l.pc = "reading" /\ l.status = status /\ l.header = header
         /\ UNCHANGED breakerVars
<1> DEFINE l == [call[t] EXCEPT !.pc = "reading", !.ops = @ + 1,
                                !.status = status, !.header = header]
           w == [l EXCEPT !.timer = 0]
<1>1. w.pc = "reading" /\ w.status = status /\ w.header = header
  BY DEF CallInvariant, GoodLocals, Locals
<1>2. call' = [call EXCEPT ![t] = w] /\ UNCHANGED breakerVars
  BY DEF HeadersArrive, Continue
<1>3. QED
  BY <1>1, <1>2

\* The next socket operation of an attempt changes nothing that GoodNews is about.
LEMMA OperationKeeps ==
  ASSUME CallInvariant, NEW t \in Threads, OperationEnds(t)
  PROVE  /\ \A u \in Threads : /\ call'[u].pc = call[u].pc
                               /\ call'[u].status = call[u].status
                               /\ call'[u].header = call[u].header
         /\ UNCHANGED breakerVars
<1> DEFINE l == [call[t] EXCEPT !.ops = @ + 1]
           w == [l EXCEPT !.timer = 0]
<1>1. w.pc = call[t].pc /\ w.status = call[t].status /\ w.header = call[t].header
  BY DEF CallInvariant, GoodLocals, Locals
<1>2. call' = [call EXCEPT ![t] = w] /\ UNCHANGED breakerVars
  BY DEF OperationEnds, Continue
<1> HIDE DEF w
<1>3. QED
  BY <1>1, <1>2 DEF CallInvariant

-------------------------------------------------------------------------------
\* One step of one thread keeps what GoodNews says.
LEMMA GoodNewsThread ==
  ASSUME CallInvariant, GoodNews, NEW t \in Threads, Request(t) \/ Proceed(t),
         doomed' = {u \in doomed : Attempting(u)'}, UNCHANGED healthy
  PROVE  GoodNews'
<1>1. DOMAIN call = Threads
  BY DEF CallInvariant
<1>2. CASE Moves(t) \/ UNCHANGED call
  BY <1>1, <1>2 DEF Moves, GoodNews, Attempting
<1>3. CASE OperationEnds(t)
  BY <1>3, OperationKeeps DEF GoodNews, Attempting
<1>4. CASE ~(Moves(t) \/ UNCHANGED call) /\ ~OperationEnds(t)
  <2>1. PICK status, header : HeadersArrive(t, status, header)
                              /\ (healthy /\ t \notin doomed => status = 200 /\ header = NoHeader)
    <3>1. AnythingGoes(t) \/ GoodAnswer(t)
      BY <1>4, RequestMoves, LocalQuietly DEF Proceed
    <3>2. CASE AnythingGoes(t)
      BY <1>4, <3>2, BodyQuietly DEF AnythingGoes, Quietly
    <3>3. CASE GoodAnswer(t)
      BY <1>4, <3>3, BodyQuietly DEF GoodAnswer, Quietly
    <3>4. QED
      BY <3>1, <3>2, <3>3
  <2>2. PICK l : call' = [call EXCEPT ![t] = l]
                 /\ l.pc = "reading" /\ l.status = status /\ l.header = header
    BY <2>1, HeadersMove
  <2>3. call[t].pc = "waiting"
    BY <2>1 DEF HeadersArrive
  <2>4. QED
    BY <1>1, <2>1, <2>2, <2>3 DEF GoodNews, Attempting
<1>5. QED
  BY <1>2, <1>3, <1>4

\* It holds at first and every step keeps it.
LEMMA GoodNewsInit == RecoveryInit => GoodNews
  BY DEF RecoveryInit, GoodNews

\* An answer that arrives once the service is back is a good one, whoever waits for it.
LEMMA GoodNewsStep == CallInvariant /\ GoodNews /\ [RecoveryNext]_recoveryVars => GoodNews'
<1> SUFFICES ASSUME CallInvariant, GoodNews, [RecoveryNext]_recoveryVars PROVE GoodNews'
  OBVIOUS
<1>1. CASE Heal
  BY <1>1 DEF Heal, GoodNews, Attempting, transportVars
<1>2. CASE TransportTick /\ doomed' = {t \in doomed : Attempting(t)'} /\ UNCHANGED healthy
  <2>1. ASSUME NEW t \in Threads
        PROVE  /\ call'[t].pc = call[t].pc /\ call'[t].status = call[t].status
               /\ call'[t].header = call[t].header
    <3>1. call[t] \in Locals
      BY DEF CallInvariant, GoodLocals
    <3>2. call'[t] \in {call[t], Older(call[t])}
      BY <1>2 DEF TransportTick, Older
    <3>3. QED
      BY <3>1, <3>2 DEF Locals, Older
  <2>2. QED
    BY <1>2, <2>1 DEF GoodNews, Attempting
<1>3. CASE UNCHANGED recoveryVars
  BY <1>3 DEF recoveryVars, transportVars, GoodNews, Attempting
<1>4. QED
  BY <1>1, <1>2, <1>3, GoodNewsThread DEF RecoveryNext

\* A breaker that is told of a success counts less and has no timer to wait for.
LEMMA SuccessHelps ==
  ASSUME BreakerTypeOK, RecordSuccess PROVE ~(failures' > failures \/ elapsed' < elapsed)
  BY FailureThresholdAssumption, ResetAfterAssumption DEF BreakerTypeOK, RecordSuccess

\* SPEC.md:400: only the attempts that began before the service came back count.
LEMMA OnlyDoomedStep ==
  ASSUME CallInvariant, BreakerTypeOK, GoodNews, [RecoveryNext]_recoveryVars,
         healthy, failures' > failures \/ elapsed' < elapsed
  PROVE  \E t \in doomed : call'[t].pc = "idle"
<1>1. failures \in Int /\ elapsed \in Int /\ elapsed <= ResetAfter /\ ResetAfter \in Nat
  BY FailureThresholdAssumption, ResetAfterAssumption DEF BreakerTypeOK
<1>2. ~(UNCHANGED <<failures, elapsed>>)
  BY <1>1
<1>3. ~(UNCHANGED breakerVars)
  BY <1>2 DEF breakerVars
<1>4. ~TransportTick
  <2>1. ClockTick => ~(failures' > failures \/ elapsed' < elapsed)
    BY <1>1 DEF ClockTick, Saturate
  <2>2. QED
    BY <2>1 DEF TransportTick
<1>5. PICK t \in Threads : Proceed(t)
  BY <1>2, <1>3, <1>4, RequestMoves DEF RecoveryNext, Heal, recoveryVars, transportVars, breakerVars
<1>6. CASE AnythingGoes(t)
  <2>1. t \in doomed
    BY <1>6 DEF AnythingGoes
  <2>2. call'[t].pc = "idle"
    BY <1>3, <1>6, OperationKeeps, BodyQuietly, HeadersMove DEF AnythingGoes, Quietly
  <2>3. QED
    BY <2>1, <2>2
<1>7. CASE GoodAnswer(t)
  <2>1. BodyArrives(t, TRUE) /\ t \notin doomed
    BY <1>3, <1>7, OperationKeeps, HeadersMove DEF GoodAnswer
  <2>2. call[t].pc = "reading"
    BY <2>1 DEF BodyArrives
  <2>3. call[t].status = 200 /\ call[t].header = NoHeader
    BY <2>1, <2>2 DEF GoodNews
  <2>4. Settle(t, 200, call[t].attempt)
    BY <2>1, <2>3, HeaderKindsAssumption DEF BodyArrives, Accepted
  <2>5. RecordSuccess
    <3>1. ~CountsAsFailure(200)
      BY DEF CountsAsFailure
    <3>2. QED
      BY <2>4, <3>1, Zenon DEF Settle
  <2>6. QED
    BY <2>5, SuccessHelps
<1>8. QED
  BY <1>3, <1>5, <1>6, <1>7, LocalQuietly DEF Proceed

\* A service that is back is not held to what it did before: whatever it answered
\* while it was down, and however many threads are still trying, no attempt that
\* reaches it afterwards counts as a failure or restarts the half-open timer.
THEOREM OnlyDoomedCounts == RecoverySpec => OnlyDoomedCount
<1>1. TransportTypeOK => BreakerTypeOK
  BY DEF TransportTypeOK
<1>2. CallInvariant /\ BreakerTypeOK /\ GoodNews /\ [RecoveryNext]_recoveryVars
        => [(healthy /\ (failures' > failures \/ elapsed' < elapsed))
              => \E t \in doomed : call'[t].pc = "idle"]_recoveryVars
  BY OnlyDoomedStep
<1>3. RecoverySpec => []CallInvariant /\ []TransportTypeOK
  BY RecoveryImplementsTransport, CallsCorrect, TransportTypeCorrect, PTL
<1>4. QED
  BY <1>1, <1>2, <1>3, GoodNewsInit, GoodNewsStep, PTL DEF RecoverySpec, OnlyDoomedCount

\* The last attempt that began before the service came back has ended.
BackForGood == healthy /\ doomed = {} /\ State = "closed"

\* SPEC.md:407-409: from then on a breaker that is closed stays closed.  This is what
\* is safety in Recovers; that it comes to be closed is liveness.
THEOREM ClosedForGood == RecoverySpec => [](BackForGood => [](State = "closed"))
<1>1. ASSUME CallInvariant, BreakerTypeOK, BreakerTypeOK', GoodNews, [RecoveryNext]_recoveryVars,
             BackForGood
      PROVE  BackForGood'
  <2>1. ~(failures' > failures)
    BY <1>1, OnlyDoomedStep DEF BackForGood
  <2>2. State' = "closed"
    BY <1>1, <2>1, FailureThresholdAssumption DEF BackForGood, State, BreakerTypeOK
  <2>3. healthy' /\ doomed' = {}
    BY <1>1 DEF BackForGood, RecoveryNext, Heal, recoveryVars
  <2>4. QED
    BY <2>2, <2>3 DEF BackForGood
<1>2. BackForGood => State = "closed"
  BY DEF BackForGood
<1>3. TransportTypeOK => BreakerTypeOK
  BY DEF TransportTypeOK
<1>4. RecoverySpec => []CallInvariant /\ []TransportTypeOK
  BY RecoveryImplementsTransport, CallsCorrect, TransportTypeCorrect, PTL
<1>5. QED
  BY <1>1, <1>2, <1>3, <1>4, GoodNewsInit, GoodNewsStep, PTL DEF RecoverySpec
===============================================================================
