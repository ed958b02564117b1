----------------------------- MODULE TransportProofs ----------------------------
(***************************************************************************)
(* Proofs about Transport, for every set of threads, number of retries,     *)
(* timeout, delay, status and header.                                       *)
(*                                                                          *)
(* Every step of send() but its first goes on with new locals or returns an *)
(* outcome (ThreadStepCases).  What holds of all locals and of all outcomes *)
(* gives the properties of Transport, and that send() is one of the callers *)
(* of BreakerCallers; what is proved there then holds for send().           *)
(***************************************************************************)
EXTENDS Transport, WellFoundedInduction, TLAPS

-------------------------------------------------------------------------------
(***************************************************************************)
(* A recursive function that adds up terms is the function its definition   *)
(* describes.  The total of the delays of a call is one.  Induction is by   *)
(* the least counterexample: the natural numbers are well founded.          *)
(***************************************************************************)
\* Every set of natural numbers that is not empty has a least element.
LEMMA LeastElement ==
  ASSUME NEW T \in SUBSET Nat, T # {} PROVE \E x \in T : \A y \in T : x <= y
<1>1. PICK x \in T : \A y \in T : <<y, x>> \notin OpToRel(<, Nat)
  BY NatLessThanWellFounded, WFMin
<1>2. \A y \in T : ~(y < x)
  BY <1>1 DEF OpToRel
<1>3. QED
  BY <1>2

\* Induction over a set of natural numbers.
LEMMA SetInduction ==
  ASSUME NEW S, 0 \in S, \A n \in Nat : n \in S => n + 1 \in S PROVE Nat \subseteq S
<1> DEFINE T == Nat \ S
<1> SUFFICES ASSUME T # {} PROVE FALSE
  OBVIOUS
<1>1. PICK x \in T : \A y \in T : x <= y
  BY LeastElement
<1>2. x # 0 /\ x - 1 \in Nat /\ x - 1 \notin T
  BY <1>1
<1>3. QED
  BY <1>2

\* The first n + 1 partial sums of d.
Sums(d, n) ==
    {f \in [0..n -> Int] : f[0] = 0 /\ \A k \in 1..n : f[k] = f[k - 1] + d[k]}

\* There are partial sums as far as one likes.
LEMMA SumsExist == ASSUME NEW d \in [Nat -> Int] PROVE \A n \in Nat : Sums(d, n) # {}
<1> DEFINE S == {n \in Nat : Sums(d, n) # {}}
<1>1. 0 \in S
  <2>1. [k \in 0..0 |-> 0] \in Sums(d, 0)
    BY DEF Sums
  <2>2. QED
    BY <2>1
<1>2. ASSUME NEW n \in Nat, n \in S PROVE n + 1 \in S
  <2>1. PICK f : f \in Sums(d, n)
    BY <1>2
  <2> DEFINE g == [k \in 0..(n + 1) |-> IF k = n + 1 THEN f[n] + d[n + 1] ELSE f[k]]
  <2>2. f \in [0..n -> Int] /\ f[0] = 0 /\ \A k \in 1..n : f[k] = f[k - 1] + d[k]
    BY <2>1 DEF Sums
  <2>3. g \in [0..(n + 1) -> Int] /\ g[0] = 0
    BY <2>2
  <2>4. \A k \in 1..(n + 1) : g[k] = g[k - 1] + d[k]
    BY <2>2
  <2>5. g \in Sums(d, n + 1)
    BY <2>3, <2>4 DEF Sums
  <2>6. QED
    BY <2>5
<1>3. Nat \subseteq S
  BY <1>1, <1>2, SetInduction
<1>4. QED
  BY <1>3

\* Partial sums agree as far as both go.
LEMMA SumsAgree ==
  ASSUME NEW d, NEW n \in Nat, NEW f \in Sums(d, n), NEW m \in Nat, NEW g \in Sums(d, m)
  PROVE  \A k \in Nat : k <= n /\ k <= m => f[k] = g[k]
<1> DEFINE S == {k \in Nat : k <= n /\ k <= m => f[k] = g[k]}
<1>1. 0 \in S
  BY DEF Sums
<1>2. ASSUME NEW k \in Nat, k \in S PROVE k + 1 \in S
  BY <1>2 DEF Sums
<1>3. Nat \subseteq S
  BY <1>1, <1>2, SetInduction
<1>4. QED
  BY <1>3

\* So there is a function that adds up all the terms of d.
LEMMA SumFunctionExists ==
  ASSUME NEW d \in [Nat -> Int]
  PROVE  \E s : s = [n \in Nat |-> IF n = 0 THEN 0 ELSE s[n - 1] + d[n]]
<1> DEFINE F(n) == CHOOSE f \in Sums(d, n) : TRUE
           s == [n \in Nat |-> F(n)[n]]
<1>1. \A n \in Nat : F(n) \in Sums(d, n)
  BY SumsExist
<1> HIDE DEF F
<1>2. s[0] = 0
  BY <1>1 DEF Sums
<1>3. ASSUME NEW n \in Nat, n # 0 PROVE s[n] = s[n - 1] + d[n]
  <2>1. F(n) \in Sums(d, n) /\ F(n - 1) \in Sums(d, n - 1) /\ n - 1 \in Nat
    BY <1>1, <1>3
  <2>2. F(n)[n] = F(n)[n - 1] + d[n]
    BY <1>3, <2>1 DEF Sums
  <2>3. F(n)[n - 1] = F(n - 1)[n - 1]
    BY <1>3, <2>1, SumsAgree
  <2>4. QED
    BY <2>1, <2>2, <2>3
<1>4. s = [n \in Nat |-> IF n = 0 THEN 0 ELSE s[n - 1] + d[n]]
  BY <1>2, <1>3
<1>5. QED
  BY <1>4

-------------------------------------------------------------------------------
\* A delay is a number of ticks, and never exceeds the longest one.
LEMMA LongestDelayType ==
  ASSUME NEW k \in Nat \ {0}
  PROVE  LongestDelay(k) \in Nat /\ BackoffCeiling(k) \in Int
<1>1. k - 1 \in Int /\ Backoff \in Int /\ RetryAfterCap \in Nat
  BY DelaysAssumption
<1>2. 2^(k - 1) \in Int
  BY <1>1
<1>3. BackoffCeiling(k) \in Int
  BY <1>1, <1>2 DEF BackoffCeiling
<1>4. QED
  BY <1>1, <1>3 DEF LongestDelay

\* _sleep_before_retry() sleeps no longer than that, whatever Retry-After says.
LEMMA DelayBounded ==
  ASSUME NEW k \in Nat \ {0}, NEW header \in Nat \union {NoHeader},
         NEW delay \in Delays(k, header)
  PROVE  delay \in Nat /\ delay <= LongestDelay(k)
<1>1. BackoffCeiling(k) \in Int /\ RetryAfterCap \in Nat
  BY LongestDelayType, DelaysAssumption
<1>2. CASE header = NoHeader
  BY <1>1, <1>2 DEF Delays, LongestDelay
<1>3. CASE header # NoHeader
  BY <1>1, <1>3 DEF Delays, Saturate, LongestDelay
<1>4. QED
  BY <1>2, <1>3

\* The total of the delays is what its recursive definition says.
LEMMA LongestDelaysDef ==
  LongestDelays = [n \in Nat |-> IF n = 0 THEN 0 ELSE LongestDelays[n - 1] + LongestDelay(n)]
<1> DEFINE d == [n \in Nat |-> IF n = 0 THEN 0 ELSE LongestDelay(n)]
           IsTotal(s) == s = [n \in Nat |-> IF n = 0 THEN 0 ELSE s[n - 1] + LongestDelay(n)]
<1>1. d \in [Nat -> Int]
  BY LongestDelayType
<1>2. PICK s : s = [n \in Nat |-> IF n = 0 THEN 0 ELSE s[n - 1] + d[n]]
  BY <1>1, SumFunctionExists
<1>3. IsTotal(s)
  BY <1>2
<1>4. LongestDelays = CHOOSE f : IsTotal(f)
  BY DEF LongestDelays
<1>5. QED
  BY <1>3, <1>4

\* The longest delays before the first n retries add up to a number.
LEMMA LongestDelaysType == LongestDelays \in [Nat -> Nat]
<1> DEFINE S == {n \in Nat : LongestDelays[n] \in Nat}
<1>1. 0 \in S
  BY LongestDelaysDef
<1>2. ASSUME NEW n \in Nat, n \in S PROVE n + 1 \in S
  <2>1. LongestDelays[n + 1] = LongestDelays[n] + LongestDelay(n + 1)
    BY LongestDelaysDef
  <2>2. LongestDelay(n + 1) \in Nat
    BY LongestDelayType
  <2>3. QED
    BY <1>2, <2>1, <2>2
<1>3. Nat \subseteq S
  BY <1>1, <1>2, SetInduction
<1>4. QED
  BY <1>3, LongestDelaysDef

-------------------------------------------------------------------------------
\* The time limits of an attempt are numbers.
LEMMA AttemptType ==
  /\ Timeout \in Nat /\ SocketOperations \in Nat /\ SocketOperations >= 2
  /\ AttemptLimit \in Nat
<1>1. Timeout \in Nat /\ SocketOperations \in Nat /\ SocketOperations >= 2
  BY DelaysAssumption, OperationsAssumption
<1>2. QED
  BY <1>1 DEF AttemptLimit

\* The operations of an attempt take a timeout each, and all of them its limit.
LEMMA OperationsAddUp ==
  /\ 0 * Timeout = 0
  /\ \A n \in Nat : n * Timeout \in Nat /\ (n + 1) * Timeout = n * Timeout + Timeout
  /\ \A n \in Nat : n <= SocketOperations => n * Timeout <= AttemptLimit
<1>1. Timeout \in Nat /\ SocketOperations \in Nat
  BY AttemptType
<1>2. ASSUME NEW n \in Nat PROVE n * Timeout \in Nat /\ (n + 1) * Timeout = n * Timeout + Timeout
  BY <1>1
<1>3. ASSUME NEW n \in Nat, n <= SocketOperations PROVE n * Timeout <= AttemptLimit
  <2>1. PICK d \in Nat : SocketOperations = n + d
    <3>1. SocketOperations - n \in Nat /\ SocketOperations = n + (SocketOperations - n)
      BY <1>1, <1>3
    <3>2. QED
      BY <3>1
  <2>2. (n + d) * Timeout = n * Timeout + d * Timeout
    BY <1>1
  <2>3. n * Timeout \in Nat /\ d * Timeout \in Nat
    BY <1>2
  <2>4. QED
    BY <2>1, <2>2, <2>3 DEF AttemptLimit
<1>4. QED
  BY <1>1, <1>2, <1>3

\* The most time that may have gone by when attempt k begins to wait: the limit of
\* each attempt before it and the delays in between.
Spent(k) == AttemptLimit * k + LongestDelays[k]

\* One more attempt costs its limit and the delay behind it,
LEMMA SpentGrows ==
  ASSUME NEW k \in Nat
  PROVE  /\ Spent(k) \in Nat
         /\ Spent(k + 1) = Spent(k) + AttemptLimit + LongestDelay(k + 1)
         /\ LongestDelay(k + 1) \in Nat
<1>1. AttemptLimit \in Nat /\ LongestDelays[k] \in Nat /\ LongestDelay(k + 1) \in Nat
  BY AttemptType, LongestDelaysType, LongestDelayType
<1>2. LongestDelays[k + 1] = LongestDelays[k] + LongestDelay(k + 1)
  BY LongestDelaysDef
<1>3. AttemptLimit * (k + 1) = AttemptLimit * k + AttemptLimit
  BY <1>1
<1>4. AttemptLimit * k \in Nat
  BY <1>1
<1>5. QED
  BY <1>1, <1>2, <1>3, <1>4 DEF Spent

\* so the time spent only grows with the attempts.
LEMMA SpentMonotone ==
  ASSUME NEW k \in Nat, NEW m \in Nat, k <= m PROVE Spent(k) <= Spent(m)
<1> DEFINE S == {j \in Nat : Spent(k) <= Spent(k + j)}
<1>1. 0 \in S
  BY SpentGrows
<1>2. ASSUME NEW j \in Nat, j \in S PROVE j + 1 \in S
  <2>1. /\ k + j \in Nat /\ Spent(k) \in Nat /\ Spent(k + j) \in Nat
        /\ Spent((k + j) + 1) = Spent(k + j) + AttemptLimit + LongestDelay((k + j) + 1)
        /\ LongestDelay((k + j) + 1) \in Nat /\ AttemptLimit \in Nat
    BY SpentGrows, AttemptType
  <2>2. (k + j) + 1 = k + (j + 1)
    OBVIOUS
  <2>3. Spent(k) <= Spent(k + (j + 1))
    BY <1>2, <2>1, <2>2
  <2>4. QED
    BY <2>3
<1>3. Nat \subseteq S
  BY <1>1, <1>2, SetInduction
<1>4. m - k \in Nat /\ k + (m - k) = m
  OBVIOUS
<1>5. QED
  BY <1>3, <1>4

-------------------------------------------------------------------------------
\* The locals of send(), in any phase.
Locals ==
    [pc : {"idle", "encoding", "waiting", "reading", "sleeping"},
     attempt : 0..MaxRetries, timer : Nat, ops : 0..SocketOperations - 1,
     delay : Nat, age : Nat,
     status : Statuses \union {0}, header : Headers \union {NoHeader},
     lastStatus : Statuses \union {0}, lastBody : NoBody..MaxRetries]

\* How long the call may have taken, by where it stands.
OnTime(l) ==
    /\ l.pc = "idle" => l = NoCall
    /\ l.pc = "encoding" => l.attempt = 0 /\ l.timer = 0 /\ l.ops = 0 /\ l.age = 0
    /\ l.pc = "waiting" => l.ops + 2 <= SocketOperations
    /\ l.pc = "reading" => l.status \in Statuses
    /\ l.pc \in {"waiting", "reading"} =>
         /\ l.timer <= Timeout
         /\ l.age <= Spent(l.attempt) + l.ops * Timeout + l.timer
    /\ l.pc = "sleeping" => /\ l.attempt >= 1
                            /\ l.ops = 0
                            /\ l.timer <= l.delay
                            /\ l.delay <= LongestDelay(l.attempt)
                            /\ l.age <= Spent(l.attempt - 1) + AttemptLimit + l.timer

\* What send() returns, and the properties of it.
OutcomeTypes ==
    [status : Statuses \union {0}, body : NoBody..MaxRetries,
     error : {"pending", "", "open", "exhausted", "raised"},
     attempt : 0..MaxRetries, verdict : {"none", "success", "failure"}]

Consistent(o) ==
    /\ o.verdict = "failure" => Degraded(o)
    /\ o.verdict = "success" /\ Degraded(o) => Undecodable(o)
    /\ o.error = "" => o.body \in {NoBody, o.attempt}
    /\ o.error # "" => o.status \in {0, 429} \/ o.status >= 500

GoodLocals == {l \in Locals : OnTime(l)}
GoodOutcomes == {o \in OutcomeTypes : Consistent(o)}

CallInvariant ==
    /\ call \in [Threads -> GoodLocals]
    /\ probes \subseteq InFlight
    /\ outcome \in [Threads -> GoodOutcomes]

\* A thread that makes no call is on time, and has returned nothing wrong.
LEMMA IdleIsGood == NoCall \in GoodLocals /\ NoOutcome \in GoodOutcomes
<1> USE MaxRetriesAssumption
<1>1. NoCall \in Locals
  BY OperationsAssumption DEF NoCall, Locals, NoBody
<1>2. OnTime(NoCall)
  BY DEF OnTime, NoCall
<1>3. NoOutcome \in OutcomeTypes /\ Consistent(NoOutcome)
  BY DEF NoOutcome, Outcome, OutcomeTypes, NoBody, Consistent
<1>4. QED
  BY <1>1, <1>2, <1>3 DEF GoodLocals, GoodOutcomes

\* No thread is in a call at first.
LEMMA CallInvariantInit == TransportInit => CallInvariant
  BY IdleIsGood DEF TransportInit, CallInvariant

\* An attempt that has not ended has not used up its limit.
LEMMA GoodAttempt ==
  ASSUME NEW l \in GoodLocals, l.pc \in {"waiting", "reading"}
  PROVE  /\ Spent(l.attempt) \in Nat /\ l.age \in Nat
         /\ l.age <= Spent(l.attempt) + AttemptLimit
<1>1. l \in Locals /\ OnTime(l)
  BY DEF GoodLocals
<1> DEFINE n == l.ops
           k == l.attempt
<1>2. /\ n \in Nat /\ n + 1 <= SocketOperations /\ k \in Nat
      /\ l.age \in Nat /\ l.timer \in Nat /\ l.timer <= Timeout
      /\ l.age <= Spent(k) + n * Timeout + l.timer
  BY <1>1, AttemptType, MaxRetriesAssumption DEF Locals, OnTime
<1> HIDE DEF n, k
<1>3. Spent(k) \in Nat
  BY <1>2, SpentGrows
<1>4. n * Timeout \in Nat /\ n * Timeout + Timeout <= AttemptLimit
  <2>1. n + 1 \in Nat /\ (n + 1) * Timeout = n * Timeout + Timeout /\ n * Timeout \in Nat
    BY <1>2, OperationsAddUp
  <2>2. (n + 1) * Timeout <= AttemptLimit
    BY <1>2, <2>1, OperationsAddUp
  <2>3. QED
    BY <2>1, <2>2
<1>5. l.age <= Spent(k) + AttemptLimit
  BY <1>2, <1>3, <1>4, AttemptType
<1>6. QED
  BY <1>2, <1>3, <1>5 DEF k

\* No call is older than the budget.
LEMMA GoodIsInBudget == ASSUME NEW l \in GoodLocals PROVE l.age <= CallBudget
<1>1. l \in Locals /\ OnTime(l)
  BY DEF GoodLocals
<1> DEFINE k == l.attempt
<1>2. k \in 0..MaxRetries /\ MaxRetries \in Nat /\ AttemptLimit \in Nat /\ l.age \in Nat /\ l.timer \in Nat
  BY <1>1, MaxRetriesAssumption, AttemptType DEF Locals
<1>3. CallBudget = Spent(MaxRetries) + AttemptLimit /\ Spent(MaxRetries) \in Nat
  <2>1. AttemptLimit * (MaxRetries + 1) = AttemptLimit * MaxRetries + AttemptLimit
    BY <1>2
  <2>2. AttemptLimit * MaxRetries \in Nat /\ LongestDelays[MaxRetries] \in Nat
    BY <1>2, LongestDelaysType
  <2>3. QED
    BY <2>1, <2>2, <1>2 DEF CallBudget, Spent
<1>4. Spent(k) \in Nat /\ Spent(k) <= Spent(MaxRetries)
  <2>1. k \in Nat /\ k <= MaxRetries
    BY <1>2
  <2> HIDE DEF k
  <2>2. QED
    BY <1>2, <2>1, SpentGrows, SpentMonotone
<1>5. CASE l.pc \in {"idle", "encoding"}
  BY <1>1, <1>3, <1>2, <1>5 DEF OnTime, NoCall
<1>6. CASE l.pc \in {"waiting", "reading"}
  BY <1>2, <1>3, <1>4, <1>6, GoodAttempt
<1>7. CASE l.pc = "sleeping"
  <2>1. k - 1 \in Nat /\ (k - 1) + 1 = k /\ l.delay \in Nat
    BY <1>1, <1>2, <1>7 DEF OnTime, Locals
  <2>2. /\ Spent(k - 1) \in Nat /\ LongestDelay(k) \in Nat
        /\ Spent(k) = Spent(k - 1) + AttemptLimit + LongestDelay(k)
    BY <2>1, SpentGrows
  <2>3. l.age <= Spent(k - 1) + AttemptLimit + LongestDelay(k)
    BY <1>1, <1>2, <1>7, <2>1, <2>2 DEF OnTime
  <2>4. QED
    BY <1>2, <1>3, <1>4, <2>2, <2>3
<1>8. QED
  BY <1>1, <1>5, <1>6, <1>7 DEF Locals

-------------------------------------------------------------------------------
(***************************************************************************)
(* The shape of a step.                                                     *)
(***************************************************************************)
GoesOn(t) ==
    \E l \in Locals :
        /\ call[t].pc # "idle" /\ l.pc # "idle" /\ l.age = call[t].age
        /\ OnTime([l EXCEPT !.timer = 0])
        /\ Continue(t, l)

Returns(t) ==
    \E o \in GoodOutcomes :
        /\ call[t].pc # "idle"
        /\ Return(t, o)
        /\ RecordSuccess \/ RecordFailure \/ UNCHANGED breakerVars

\* The loop comes round before the current attempt has used up its limit.
LEMMA RetryGoesOn ==
  ASSUME CallInvariant, NEW t \in Threads, NEW header \in Nat \union {NoHeader},
         NEW status \in Statuses \union {0}, NEW body \in NoBody..MaxRetries,
         call[t].pc \in {"waiting", "reading"},
         Retry(t, header, status, body)
  PROVE  GoesOn(t)
<1>1. call[t] \in Locals /\ OnTime(call[t])
  BY DEF CallInvariant, GoodLocals
<1> DEFINE k == call[t].attempt
<1>2. k \in Nat /\ k < MaxRetries /\ k + 1 \in 0..MaxRetries /\ AttemptLimit \in Nat
  BY <1>1, MaxRetriesAssumption, AttemptType DEF Locals, Retry
<1>3. PICK delay \in Delays(k + 1, header) :
        Continue(t, [call[t] EXCEPT !.pc = "sleeping", !.delay = delay,
                                    !.attempt = @ + 1, !.ops = 0,
                                    !.status = 0, !.header = NoHeader,
                                    !.lastStatus = status, !.lastBody = body])
  BY DEF Retry
<1>4. delay \in Nat /\ delay <= LongestDelay(k + 1)
  BY <1>2, DelayBounded
<1> DEFINE l == [call[t] EXCEPT !.pc = "sleeping", !.delay = delay, !.attempt = @ + 1, !.ops = 0,
                                !.status = 0, !.header = NoHeader,
                                !.lastStatus = status, !.lastBody = body]
<1>5. l \in Locals
  <2>1. 0 \in 0..SocketOperations - 1
    BY AttemptType
  <2>2. QED
    BY <1>1, <1>2, <1>4, <2>1 DEF Locals
<1>6. l.age <= Spent(k) + AttemptLimit
  <2>1. call[t] \in GoodLocals /\ l.age = call[t].age
    BY <1>1 DEF CallInvariant, Locals
  <2>2. QED
    BY <2>1, GoodAttempt
<1> DEFINE w == [l EXCEPT !.timer = 0]
<1>7. /\ w.pc = "sleeping" /\ w.timer = 0 /\ w.ops = 0 /\ w.delay = delay /\ w.attempt = k + 1
      /\ w.age = l.age
  BY <1>1 DEF Locals
<1>8. Spent(k) \in Nat /\ l.age \in Nat
  BY <1>1, <1>2, SpentGrows DEF Locals
<1>9. l.pc = "sleeping" /\ l.age = call[t].age
  BY <1>1 DEF Locals
<1> HIDE DEF w
<1>10. OnTime(w)
  <2>1. (k + 1) - 1 = k
    BY <1>2
  <2>2. w.age <= Spent(w.attempt - 1) + AttemptLimit + w.timer
    BY <1>2, <1>6, <1>7, <1>8, <2>1
  <2>3. w.attempt >= 1 /\ w.ops = 0 /\ w.timer <= w.delay /\ w.delay <= LongestDelay(w.attempt)
    BY <1>2, <1>4, <1>7
  <2>4. QED
    BY <1>7, <2>2, <2>3 DEF OnTime
<1>11. QED
  BY <1>3, <1>5, <1>9, <1>10 DEF GoesOn, w

\* An attempt fails: the loop comes round or the call is given up, which is a
\* failure for the breaker and for the decision alike.
LEMMA AttemptFailsShape ==
  ASSUME CallInvariant, NEW t \in Threads, call[t].pc \in {"waiting", "reading"},
         AttemptFails(t)
  PROVE  GoesOn(t) \/ Returns(t)
<1>1. call[t] \in Locals
  BY DEF CallInvariant, GoodLocals
<1>2. CASE Retry(t, NoHeader, call[t].lastStatus, call[t].lastBody)
  <2>1. call[t].lastStatus \in Statuses \union {0} /\ call[t].lastBody \in NoBody..MaxRetries
    BY <1>1 DEF Locals
  <2>2. QED
    BY <1>2, <2>1, RetryGoesOn
<1>3. CASE ~Retry(t, NoHeader, call[t].lastStatus, call[t].lastBody)
  <2> DEFINE status == IF call[t].lastStatus >= 500 \/ call[t].lastStatus = 429
                       THEN call[t].lastStatus ELSE 0
             o == Outcome(status, call[t].lastBody, "exhausted", MaxRetries, "failure")
  <2>1. RecordFailure /\ Return(t, o)
    BY <1>3 DEF AttemptFails
  <2>2. status \in Statuses \union {0} /\ call[t].lastBody \in NoBody..MaxRetries
    BY <1>1 DEF Locals
  <2>3. status \in {0, 429} \/ status >= 500
    BY <1>1, StatusesAssumption DEF Locals
  <2> HIDE DEF status
  <2>4. o \in OutcomeTypes
    BY <2>2, MaxRetriesAssumption DEF Outcome, OutcomeTypes
  <2>5. Consistent(o)
    BY <2>3 DEF Consistent, Outcome, Degraded
  <2>6. QED
    BY <2>1, <2>4, <2>5 DEF Returns, GoodOutcomes
<1>4. QED
  BY <1>2, <1>3

\* A final answer that counts as a failure is degraded, and one that is degraded and
\* does not count is one that cannot be decoded.
LEMMA SettleShape ==
  ASSUME CallInvariant, NEW t \in Threads, call[t].pc = "reading",
         NEW body \in {NoBody, call[t].attempt}, Settle(t, call[t].status, body)
  PROVE  Returns(t)
<1>1. call[t] \in Locals /\ OnTime(call[t])
  BY DEF CallInvariant, GoodLocals
<1>2. call[t].status \in Statuses /\ call[t].status # 0
  BY <1>1, StatusesAssumption DEF OnTime
<1> DEFINE o(verdict) == Outcome(call[t].status, body, "", call[t].attempt, verdict)
<1>3. ASSUME NEW v \in {"success", "failure"} PROVE o(v) \in OutcomeTypes
  BY <1>1, <1>2, MaxRetriesAssumption DEF Locals, Outcome, OutcomeTypes, NoBody
<1>4. CASE CountsAsFailure(call[t].status)
  <2>1. Consistent(o("failure"))
    BY <1>4 DEF Consistent, Outcome, Degraded, CountsAsFailure
  <2>2. QED
    BY <1>3, <1>4, <2>1 DEF Settle, Returns, GoodOutcomes
<1>5. CASE ~CountsAsFailure(call[t].status)
  <2>1. Consistent(o("success"))
    BY <1>2, <1>5 DEF Consistent, Outcome, Degraded, Undecodable, CountsAsFailure
  <2>2. QED
    BY <1>3, <1>5, <2>1 DEF Settle, Returns, GoodOutcomes
<1>6. QED
  BY <1>4, <1>5

\* An exception leaves send().
LEMMA RaiseShape ==
  ASSUME CallInvariant, NEW t \in Threads, call[t].pc # "idle", Raise(t) PROVE Returns(t)
<1> DEFINE o == Outcome(0, NoBody, "raised", call[t].attempt, "none")
<1>1. call[t] \in Locals
  BY DEF CallInvariant, GoodLocals
<1>2. o \in OutcomeTypes
  BY <1>1, MaxRetriesAssumption DEF Locals, Outcome, OutcomeTypes, NoBody
<1>3. Consistent(o)
  BY DEF Consistent, Outcome
<1>4. Return(t, o) /\ UNCHANGED breakerVars
  BY DEF Raise
<1>5. QED
  BY <1>2, <1>3, <1>4 DEF Returns, GoodOutcomes

\* An error answer raises, is tried again, or is final.
LEMMA ErrorAnswerShape ==
  ASSUME CallInvariant, NEW t \in Threads, call[t].pc = "reading",
         NEW body \in {NoBody, call[t].attempt}, ErrorAnswer(t, body)
  PROVE  GoesOn(t) \/ Returns(t)
<1>1. call[t] \in Locals
  BY DEF CallInvariant, GoodLocals
<1>2. CASE call[t].header = NaiveDate /\ Raise(t)
  BY <1>2, RaiseShape
<1>3. CASE call[t].header # NaiveDate /\ Retry(t, call[t].header, call[t].status, body)
  <2>1. call[t].header \in Nat \union {NoHeader}
    BY <1>1, <1>3, HeadersAssumption DEF Locals
  <2>2. call[t].status \in Statuses \union {0} /\ body \in NoBody..MaxRetries
    BY <1>1, MaxRetriesAssumption DEF Locals, NoBody
  <2>3. QED
    BY <1>3, <2>1, <2>2, RetryGoesOn
<1>4. CASE Settle(t, call[t].status, body)
  BY <1>4, SettleShape
<1>5. QED
  BY <1>2, <1>3, <1>4 DEF ErrorAnswer

\* An operation that ends in time leaves the next one its timeout.
LEMMA NextOperation ==
  ASSUME CallInvariant, NEW t \in Threads, call[t].pc \in {"waiting", "reading"},
         NEW l \in Locals, l.pc \in {"waiting", "reading"},
         l.age = call[t].age, l.attempt = call[t].attempt, l.ops = call[t].ops + 1,
         l.pc = "waiting" => l.ops + 2 <= SocketOperations,
         l.pc = "reading" => l.status \in Statuses
  PROVE  OnTime([l EXCEPT !.timer = 0])
<1> DEFINE n == call[t].ops
           w == [l EXCEPT !.timer = 0]
<1>1. /\ n \in Nat /\ call[t].attempt \in Nat /\ call[t].age \in Nat /\ call[t].timer \in Nat
      /\ call[t].timer <= Timeout
      /\ call[t].age <= Spent(call[t].attempt) + n * Timeout + call[t].timer
  BY AttemptType, MaxRetriesAssumption DEF CallInvariant, GoodLocals, Locals, OnTime
<1>2. /\ w.pc = l.pc /\ w.timer = 0 /\ w.ops = n + 1 /\ w.ops = l.ops /\ w.age = call[t].age
      /\ w.attempt = call[t].attempt /\ w.status = l.status
  BY DEF Locals
<1> HIDE DEF n, w
<1>3. Spent(call[t].attempt) \in Nat
  BY <1>1, SpentGrows
<1> DEFINE done == n * Timeout
           more == (n + 1) * Timeout
<1>4. done \in Nat /\ more = done + Timeout
  BY <1>1, OperationsAddUp
<1>5. call[t].age <= Spent(call[t].attempt) + done + call[t].timer
  BY <1>1
<1>6. more = w.ops * Timeout
  BY <1>2
<1> HIDE DEF done, more
<1>7. w.age <= Spent(w.attempt) + more + w.timer
  BY <1>1, <1>2, <1>3, <1>4, <1>5, AttemptType
<1>8. w.timer <= Timeout /\ w.pc \in {"waiting", "reading"}
  BY <1>2, AttemptType
<1>9. OnTime(w)
  BY <1>2, <1>6, <1>7, <1>8 DEF OnTime
<1>10. QED
  BY <1>9 DEF w

\* Headers, sleep and the next operation: a timer starts anew.
LEMMA PhaseShape ==
  ASSUME CallInvariant, NEW t \in Threads,
         \/ \E body \in Bodies : Encode(t, body)
         \/ \E status \in Statuses, header \in Headers : HeadersArrive(t, status, header)
         \/ OperationEnds(t)
         \/ Wake(t)
  PROVE  GoesOn(t) \/ Returns(t)
<1>1. call[t] \in Locals /\ OnTime(call[t]) /\ Timeout \in Nat
  BY DelaysAssumption DEF CallInvariant, GoodLocals
<1> DEFINE k == call[t].attempt
<1>2. k \in Nat /\ Spent(k) \in Nat /\ call[t].age \in Nat /\ call[t].timer \in Nat
  <2>1. k \in Nat /\ call[t].age \in Nat /\ call[t].timer \in Nat
    BY <1>1, MaxRetriesAssumption DEF Locals
  <2>2. QED
    BY <2>1, SpentGrows
<1>3. ASSUME NEW body \in Bodies, Encode(t, body) PROVE GoesOn(t) \/ Returns(t)
  <2>1. CASE Raise(t)
    BY <1>3, <2>1, RaiseShape DEF Encode
  <2>2. CASE ~Raise(t)
    <3> DEFINE l == [call[t] EXCEPT !.pc = "waiting"]
    <3>1. call[t].pc = "encoding" /\ Continue(t, l)
      BY <1>3, <2>2 DEF Encode
    <3>2. l \in Locals /\ l.pc = "waiting" /\ l.age = call[t].age
      BY <1>1 DEF Locals
    <3>3. OnTime([l EXCEPT !.timer = 0])
      BY <1>1, <1>2, <3>1, AttemptType, OperationsAddUp DEF OnTime, Locals
    <3>4. QED
      BY <3>1, <3>2, <3>3 DEF GoesOn
  <2>3. QED
    BY <2>1, <2>2
<1>4. ASSUME NEW status \in Statuses, NEW header \in Headers, HeadersArrive(t, status, header)
      PROVE  GoesOn(t)
  <2> DEFINE l == [call[t] EXCEPT !.pc = "reading", !.ops = @ + 1,
                                  !.status = status, !.header = header]
  <2>1. call[t].pc = "waiting" /\ Continue(t, l)
    BY <1>4 DEF HeadersArrive
  <2>2. call[t].ops + 1 \in 0..SocketOperations - 1
    BY <1>1, <2>1, AttemptType DEF OnTime, Locals
  <2>3. /\ l \in Locals /\ l.pc = "reading" /\ l.age = call[t].age
        /\ l.attempt = k /\ l.ops = call[t].ops + 1 /\ l.status = status
    BY <1>1, <2>2 DEF Locals
  <2>4. OnTime([l EXCEPT !.timer = 0])
    BY <2>1, <2>3, NextOperation
  <2>5. QED
    BY <2>1, <2>3, <2>4 DEF GoesOn
<1>7. CASE OperationEnds(t)
  <2> DEFINE l == [call[t] EXCEPT !.ops = @ + 1]
  <2>1. /\ \/ call[t].pc = "waiting" /\ call[t].ops + 2 < SocketOperations
           \/ call[t].pc = "reading" /\ call[t].ops + 1 < SocketOperations
        /\ Continue(t, l)
    BY <1>7 DEF OperationEnds
  <2>2. call[t].ops + 1 \in 0..SocketOperations - 1
    BY <1>1, <2>1, AttemptType DEF Locals
  <2>3. /\ l \in Locals /\ l.pc = call[t].pc /\ l.age = call[t].age
        /\ l.attempt = k /\ l.ops = call[t].ops + 1 /\ l.status = call[t].status
    BY <1>1, <2>2 DEF Locals
  <2>4. /\ l.pc = "waiting" => l.ops + 2 <= SocketOperations
        /\ l.pc = "reading" => l.status \in Statuses
    BY <1>1, <2>1, <2>2, <2>3, AttemptType DEF OnTime, Locals
  <2>5. OnTime([l EXCEPT !.timer = 0])
    BY <2>1, <2>3, <2>4, NextOperation
  <2>6. QED
    BY <2>1, <2>3, <2>5 DEF GoesOn
<1>5. CASE Wake(t)
  <2> DEFINE l == [call[t] EXCEPT !.pc = "waiting", !.delay = 0]
  <2>1. call[t].pc = "sleeping" /\ call[t].timer = call[t].delay /\ Continue(t, l)
    BY <1>5 DEF Wake
  <2>2. l \in Locals /\ l.pc = "waiting" /\ l.age = call[t].age
    BY <1>1 DEF Locals
  <2>3. call[t].age <= Spent(k)
    <3>1. k - 1 \in Nat /\ (k - 1) + 1 = k
      BY <1>1, <1>2, <2>1 DEF OnTime
    <3>2. /\ Spent(k - 1) \in Nat /\ LongestDelay(k) \in Nat /\ AttemptLimit \in Nat
          /\ Spent(k) = Spent(k - 1) + AttemptLimit + LongestDelay(k)
      BY <3>1, SpentGrows, AttemptType
    <3>3. /\ call[t].age <= Spent(k - 1) + AttemptLimit + call[t].timer
          /\ call[t].timer <= LongestDelay(k)
      BY <1>1, <2>1 DEF OnTime
    <3>4. QED
      BY <1>1, <1>2, <3>2, <3>3
  <2>4. OnTime([l EXCEPT !.timer = 0])
    BY <1>1, <1>2, <2>1, <2>3, AttemptType, OperationsAddUp DEF OnTime, Locals
  <2>5. QED
    BY <2>1, <2>2, <2>4 DEF GoesOn
<1>6. QED
  BY <1>3, <1>4, <1>5, <1>7

\* A step of a thread asks the breaker, goes on with a call or returns from one.
LEMMA ThreadStepCases ==
  ASSUME CallInvariant, NEW t \in Threads, ThreadStep(t)
  PROVE  Begin(t) \/ ShortCircuit(t) \/ GoesOn(t) \/ Returns(t)
<1>1. CASE ConnectionFails(t)
  BY <1>1, AttemptFailsShape DEF ConnectionFails
<1>2. ASSUME NEW isObject \in BOOLEAN, BodyArrives(t, isObject) PROVE GoesOn(t) \/ Returns(t)
  <2> DEFINE body == IF isObject THEN call[t].attempt ELSE NoBody
  <2>1. /\ call[t].pc = "reading"
        /\ ErrorAnswer(t, body) \/ AttemptFails(t) \/ Settle(t, call[t].status, body)
    BY <1>2 DEF BodyArrives
  <2>2. body \in {NoBody, call[t].attempt}
    OBVIOUS
  <2> HIDE DEF body
  <2>3. QED
    BY <2>1, <2>2, ErrorAnswerShape, AttemptFailsShape, SettleShape
<1>3. CASE BodyLost(t)
  BY <1>3, ErrorAnswerShape, AttemptFailsShape DEF BodyLost
<1>4. QED
  BY <1>1, <1>2, <1>3, PhaseShape DEF ThreadStep

-------------------------------------------------------------------------------
\* A clock carried one tick further leaves the other locals as they are.
Older(l) == [l EXCEPT !.timer = @ + 1, !.age = @ + 1]

\* It stays a state that locals can be in.
LEMMA OlderLocals ==
  ASSUME NEW l \in Locals
  PROVE  /\ Older(l) \in Locals
         /\ Older(l).pc = l.pc /\ Older(l).attempt = l.attempt
         /\ Older(l).delay = l.delay /\ Older(l).status = l.status
         /\ Older(l).ops = l.ops
         /\ Older(l).timer = l.timer + 1 /\ Older(l).age = l.age + 1
<1>1. l.timer + 1 \in Nat /\ l.age + 1 \in Nat
  BY DEF Locals
<1> DEFINE timer == l.timer + 1
           age == l.age + 1
<1>2. Older(l) = [l EXCEPT !.timer = timer, !.age = age]
  BY DEF Older
<1> HIDE DEF timer, age
<1>3. timer \in Nat /\ age \in Nat
  BY <1>1 DEF timer, age
<1>4. QED
  BY <1>2, <1>3 DEF Locals, timer, age

\* No phase is carried past its limit by a tick.
LEMMA TickIsGood ==
  ASSUME CallInvariant, NEW t \in InFlight, call[t].timer < Limit(t)
  PROVE  Older(call[t]) \in GoodLocals
<1> DEFINE l == call[t]
           w == Older(l)
<1>1. l \in Locals /\ OnTime(l) /\ l.pc # "idle" /\ Timeout \in Nat
  BY DelaysAssumption DEF CallInvariant, GoodLocals, InFlight
<1>3. l.timer \in Nat /\ l.age \in Nat /\ l.attempt \in Nat /\ l.delay \in Nat
  BY <1>1, MaxRetriesAssumption DEF Locals
<1>2. /\ w \in Locals /\ w.pc = l.pc /\ w.attempt = l.attempt /\ w.delay = l.delay /\ w.ops = l.ops
      /\ w.status = l.status /\ w.timer = l.timer + 1 /\ w.age = l.age + 1
  BY <1>1, OlderLocals
<1>4. Spent(l.attempt) \in Nat
  BY <1>3, SpentGrows
<1>5. CASE l.pc = "encoding"
  BY <1>1, <1>5 DEF OnTime, Limit
<1>6. CASE l.pc \in {"waiting", "reading"}
  <2>1. l.timer < Timeout
    BY <1>6 DEF Limit
  <2>2. l.ops * Timeout \in Nat
    <3>1. l.ops \in Nat
      BY <1>1, AttemptType DEF Locals
    <3>2. QED
      BY <3>1, OperationsAddUp
  <2> DEFINE done == l.ops * Timeout
  <2>3. /\ l.age <= Spent(l.attempt) + done + l.timer
        /\ l.pc = "waiting" => l.ops + 2 <= SocketOperations
        /\ l.pc = "reading" => l.status \in Statuses
    BY <1>1, <1>6 DEF OnTime
  <2>4. w.age <= Spent(w.attempt) + done + w.timer /\ w.timer <= Timeout
    <3> HIDE DEF done, w
    <3>1. done \in Nat
      BY <2>2 DEF done
    <3>2. QED
      BY <1>1, <1>2, <1>3, <1>4, <2>1, <2>3, <3>1
  <2>5. done = w.ops * Timeout
    BY <1>2
  <2> HIDE DEF w, done
  <2>6. OnTime(w)
    BY <1>2, <1>6, <2>3, <2>4, <2>5 DEF OnTime
  <2>7. QED
    BY <1>2, <2>6 DEF GoodLocals, w
<1>8. CASE l.pc = "sleeping"
  <2>1. l.timer < l.delay
    BY <1>8 DEF Limit
  <2>2. l.attempt - 1 \in Nat
    BY <1>1, <1>3, <1>8 DEF OnTime
  <2>3. Spent(l.attempt - 1) \in Nat /\ AttemptLimit \in Nat
    BY <2>2, SpentGrows, AttemptType
  <2> HIDE DEF w
  <2>4. OnTime(w)
    BY <1>1, <1>2, <1>3, <1>8, <2>1, <2>3 DEF OnTime
  <2>5. QED
    BY <1>2, <2>4 DEF GoodLocals, w
<1>9. QED
  BY <1>1, <1>5, <1>6, <1>8 DEF Locals

\* Every step of every thread, and every tick, keeps the calls on time and their
\* outcomes consistent.
LEMMA CallInvariantStep == CallInvariant /\ [TransportNext]_transportVars => CallInvariant'
<1> SUFFICES ASSUME CallInvariant, [TransportNext]_transportVars PROVE CallInvariant'
  OBVIOUS
<1>1. ASSUME NEW t \in Threads, Begin(t) PROVE CallInvariant'
  <2>1. call[t] = NoCall
    BY <1>1 DEF Begin, CallInvariant, GoodLocals, OnTime
  <2> DEFINE l == [NoCall EXCEPT !.pc = "encoding"]
  <2>2. l \in GoodLocals
    <3>1. NoCall \in Locals
      BY IdleIsGood DEF GoodLocals
    <3>2. l \in Locals
      BY <3>1 DEF Locals
    <3>3. OnTime(l)
      BY DEF OnTime, NoCall
    <3>4. QED
      BY <3>2, <3>3 DEF GoodLocals
  <2>3. call' = [call EXCEPT ![t] = l] /\ l.pc = "encoding"
    BY <1>1, <2>1 DEF Begin, CallInvariant, NoCall
  <2> HIDE DEF l
  <2>4. call' \in [Threads -> GoodLocals]
    BY <2>2, <2>3 DEF CallInvariant
  <2>5. outcome' \in [Threads -> GoodOutcomes]
    BY <1>1, IdleIsGood DEF Begin, CallInvariant
  <2>6. InFlight' = InFlight \union {t}
    BY <2>3 DEF CallInvariant, InFlight
  <2>7. probes' \subseteq InFlight'
    BY <1>1, <2>6 DEF Begin, CallInvariant
  <2>8. QED
    BY <2>4, <2>5, <2>7 DEF CallInvariant
<1>2. ASSUME NEW t \in Threads, ShortCircuit(t) PROVE CallInvariant'
  <2> DEFINE o == Outcome(0, NoBody, "open", 0, "none")
  <2>1. o \in OutcomeTypes /\ Consistent(o)
    BY MaxRetriesAssumption DEF Outcome, OutcomeTypes, NoBody, Consistent
  <2>2. outcome' \in [Threads -> GoodOutcomes]
    BY <1>2, <2>1 DEF ShortCircuit, CallInvariant, GoodOutcomes
  <2>3. QED
    BY <1>2, <2>2 DEF ShortCircuit, CallInvariant, InFlight
<1>3. ASSUME NEW t \in Threads, GoesOn(t) PROVE CallInvariant'
  <2>1. PICK l \in Locals : /\ call[t].pc # "idle" /\ l.pc # "idle"
                            /\ OnTime([l EXCEPT !.timer = 0])
                            /\ Continue(t, l)
    BY <1>3 DEF GoesOn
  <2> DEFINE w == [l EXCEPT !.timer = 0]
  <2>2. w \in GoodLocals /\ w.pc # "idle"
    BY <2>1 DEF GoodLocals, Locals
  <2>3. call' = [call EXCEPT ![t] = w] /\ UNCHANGED <<probes, outcome>>
    BY <2>1 DEF Continue
  <2> HIDE DEF w
  <2>4. call' \in [Threads -> GoodLocals]
    BY <2>2, <2>3 DEF CallInvariant
  <2>5. InFlight' = InFlight
    BY <2>1, <2>2, <2>3 DEF CallInvariant, InFlight
  <2>6. QED
    BY <2>3, <2>4, <2>5 DEF CallInvariant
<1>4. ASSUME NEW t \in Threads, Returns(t) PROVE CallInvariant'
  <2>1. PICK o \in GoodOutcomes : call[t].pc # "idle" /\ Return(t, o)
    BY <1>4 DEF Returns
  <2>2. call' = [call EXCEPT ![t] = NoCall] /\ probes' = probes \ {t}
    BY <2>1 DEF Return
  <2>3. call' \in [Threads -> GoodLocals] /\ outcome' \in [Threads -> GoodOutcomes]
    BY <2>1, <2>2, IdleIsGood DEF Return, CallInvariant
  <2>4. InFlight' = InFlight \ {t}
    BY <2>2 DEF CallInvariant, InFlight, NoCall
  <2>5. QED
    BY <2>2, <2>3, <2>4 DEF CallInvariant
<1>5. CASE TransportTick
  <2>1. call' \in [Threads -> GoodLocals]
    <3> SUFFICES ASSUME NEW t \in Threads PROVE call'[t] \in GoodLocals
      BY <1>5 DEF TransportTick
    <3>1. CASE t \in InFlight
      BY <1>5, <3>1, TickIsGood DEF TransportTick, Older
    <3>2. CASE t \notin InFlight
      BY <1>5, <3>2 DEF TransportTick, CallInvariant
    <3>3. QED
      BY <3>1, <3>2
  <2>2. \A t \in Threads : call'[t].pc = call[t].pc
    BY <1>5 DEF TransportTick, CallInvariant, GoodLocals, Locals
  <2>3. InFlight' = InFlight
    BY <2>2 DEF InFlight
  <2>4. QED
    BY <1>5, <2>1, <2>3 DEF TransportTick, CallInvariant
<1>6. CASE UNCHANGED transportVars
  BY <1>6 DEF transportVars, CallInvariant, InFlight
<1>7. QED
  BY <1>1, <1>2, <1>3, <1>4, <1>5, <1>6, ThreadStepCases DEF TransportNext

\* Every thread is in time and holds an outcome that its last attempt explains.
LEMMA CallsCorrect == TransportSpec => []CallInvariant
  BY CallInvariantInit, CallInvariantStep, PTL DEF TransportSpec

\* SPEC.md:392, "the total time spent must stay bounded": whatever the service does,
\* a call takes at most the timeout for each operation of each attempt and the longest
\* delay before each retry.  It is bounded as long as the network bounds the number
\* of operations of an attempt; for every such number, this is the bound.
THEOREM CallsInBudget == TransportSpec => []CallsEndInBudget
<1>1. CallInvariant => CallsEndInBudget
  BY GoodIsInBudget DEF CallInvariant, CallsEndInBudget
<1>2. QED
  BY <1>1, CallsCorrect, PTL

\* SPEC.md:400: what the breaker is told of a call agrees with what
\* resolve_decision() makes of its outcome, by a list of its own, except that an
\* answer whose body cannot be decoded is degraded and does not count.
THEOREM CountsWhatDegrades == TransportSpec => []CountedIffDegraded
<1>1. CallInvariant => CountedIffDegraded
  BY DEF CallInvariant, GoodOutcomes, Consistent, CountedIffDegraded
<1>2. QED
  BY <1>1, CallsCorrect, PTL

\* An outcome without an error carries the body of its last attempt, or none.
THEOREM VerdictsAreFresh == TransportSpec => []VerdictFromLastAttempt
<1>1. CallInvariant => VerdictFromLastAttempt
  BY DEF CallInvariant, GoodOutcomes, Consistent, VerdictFromLastAttempt
<1>2. QED
  BY <1>1, CallsCorrect, PTL

\* http.py:133: a call that failed reports no status, or one that says as much; it is
\* never taken for an answer that blames the client, whatever the attempts before the
\* last one brought.  SpecIsFollowed of DecisionProofs rests on it.
THEOREM ErrorsBlameTheService ==
  TransportSpec => [](\A t \in Threads :
    outcome[t].error # "" => outcome[t].status \in {0, 429} \/ outcome[t].status >= 500)
<1>1. CallInvariant => \A t \in Threads :
        outcome[t].error # "" => outcome[t].status \in {0, 429} \/ outcome[t].status >= 500
  BY DEF CallInvariant, GoodOutcomes, Consistent
<1>2. QED
  BY <1>1, CallsCorrect, PTL

-------------------------------------------------------------------------------
(***************************************************************************)
(* send() as one of the callers of BreakerCallers.                          *)
(***************************************************************************)
\* A step of a call is a step of a caller, or none that the breaker sees.
LEMMA TransportStepIsCallerStep ==
  CallInvariant /\ CallInvariant' /\ [TransportNext]_transportVars
     => [Usage!Next]_(Usage!vars)
<1> SUFFICES ASSUME CallInvariant, CallInvariant', [TransportNext]_transportVars
             PROVE  Usage!Next \/ UNCHANGED Usage!vars
  OBVIOUS
<1> DEFINE Goal == Usage!Next \/ UNCHANGED Usage!vars
           Age(c) == [t \in Threads |-> c[t].age]
<1>1. ASSUME NEW t \in Threads, Begin(t) PROVE Goal
  <2>1. t \notin InFlight /\ InFlight' = InFlight \union {t}
    BY <1>1 DEF Begin, CallInvariant, GoodLocals, Locals, InFlight
  <2>2. Age(call)' = Age(call)
    BY <1>1 DEF Begin, CallInvariant, GoodLocals, Locals
  <2>3. Usage!AllowRequest
    BY <1>1 DEF Begin, AllowRequest, AllowClosed, AllowProbe, State, breakerVars,
       Usage!AllowRequest, Usage!AllowClosed, Usage!AllowProbe, Usage!State, Usage!breakerVars
  <2>4. Usage!Admit(t)
    BY <1>1, <2>1, <2>2, <2>3 DEF Begin, State, Usage!State, Usage!Admit
  <2>5. QED
    BY <2>4 DEF Usage!Next
<1>2. ASSUME NEW t \in Threads, ShortCircuit(t) PROVE Goal
  BY <1>2 DEF ShortCircuit, RefuseRequest, breakerVars, InFlight, Usage!vars
<1>3. ASSUME NEW t \in Threads, GoesOn(t) PROVE Goal
  <2>1. PICK l \in Locals : /\ call[t].pc # "idle" /\ l.pc # "idle" /\ l.age = call[t].age
                            /\ Continue(t, l)
    BY <1>3 DEF GoesOn
  <2>2. InFlight' = InFlight
    BY <2>1 DEF Continue, CallInvariant, GoodLocals, Locals, InFlight
  <2>3. Age(call)' = Age(call)
    BY <2>1 DEF Continue, CallInvariant, GoodLocals, Locals
  <2>4. QED
    BY <2>1, <2>2, <2>3 DEF Continue, breakerVars, Usage!vars
<1>4. ASSUME NEW t \in Threads, Returns(t) PROVE Goal
  <2>1. PICK o \in GoodOutcomes : call[t].pc # "idle" /\ Return(t, o)
    BY <1>4 DEF Returns
  <2>2. t \in InFlight /\ InFlight' = InFlight \ {t}
    BY <2>1 DEF Return, CallInvariant, InFlight, NoCall
  <2>3. Age(call)' = [Age(call) EXCEPT ![t] = 0]
    BY <2>1 DEF Return, CallInvariant, NoCall
  <2>4. Usage!Leave(t)
    BY <2>1, <2>2, <2>3 DEF Return, Usage!Leave
  <2>5. Usage!Succeed(t) \/ Usage!Fail(t) \/ Usage!Abandon(t)
    BY <1>4, <2>4 DEF Returns, RecordSuccess, RecordFailure, Saturate, breakerVars,
       Usage!Succeed, Usage!Fail, Usage!Abandon, Usage!RecordSuccess, Usage!RecordFailure,
       Usage!Saturate, Usage!breakerVars
  <2>6. QED
    BY <2>5 DEF Usage!Next
<1>5. CASE TransportTick
  <2>1. \A t \in Threads :
          /\ call'[t].pc = call[t].pc
          /\ call'[t].age = IF t \in InFlight THEN call[t].age + 1 ELSE call[t].age
    <3> SUFFICES ASSUME NEW t \in Threads
                 PROVE  /\ call'[t].pc = call[t].pc
                        /\ call'[t].age = IF t \in InFlight THEN call[t].age + 1
                                          ELSE call[t].age
      OBVIOUS
    <3>1. call[t] \in Locals
      BY DEF CallInvariant, GoodLocals
    <3>2. call'[t] = IF t \in InFlight THEN Older(call[t]) ELSE call[t]
      BY <1>5 DEF TransportTick, Older
    <3>3. QED
      BY <3>1, <3>2, OlderLocals
  <2>2. InFlight' = InFlight
    BY <2>1 DEF InFlight
  <2>3. Age(call)' = [t \in Threads |-> IF t \in InFlight THEN Age(call)[t] + 1 ELSE Age(call)[t]]
    BY <2>1
  <2>4. \A t \in InFlight : Age(call)[t] < CallBudget
    <3> SUFFICES ASSUME NEW t \in InFlight PROVE call[t].age < CallBudget
      BY DEF InFlight
    <3>1. t \in Threads /\ call'[t].age = call[t].age + 1 /\ call[t].age \in Nat
      BY <2>1 DEF InFlight, CallInvariant, GoodLocals, Locals
    <3>2. call'[t].age <= CallBudget
      BY <3>1, GoodIsInBudget DEF CallInvariant
    <3>3. CallBudget \in Nat
      BY LongestDelaysType, MaxRetriesAssumption, AttemptType DEF CallBudget
    <3>4. QED
      BY <3>1, <3>2, <3>3
  <2>5. Usage!ClockTick
    BY <1>5 DEF TransportTick, ClockTick, Saturate, Usage!ClockTick, Usage!Saturate
  <2>6. Usage!Tick
    BY <1>5, <2>2, <2>3, <2>4, <2>5 DEF TransportTick, Usage!Tick
  <2>7. QED
    BY <2>6 DEF Usage!Next
<1>6. CASE UNCHANGED transportVars
  BY <1>6 DEF transportVars, InFlight, Usage!vars
<1>7. QED
  BY <1>1, <1>2, <1>3, <1>4, <1>5, <1>6, ThreadStepCases DEF TransportNext

\* Whatever the service and the network do, send() uses the breaker as
\* BreakerCallers says, within the budget computed from its options.
THEOREM SendImplementsCallers == TransportSpec => ImplementsCallers
<1>1. TransportInit => Usage!Init
  BY DEF TransportInit, BreakerInit, InFlight, NoCall, Usage!Init, Usage!BreakerInit
<1>2. QED
  BY <1>1, CallInvariantInit, CallInvariantStep, TransportStepIsCallerStep, PTL
     DEF TransportSpec, ImplementsCallers, Usage!Spec

-------------------------------------------------------------------------------
(***************************************************************************)
(* What is proved of BreakerCallers, for send(): its assumptions follow     *)
(* from those of Transport, its callers are the threads.                    *)
(***************************************************************************)
B == INSTANCE BreakerProofs WITH
    Callers    <- Threads,
    MayAbandon <- TRUE,
    MayReset   <- FALSE,
    inFlight   <- InFlight,
    age        <- [t \in Threads |-> call[t].age]


\* The two instances of BreakerCallers have the same behaviours.
LEMMA SameCallers == Usage!Spec <=> B!Spec
<1>1. Usage!Init <=> B!Init
  BY DEF Usage!Init, Usage!BreakerInit, B!Init, B!BreakerInit
<1>2. Usage!State = B!State
  BY DEF Usage!State, B!State
<1>3. Usage!vars = B!vars
  BY DEF Usage!vars, B!vars
<1>4. Usage!Next <=> B!Next
  <2>1. Usage!AllowRequest <=> B!AllowRequest
    BY <1>2 DEF Usage!AllowRequest, Usage!AllowClosed, Usage!AllowProbe, Usage!breakerVars,
       B!AllowRequest, B!AllowClosed, B!AllowProbe, B!breakerVars
  <2>2. ASSUME NEW t \in Threads
        PROVE  /\ Usage!Admit(t) <=> B!Admit(t)
               /\ Usage!Succeed(t) <=> B!Succeed(t)
               /\ Usage!Fail(t) <=> B!Fail(t)
               /\ Usage!Abandon(t) <=> B!Abandon(t)
    <3>1. Usage!Admit(t) <=> B!Admit(t)
      BY <1>2, <2>1 DEF Usage!Admit, B!Admit
    <3>2. Usage!Leave(t) <=> B!Leave(t)
      BY DEF Usage!Leave, B!Leave
    <3>3. QED
      BY <3>1, <3>2
         DEF Usage!Succeed, Usage!RecordSuccess, Usage!Fail, Usage!RecordFailure,
             Usage!Saturate, Usage!Abandon, Usage!breakerVars,
             B!Succeed, B!RecordSuccess, B!Fail, B!RecordFailure,
             B!Saturate, B!Abandon, B!breakerVars
  <2>3. Usage!Reset <=> B!Reset
    BY DEF Usage!Reset, B!Reset
  <2>4. Usage!Tick <=> B!Tick
    BY DEF Usage!Tick, Usage!ClockTick, Usage!Saturate, B!Tick, B!ClockTick, B!Saturate
  <2>5. QED
    BY <2>2, <2>3, <2>4 DEF Usage!Next, B!Next
<1>5. [Usage!Next]_(Usage!vars) <=> [B!Next]_(B!vars)
  BY <1>3, <1>4 DEF Usage!vars, B!vars
<1>6. QED
  BY <1>1, <1>5, PTL DEF Usage!Spec, B!Spec

\* They have the same contract.
LEMMA SameContract == Usage!ImplementsContract <=> B!ImplementsContract
<1>1. Usage!State = B!State
  BY DEF Usage!State, B!State
<1>2. Usage!State' = B!State'
  BY DEF Usage!State, B!State
<1>3. Usage!Contract!ContractInit <=> B!Contract!ContractInit
  BY <1>1 DEF Usage!Contract!ContractInit, B!Contract!ContractInit
<1>4. [Usage!Contract!ContractNext]_(Usage!Contract!contractVars)
        <=> [B!Contract!ContractNext]_(B!Contract!contractVars)
  BY <1>1, <1>2
     DEF Usage!Contract!ContractNext, B!Contract!ContractNext,
         Usage!Contract!CallSucceeds, B!Contract!CallSucceeds,
         Usage!Contract!CallFails, B!Contract!CallFails,
         Usage!Contract!TimerFires, B!Contract!TimerFires,
         Usage!Contract!ProbeStarts, B!Contract!ProbeStarts,
         Usage!Contract!ProbeSucceeds, B!Contract!ProbeSucceeds,
         Usage!Contract!ProbeFails, B!Contract!ProbeFails,
         Usage!Contract!contractVars, B!Contract!contractVars
<1>5. QED
  BY <1>3, <1>4, PTL
     DEF Usage!ImplementsContract, Usage!Contract!ContractSpec,
         B!ImplementsContract, B!Contract!ContractSpec

\* send() is one of the callers whose properties are proved in BreakerProofs.
LEMMA SendIsCaller == TransportSpec => B!Spec
  BY SendImplementsCallers, SameCallers, PTL DEF ImplementsCallers

\* What BreakerProofs assumes of its constants.
LEMMA CallerAssumptions == CallBudget \in Nat /\ TRUE \in BOOLEAN /\ FALSE \in BOOLEAN
  BY LongestDelaysType, MaxRetriesAssumption, AttemptType DEF CallBudget

\* One thread that sends one request after the other, whatever the answers, sees
\* the state machine of SPEC.md section 10.
THEOREM SendImplementsContract ==
  ASSUME \A t, u \in Threads : t = u, FailureThreshold >= 1, ResetAfter >= 1
  PROVE  TransportSpec => ImplementsContract
<1>1. B!OneCallAtATime
  BY DEF B!OneCallAtATime
<1>2. B!Spec => B!ImplementsContract
  BY <1>1, CallerAssumptions, FailureThresholdAssumption, ResetAfterAssumption,
     B!BreakerImplementsContract, PTL
<1>3. QED
  BY <1>2, SameContract, SendIsCaller, PTL DEF ImplementsContract

\* Every step keeps the breaker, the locals of the calls, the outcomes and the
\* set of probes within their types; a thread between two calls keeps nothing.
THEOREM TransportTypeCorrect == TransportSpec => []TransportTypeOK
<1>1. B!Spec => []B!TypeOK
  BY CallerAssumptions, FailureThresholdAssumption, ResetAfterAssumption, B!TypeCorrect, PTL
<1>2. B!TypeOK /\ CallInvariant => TransportTypeOK
  <2> SUFFICES ASSUME B!TypeOK, CallInvariant PROVE TransportTypeOK
    OBVIOUS
  <2>1. BreakerTypeOK
    BY Zenon DEF B!TypeOK, B!BreakerTypeOK, BreakerTypeOK
  <2>2. ASSUME NEW t \in Threads
        PROVE  /\ call[t].pc \in {"idle", "encoding", "waiting", "reading", "sleeping"}
               /\ call[t].attempt \in 0..MaxRetries
               /\ call[t].ops \in 0..SocketOperations - 1
               /\ call[t].status \in Statuses \union {0}
               /\ call[t].lastStatus \in Statuses \union {0}
               /\ call[t].lastBody \in NoBody..MaxRetries
               /\ call[t].pc = "idle" => call[t] = NoCall
               /\ outcome[t].error \in {"pending", "", "open", "exhausted", "raised"}
    <3>1. call[t] \in Locals /\ OnTime(call[t]) /\ outcome[t] \in OutcomeTypes
      BY DEF CallInvariant, GoodLocals, GoodOutcomes
    <3>2. QED
      BY <3>1 DEF Locals, OnTime, OutcomeTypes
  <2>3. probes \subseteq InFlight
    BY DEF CallInvariant
  <2>4. QED
    BY <2>1, <2>2, <2>3 DEF TransportTypeOK
<1>3. QED
  BY <1>1, <1>2, SendIsCaller, CallsCorrect, PTL

\* breaker.py:54, "In half-open exactly one probe is admitted": true of send()
\* when its time limits and delays add up to less than the half-open delay.  The
\* defaults (2.5 s, 2 retries, delays of 5 s, 30 s half-open delay) meet this for two
\* operations per attempt and no longer for three.
THEOREM SendProbesAlone ==
  ASSUME FailureThreshold >= 1, CallBudget < ResetAfter
  PROVE  TransportSpec => [](B!SingleProbe /\ B!ProbeRunsAlone)
<1>1. B!ShortCalls
  BY DEF B!ShortCalls
<1>2. B!Spec => []B!SingleProbe
  BY <1>1, CallerAssumptions, FailureThresholdAssumption, ResetAfterAssumption,
     B!OneProbeAtATime, PTL
<1>3. B!Spec => []B!ProbeRunsAlone
  BY <1>1, CallerAssumptions, FailureThresholdAssumption, ResetAfterAssumption,
     B!ProbesRunAlone, PTL
<1>4. QED
  BY <1>2, <1>3, SendIsCaller, PTL

\* breaker.py:3-4, "one unreachable dependency costs you one timeout": however
\* the calls of send() end, probes of one outage are ResetAfter ticks apart.
THEOREM SendSpacesProbes == TransportSpec => B!ProbesSpaced
<1>1. B!Spec => B!ProbesSpaced
  BY CallerAssumptions, FailureThresholdAssumption, ResetAfterAssumption,
     B!ProbesAreSpaced, PTL
<1>2. QED
  BY <1>1, SendIsCaller, PTL
===============================================================================
