--------------------------- MODULE RetryDoer_proofs ---------------------------
(***************************************************************************)
(* Proofs about RetryDoer: for every policy, deadline, latency and header, *)
(* the loop keeps its types, retries only what may be retried, settles     *)
(* every response body, and stays within the caller's deadline and its own *)
(* budget.                                                                 *)
(***************************************************************************)
EXTENDS RetryDoer, TLAPS

IndInv == TypeOK /\ ControlInv /\ BodyInv /\ ReturnedBodyInv /\ TimeInv

(***************************************************************************)
(* The operators                                                           *)
(***************************************************************************)

\* The wait is a number and never exceeds MaxDelay, whatever the server asks for
\* and however the shift overflows (backoffDelay).
LEMMA BackoffBounded ==
    ASSUME NEW k \in Nat, NEW hint \in Nat
    PROVE  BackoffDelay(k, hint) \in Int /\ BackoffDelay(k, hint) <= MaxDelay
<1>1. 2^k \in Int
  BY SMT
<1>2. (BaseDelay * 2^k) \in Int
  BY <1>1, PolicyAssumption, SMT
<1>3. Shifted(k) \in Int
  BY <1>2, PolicyAssumption DEF Shifted
<1> QED
  BY <1>3, PolicyAssumption DEF BackoffDelay, Lower

\* A hint is a natural number: negative, past and unreadable values give 0
\* (parseRetryAfter).
LEMMA HintsNatural ==
    ASSUME NEW kind, NEW t \in Nat
    PROVE  Hints(kind, t) \subseteq Nat
<1>1. ASSUME NEW h \in Headers PROVE ParseRetryAfter(h, t) \in Nat
  <2>1. h.value \in Int
    BY <1>1, EnvironmentAssumption
  <2> QED
    BY <2>1, PolicyAssumption DEF ParseRetryAfter, Lower
<1> QED
  BY <1>1 DEF Hints

\* What began at start ends neither before now nor after its cut-off.
LEMMA MomentsBounded ==
    ASSUME NEW start \in Nat, now \in Nat, deadline \in Nat,
           now <= deadline, now <= start + AttemptTimeout,
           NEW t \in Moments(start) \cup {CutOff(start)}
    PROVE  t \in Nat /\ now <= t /\ t <= deadline /\ t <= start + AttemptTimeout
<1>1. CutOff(start) \in Nat /\ now <= CutOff(start) /\ CutOff(start) <= deadline
        /\ CutOff(start) <= start + AttemptTimeout
  BY EnvironmentAssumption DEF CutOff, Lower
<1>2. \A d \in Nat : Lower(now + d, CutOff(start)) \in Nat
                       /\ now <= Lower(now + d, CutOff(start))
                       /\ Lower(now + d, CutOff(start)) <= CutOff(start)
  BY <1>1 DEF Lower
<1>3. CASE t \in Moments(start)
  <2>1. PICK d \in Nat : t = Lower(now + d, CutOff(start))
    BY <1>3, EnvironmentAssumption DEF Moments
  <2> QED
    BY <2>1, <1>1, <1>2, EnvironmentAssumption
<1>4. CASE t = CutOff(start)
  BY <1>4, <1>1
<1> QED
  BY <1>3, <1>4

\* A wait that is woken ends after at most MaxDelay, before the context does, and
\* takes time unless the context is alive; a wait that is cut short ends when the
\* context does (RealClock.Sleep).
LEMMA SleepBounded ==
    ASSUME NEW d \in Int, now \in Nat, deadline \in Nat, now <= deadline, d <= MaxDelay,
           NEW e \in SleepEnds(d)
    PROVE  /\ e.until \in Nat /\ now <= e.until /\ e.until <= deadline
           /\ e.until <= now + MaxDelay
           /\ e.woken => now < deadline
<1>1. CASE d <= 0
  <2>1. e = [until |-> now, woken |-> now < deadline]
    BY <1>1 DEF SleepEnds
  <2>2. e.until = now
    BY <2>1
  <2>3. e.woken = (now < deadline)
    BY <2>1, Zenon
  <2>4. e.woken => now < deadline
    BY <2>3, Zenon
  <2>5. /\ e.until \in Nat /\ now <= e.until /\ e.until <= deadline
        /\ e.until <= now + MaxDelay
    BY <2>2, PolicyAssumption
  <2> QED
    BY <2>4, <2>5, Zenon
<1>2. CASE d > 0
  <2>1. \/ e = [until |-> now + d, woken |-> TRUE] /\ now + d <= deadline
        \/ e = [until |-> deadline, woken |-> FALSE] /\ now + d >= deadline
    BY <1>2 DEF SleepEnds
  <2>2. CASE e = [until |-> now + d, woken |-> TRUE] /\ now + d <= deadline
    BY <1>2, <2>2, PolicyAssumption
  <2>3. CASE e = [until |-> deadline, woken |-> FALSE] /\ now + d >= deadline
    <3>1. ~e.woken
      BY <2>3, Zenon
    <3>2. /\ e.until \in Nat /\ now <= e.until /\ e.until <= deadline
          /\ e.until <= now + MaxDelay
      BY <1>2, <2>3, PolicyAssumption
    <3> QED
      BY <3>1, <3>2, Zenon
  <2> QED
    BY <2>1, <2>2, <2>3
<1> QED
  BY <1>1, <1>2

\* One more attempt and wait add one attempt and one wait to the budget.
LEMMA BudgetStep ==
    ASSUME NEW n \in Nat
    PROVE  /\ n * (AttemptTimeout + MaxDelay) \in Nat
           /\ (n + 1) * (AttemptTimeout + MaxDelay)
                = n * (AttemptTimeout + MaxDelay) + AttemptTimeout + MaxDelay
BY PolicyAssumption, EnvironmentAssumption, SMT

(***************************************************************************)
(* The inductive invariant                                                 *)
(***************************************************************************)

LEMMA InitIndInv == Init => IndInv
<1> SUFFICES ASSUME Init PROVE IndInv
  OBVIOUS
<1>1. TypeOK
  BY EnvironmentAssumption DEF Init, TypeOK
<1>2. ControlInv /\ BodyInv /\ ReturnedBodyInv
  BY PolicyAssumption DEF Init, ControlInv, BodyInv, ReturnedBodyInv
<1>3. TimeInv
  BY EnvironmentAssumption, BudgetStep DEF Init, TimeInv
<1> QED
  BY <1>1, <1>2, <1>3 DEF IndInv

\* What one more entry of the log leaves as it was and what it adds.
LogGrows(kind, hint, t) ==
    /\ t \in Nat /\ now <= t /\ t <= deadline /\ t <= now + AttemptTimeout
    /\ log' \in Seq(Entry) /\ Len(log') = attempt + 1 /\ Len(log) = attempt
    /\ \A i \in 1..Len(log) : log'[i] = log[i]
    /\ log'[Len(log')] = [kind |-> kind, hint |-> hint, start |-> now, end |-> t]
    /\ bodies' \in Seq({"none", "open", "closed"}) /\ Len(bodies') = Len(log')
    /\ \A i \in 1..Len(bodies) : bodies'[i] = bodies[i]
    /\ bodies'[Len(bodies')] = IF HasResponse(kind) THEN "open" ELSE "none"
    /\ \A i \in 1..Len(log') :
           log'[i].start <= t /\ (log'[i].start >= deadline => i = Len(log'))
    /\ \A i \in 1..Len(bodies') : bodies'[i] = "open" => i = Len(bodies')

LEMMA AttemptFacts ==
    ASSUME IndInv, NEW kind \in Kinds, NEW t \in Moments(now), NEW hint \in Hints(kind, t),
           Attempt(kind, hint, t)
    PROVE  LogGrows(kind, hint, t)
<1> USE DEF IndInv
<1>1. now \in Nat /\ deadline \in Nat /\ now <= deadline /\ now <= now + AttemptTimeout
  BY EnvironmentAssumption DEF TypeOK, TimeInv
<1>2. t \in Nat /\ now <= t /\ t <= deadline /\ t <= now + AttemptTimeout
  BY <1>1, MomentsBounded
<1>3. [kind |-> kind, hint |-> hint, start |-> now, end |-> t] \in Entry
  BY <1>1, <1>2, HintsNatural DEF Entry
<1>4. Len(log) = attempt
  BY DEF Attempt, ControlInv
<1>5. /\ log' \in Seq(Entry) /\ Len(log') = attempt + 1
      /\ \A i \in 1..Len(log) : log'[i] = log[i]
      /\ log'[Len(log')] = [kind |-> kind, hint |-> hint, start |-> now, end |-> t]
  BY <1>3, <1>4 DEF Attempt, TypeOK
<1>6. /\ bodies' \in Seq({"none", "open", "closed"}) /\ Len(bodies') = Len(log')
      /\ \A i \in 1..Len(bodies) : bodies'[i] = bodies[i]
      /\ bodies'[Len(bodies')] = IF HasResponse(kind) THEN "open" ELSE "none"
  BY DEF Attempt, TypeOK
<1>7. ASSUME NEW i \in 1..Len(log')
      PROVE  log'[i].start <= t /\ (log'[i].start >= deadline => i = Len(log'))
  <2>1. CASE i \in 1..Len(log)
    <3>1. log'[i] = log[i]
      BY <2>1, <1>5
    <3>2. log[i] \in Entry
      BY <2>1 DEF TypeOK
    <3>3. log[i].start \in Nat
      BY <3>2 DEF Entry
    <3>4. log[i].start <= now /\ ~(log[i].start >= deadline)
      BY <2>1 DEF TimeInv, Attempt
    <3> QED
      BY <3>1, <3>3, <3>4, <1>1, <1>2
  <2>2. CASE i = Len(log')
    BY <2>2, <1>1, <1>2, <1>5
  <2> QED
    BY <2>1, <2>2, <1>4, <1>5 DEF TypeOK
<1>8. ASSUME NEW i \in 1..Len(bodies'), bodies'[i] = "open"
      PROVE  i = Len(bodies')
  <2>1. pc = "attempt" /\ result = "none"
    BY DEF Attempt, ControlInv
  <2>2. CASE i \in 1..Len(bodies)
    BY <1>6, <1>8, <2>1, <2>2 DEF BodyInv
  <2> QED
    BY <1>4, <1>5, <1>6, <2>2 DEF TypeOK
<1> QED
  BY <1>2, <1>4, <1>5, <1>6, <1>7, <1>8 DEF LogGrows

LEMMA AttemptReturnsIndInv == IndInv /\ AttemptReturns => IndInv'
<1> SUFFICES ASSUME IndInv,
                    NEW kind \in Kinds, NEW t \in Moments(now), NEW hint \in Hints(kind, t),
                    Attempt(kind, hint, t),
                    ~Retryable(kind) \/ OutOfRetries(attempt),
                    Return(IF HasResponse(kind) THEN "response" ELSE "error")
             PROVE  IndInv'
  BY DEF AttemptReturns
<1> USE DEF IndInv
<1>1. UNCHANGED <<rebuildable, deadline, attempt>> /\ now' = t /\ pc = "attempt"
      /\ LogGrows(kind, hint, t)
  BY AttemptFacts DEF Attempt
<1>2. TypeOK'
  BY <1>1 DEF LogGrows, TypeOK, Return
<1>3. ControlInv'
  <2>1. attempt <= MaxRetries /\ attempt \in Nat /\ MaxRetries \in Nat
    BY PolicyAssumption DEF ControlInv, TypeOK
  <2>2. \A i \in 1..Len(log') : i < Len(log') => Retryable(log'[i].kind)
    BY <1>1, <2>1 DEF LogGrows, ControlInv, TypeOK
  <2>3. Last'.kind = kind
    BY <1>1 DEF LogGrows, Last
  <2>4. ~Retryable(Last'.kind) \/ attempt' = MaxRetries
    BY <1>1, <2>1, <2>3 DEF OutOfRetries
  <2> QED
    BY <1>1, <2>1, <2>2, <2>4 DEF LogGrows, ControlInv, Return, Retryable
<1>4. BodyInv' /\ ReturnedBodyInv'
  <2>1. HasResponse(kind) <=> result' = "response"
    BY DEF Return
  <2> QED
    BY <1>1, <2>1 DEF LogGrows, BodyInv, ReturnedBodyInv
<1>5. TimeInv'
  <2>1. \A i \in 1..Len(log') :
           log'[i].start <= now' /\ (log'[i].start >= deadline' => i = Len(log') /\ pc' # "attempt")
    BY <1>1 DEF LogGrows, Return
  <2>2. now' <= attempt' * (AttemptTimeout + MaxDelay) + AttemptTimeout + MaxDelay
    BY <1>1, BudgetStep, PolicyAssumption, EnvironmentAssumption DEF LogGrows, TimeInv, TypeOK
  <2> QED
    BY <1>1, <2>1, <2>2 DEF LogGrows, TimeInv, Return
<1> QED
  BY <1>2, <1>3, <1>4, <1>5

LEMMA AttemptRetriedIndInv == IndInv /\ AttemptRetried => IndInv'
<1> SUFFICES ASSUME IndInv,
                    NEW kind \in Kinds, NEW t \in Moments(now), NEW hint \in Hints(kind, t),
                    Attempt(kind, hint, t),
                    Retryable(kind), ~OutOfRetries(attempt),
                    pc' = (IF HasResponse(kind) THEN "drain" ELSE "sleep"),
                    UNCHANGED result
             PROVE  IndInv'
  BY DEF AttemptRetried
<1> USE DEF IndInv
<1>1. UNCHANGED <<rebuildable, deadline, attempt>> /\ now' = t /\ pc = "attempt"
      /\ LogGrows(kind, hint, t)
  BY AttemptFacts DEF Attempt
<1>2. TypeOK'
  BY <1>1 DEF LogGrows, TypeOK
<1>3. attempt \in Nat /\ attempt < MaxRetries /\ result = "none"
  BY <1>1, PolicyAssumption DEF ControlInv, TypeOK, OutOfRetries
<1>4. Last'.kind = kind /\ Last'.start = now
  BY <1>1 DEF LogGrows, Last
<1>5. ControlInv'
  <2>1. \A i \in 1..Len(log') : Retryable(log'[i].kind)
    BY <1>1, <1>3, <1>4 DEF LogGrows, ControlInv, TypeOK
  <2> QED
    BY <1>1, <1>3, <2>1, PolicyAssumption DEF LogGrows, ControlInv
<1>6. BodyInv' /\ ReturnedBodyInv'
  BY <1>1, <1>3 DEF LogGrows, BodyInv, ReturnedBodyInv
<1>7. TimeInv'
  <2>1. \A i \in 1..Len(log') :
           log'[i].start <= now' /\ (log'[i].start >= deadline' => i = Len(log') /\ pc' # "attempt")
    BY <1>1 DEF LogGrows
  <2>2. now <= attempt * (AttemptTimeout + MaxDelay)
    BY <1>1 DEF TimeInv
  <2>3. now' <= now + AttemptTimeout /\ now \in Nat /\ now' \in Nat
    BY <1>1 DEF LogGrows, TypeOK
  <2>4. attempt * (AttemptTimeout + MaxDelay) \in Nat
    BY <1>3, BudgetStep
  <2>5. now' <= attempt * (AttemptTimeout + MaxDelay) + AttemptTimeout
    BY <2>2, <2>3, <2>4, EnvironmentAssumption
  <2> QED
    BY <1>1, <1>4, <2>1, <2>2, <2>3, <2>5 DEF LogGrows, TimeInv
<1> QED
  BY <1>2, <1>5, <1>6, <1>7

LEMMA CloneFailsIndInv == IndInv /\ CloneFails => IndInv'
<1> SUFFICES ASSUME IndInv, CloneFails PROVE IndInv'
  OBVIOUS
<1> USE DEF IndInv, CloneFails, Return
<1>1. TypeOK'
  BY DEF TypeOK
<1>2. ControlInv'
  BY DEF ControlInv, TypeOK
<1>3. BodyInv' /\ ReturnedBodyInv'
  BY DEF BodyInv, ReturnedBodyInv, ControlInv
<1>4. TimeInv'
  BY BudgetStep, PolicyAssumption, EnvironmentAssumption DEF TimeInv, TypeOK
<1> QED
  BY <1>1, <1>2, <1>3, <1>4

\* What draining leaves, whichever way it ends.
LEMMA DrainFacts ==
    ASSUME IndInv, pc = "drain", now' \in Moments(Last.start) \cup {CutOff(Last.start)},
           bodies' = Closed(Len(log)), UNCHANGED <<rebuildable, deadline, attempt, log>>
    PROVE  /\ now' \in Nat /\ now <= now' /\ now' <= deadline
           /\ now' <= attempt * (AttemptTimeout + MaxDelay) + AttemptTimeout
           /\ bodies' \in Seq({"none", "open", "closed"}) /\ Len(bodies') = Len(bodies)
           /\ \A i \in 1..Len(bodies') : bodies'[i] # "open"
           /\ Last' = Last
<1> USE DEF IndInv
<1>1. Len(log) \in 1..Len(log) /\ Len(log) = attempt + 1 /\ attempt \in Nat
  BY DEF ControlInv, TypeOK
<1>2. log[Len(log)] \in Entry
  BY <1>1 DEF TypeOK
<1>3. Last.start \in Nat
  BY <1>2 DEF Last, Entry
<1>4. now \in Nat /\ deadline \in Nat /\ now <= deadline /\ now <= Last.start + AttemptTimeout
        /\ Last.start <= attempt * (AttemptTimeout + MaxDelay)
  BY EnvironmentAssumption DEF TypeOK, TimeInv
<1>5. now' \in Nat /\ now <= now' /\ now' <= deadline /\ now' <= Last.start + AttemptTimeout
  BY <1>3, <1>4, MomentsBounded
<1>6. now' <= attempt * (AttemptTimeout + MaxDelay) + AttemptTimeout
  <2>1. attempt * (AttemptTimeout + MaxDelay) \in Nat
    BY <1>1, BudgetStep
  <2> QED
    BY <1>3, <1>4, <1>5, <2>1, EnvironmentAssumption
<1>7. bodies' \in Seq({"none", "open", "closed"}) /\ Len(bodies') = Len(bodies)
      /\ \A i \in 1..Len(bodies) : bodies'[i] = IF i = Len(log) THEN "closed" ELSE bodies[i]
  BY <1>1 DEF Closed, TypeOK
<1>8. \A i \in 1..Len(bodies') : bodies'[i] # "open"
  BY <1>7 DEF BodyInv, TypeOK
<1> QED
  BY <1>5, <1>6, <1>7, <1>8 DEF Last

LEMMA DrainDoneIndInv == IndInv /\ DrainDone => IndInv'
<1> SUFFICES ASSUME IndInv, DrainDone PROVE IndInv'
  OBVIOUS
<1> USE DEF IndInv, DrainDone
<1>1. /\ now' \in Nat /\ now <= now' /\ now' <= deadline
      /\ now' <= attempt * (AttemptTimeout + MaxDelay) + AttemptTimeout
      /\ bodies' \in Seq({"none", "open", "closed"}) /\ Len(bodies') = Len(bodies)
      /\ \A i \in 1..Len(bodies') : bodies'[i] # "open"
      /\ Last' = Last
  BY DrainFacts
<1>2. TypeOK'
  BY <1>1 DEF TypeOK
<1>3. ControlInv'
  BY <1>1 DEF ControlInv, TypeOK
<1>4. BodyInv' /\ ReturnedBodyInv'
  BY <1>1 DEF BodyInv, ReturnedBodyInv, ControlInv
<1>5. TimeInv'
  <2>1. \A i \in 1..Len(log') :
           log'[i].start <= now' /\ (log'[i].start >= deadline' => i = Len(log') /\ pc' # "attempt")
    <3> TAKE i \in 1..Len(log')
    <3>1. log[i] \in Entry
      BY DEF TypeOK
    <3>2. log[i].start \in Nat
      BY <3>1 DEF Entry
    <3> QED
      BY <1>1, <3>2 DEF TimeInv, TypeOK
  <2> QED
    BY <1>1, <2>1 DEF TimeInv
<1> QED
  BY <1>2, <1>3, <1>4, <1>5

LEMMA DrainAbortsIndInv == IndInv /\ DrainAborts => IndInv'
<1> SUFFICES ASSUME IndInv, DrainAborts PROVE IndInv'
  OBVIOUS
<1> USE DEF IndInv, DrainAborts, Return
<1>1. /\ now' \in Nat /\ now <= now' /\ now' <= deadline
      /\ now' <= attempt * (AttemptTimeout + MaxDelay) + AttemptTimeout
      /\ bodies' \in Seq({"none", "open", "closed"}) /\ Len(bodies') = Len(bodies)
      /\ \A i \in 1..Len(bodies') : bodies'[i] # "open"
      /\ Last' = Last
  BY DrainFacts
<1>2. pc = "drain" /\ pc' = "returned" /\ result' \in {"drainCutOff", "closeError"}
  OBVIOUS
<1>3. TypeOK'
  BY <1>1, <1>2 DEF TypeOK
<1>4. ControlInv'
  BY <1>1, <1>2 DEF ControlInv, TypeOK
<1>5. BodyInv' /\ ReturnedBodyInv'
  BY <1>1, <1>2 DEF BodyInv, ReturnedBodyInv
<1>6. TimeInv'
  <2>1. \A i \in 1..Len(log') :
           log'[i].start <= now' /\ (log'[i].start >= deadline' => i = Len(log') /\ pc' # "attempt")
    <3> TAKE i \in 1..Len(log')
    <3>1. log[i] \in Entry
      BY DEF TypeOK
    <3>2. log[i].start \in Nat
      BY <3>1 DEF Entry
    <3> QED
      BY <1>1, <1>2, <3>2 DEF TimeInv, TypeOK
  <2>2. attempt * (AttemptTimeout + MaxDelay) \in Nat
    BY BudgetStep DEF TypeOK
  <2>3. now' <= attempt * (AttemptTimeout + MaxDelay) + AttemptTimeout + MaxDelay
    BY <1>1, <2>2, PolicyAssumption, EnvironmentAssumption
  <2> QED
    BY <1>1, <1>2, <2>1, <2>3 DEF TimeInv
<1> QED
  BY <1>3, <1>4, <1>5, <1>6

\* What a wait leaves, whichever way it ends.
LEMMA SleepFacts ==
    ASSUME IndInv, pc = "sleep", NEW e \in SleepEnds(BackoffDelay(attempt, Last.hint)),
           now' = e.until
    PROVE  /\ now' \in Nat /\ now <= now' /\ now' <= deadline
           /\ now' <= attempt * (AttemptTimeout + MaxDelay) + AttemptTimeout + MaxDelay
           /\ e.woken => now < deadline
<1> USE DEF IndInv
<1>1. Len(log) \in 1..Len(log) /\ attempt \in Nat
  BY DEF ControlInv, TypeOK
<1>2. log[Len(log)] \in Entry
  BY <1>1 DEF TypeOK
<1>3. Last.hint \in Nat
  BY <1>2 DEF Last, Entry
<1>4. now \in Nat /\ deadline \in Nat /\ now <= deadline
        /\ now <= attempt * (AttemptTimeout + MaxDelay) + AttemptTimeout
  BY EnvironmentAssumption DEF TypeOK, TimeInv
<1>5. BackoffDelay(attempt, Last.hint) \in Int /\ BackoffDelay(attempt, Last.hint) <= MaxDelay
  BY <1>1, <1>3, BackoffBounded
<1>6. /\ e.until \in Nat /\ now <= e.until /\ e.until <= deadline
      /\ e.until <= now + MaxDelay
      /\ e.woken => now < deadline
  BY <1>4, <1>5, SleepBounded, Zenon
<1>7. attempt * (AttemptTimeout + MaxDelay) \in Nat
  BY <1>1, BudgetStep
<1>8. now' \in Nat /\ now <= now' /\ now' <= deadline
      /\ now' <= attempt * (AttemptTimeout + MaxDelay) + AttemptTimeout + MaxDelay
  BY <1>4, <1>6, <1>7, PolicyAssumption, EnvironmentAssumption
<1> QED
  BY <1>6, <1>8, Zenon

LEMMA SleepDoneIndInv == IndInv /\ SleepDone => IndInv'
<1> SUFFICES ASSUME IndInv, SleepDone,
                    NEW e \in SleepEnds(BackoffDelay(attempt, Last.hint)),
                    e.woken, now' = e.until
             PROVE  IndInv'
  BY DEF SleepDone
<1> USE DEF IndInv
<1>1. /\ pc = "sleep" /\ pc' = "attempt" /\ attempt' = attempt + 1
      /\ UNCHANGED <<rebuildable, deadline, log, bodies, result>>
  BY DEF SleepDone
<1>2. /\ now' \in Nat /\ now <= now' /\ now' <= deadline /\ now < deadline
      /\ now' <= attempt * (AttemptTimeout + MaxDelay) + AttemptTimeout + MaxDelay
  BY <1>1, SleepFacts, Zenon
<1>3. TypeOK'
  BY <1>1, <1>2 DEF TypeOK
<1>4. ControlInv'
  BY <1>1, PolicyAssumption DEF ControlInv, TypeOK
<1>5. BodyInv' /\ ReturnedBodyInv'
  BY <1>1 DEF BodyInv, ReturnedBodyInv, ControlInv
<1>6. TimeInv'
  <2>1. \A i \in 1..Len(log') :
           log'[i].start <= now' /\ (log'[i].start >= deadline' => i = Len(log') /\ pc' # "attempt")
    <3> TAKE i \in 1..Len(log')
    <3>1. log[i] \in Entry /\ log' = log /\ deadline' = deadline
      BY <1>1 DEF TypeOK
    <3>2. log[i].start \in Nat /\ deadline \in Nat /\ now \in Nat
      BY <3>1, EnvironmentAssumption DEF Entry, TypeOK
    <3>3. log[i].start <= now
      BY <1>1 DEF TimeInv
    <3> QED
      BY <1>2, <3>1, <3>2, <3>3
  <2>2. attempt' * (AttemptTimeout + MaxDelay)
          = attempt * (AttemptTimeout + MaxDelay) + AttemptTimeout + MaxDelay
    BY <1>1, BudgetStep DEF TypeOK
  <2> QED
    BY <1>1, <1>2, <2>1, <2>2 DEF TimeInv
<1> QED
  BY <1>3, <1>4, <1>5, <1>6

LEMMA SleepCutShortIndInv == IndInv /\ SleepCutShort => IndInv'
<1> SUFFICES ASSUME IndInv, SleepCutShort,
                    NEW e \in SleepEnds(BackoffDelay(attempt, Last.hint)),
                    now' = e.until
             PROVE  IndInv'
  BY DEF SleepCutShort
<1> USE DEF IndInv
<1>1. /\ pc = "sleep" /\ pc' = "returned" /\ result' = "contextError"
      /\ UNCHANGED <<rebuildable, deadline, attempt, log, bodies>>
  BY DEF SleepCutShort, Return
<1>2. /\ now' \in Nat /\ now <= now' /\ now' <= deadline
      /\ now' <= attempt * (AttemptTimeout + MaxDelay) + AttemptTimeout + MaxDelay
  BY <1>1, SleepFacts, Zenon
<1>3. TypeOK'
  BY <1>1, <1>2 DEF TypeOK
<1>4. ControlInv'
  BY <1>1 DEF ControlInv, TypeOK
<1>5. BodyInv' /\ ReturnedBodyInv'
  BY <1>1 DEF BodyInv, ReturnedBodyInv, ControlInv
<1>6. TimeInv'
  <2>1. \A i \in 1..Len(log') :
           log'[i].start <= now' /\ (log'[i].start >= deadline' => i = Len(log') /\ pc' # "attempt")
    <3> TAKE i \in 1..Len(log')
    <3>1. log[i] \in Entry /\ log' = log /\ deadline' = deadline
      BY <1>1 DEF TypeOK
    <3>2. log[i].start \in Nat /\ now \in Nat
      BY <3>1 DEF Entry, TypeOK
    <3> QED
      BY <1>1, <1>2, <3>1, <3>2 DEF TimeInv
  <2> QED
    BY <1>1, <1>2, <2>1 DEF TimeInv
<1> QED
  BY <1>3, <1>4, <1>5, <1>6

LEMMA NextIndInv == IndInv /\ [Next]_vars => IndInv'
<1> SUFFICES ASSUME IndInv, [Next]_vars PROVE IndInv'
  OBVIOUS
<1>1. CASE UNCHANGED vars
  BY <1>1 DEF vars, IndInv, TypeOK, ControlInv, BodyInv, ReturnedBodyInv, TimeInv, Last
<1> QED
  BY <1>1, CloneFailsIndInv, AttemptReturnsIndInv, AttemptRetriedIndInv, DrainDoneIndInv,
     DrainAbortsIndInv, SleepDoneIndInv, SleepCutShortIndInv
     DEF Next, Returned

\* The inductive invariant holds in every reachable state.
THEOREM Invariance == Spec => []IndInv
BY InitIndInv, NextIndInv, PTL DEF Spec

(***************************************************************************)
(* What it gives                                                           *)
(***************************************************************************)

\* Every variable keeps its type for any policy and any server.
THEOREM TypeCorrect == Spec => []TypeOK
<1>1. IndInv => TypeOK
  BY DEF IndInv
<1> QED
  BY <1>1, Invariance, PTL

\* Do never retries a success, a rejection or a permanent error, makes at most
\* MaxRetries + 1 attempts, and gives a retryable outcome to its caller only after
\* the last of them.
THEOREM RetriesAreJustified == Spec => []RetriesJustified
<1>1. IndInv => RetriesJustified
  <2> SUFFICES ASSUME IndInv PROVE RetriesJustified
    OBVIOUS
  <2>1. attempt \in Nat /\ Len(log) \in Nat /\ MaxRetries \in Nat /\ attempt <= MaxRetries
          /\ Len(log) <= attempt + 1
    BY PolicyAssumption DEF IndInv, TypeOK, ControlInv
  <2>2. \A i \in 1..Len(log) - 1 : log[i].kind \in {"throttled", "unavailable", "transport"}
    BY <2>1 DEF IndInv, ControlInv, Retryable
  <2>3. ASSUME result \in {"response", "error"}
        PROVE  Last.kind \in {"ok", "rejected", "permanent"} \/ Len(log) = MaxRetries + 1
    <3>1. Len(log) = attempt + 1 /\ (~Retryable(Last.kind) \/ attempt = MaxRetries)
      BY <2>3 DEF IndInv, ControlInv
    <3>2. log[Len(log)] \in Entry
      BY <2>1, <3>1 DEF IndInv, TypeOK
    <3>3. Last.kind \in Kinds
      BY <3>2 DEF Last, Entry
    <3> QED
      BY <3>1, <3>3 DEF Retryable, Kinds
  <2> QED
    BY <2>1, <2>2, <2>3 DEF RetriesJustified
<1> QED
  BY <1>1, Invariance, PTL

\* No response body is left open and the one returned is unread.
THEOREM BodiesAreSettled == Spec => []BodiesSettled
<1>1. IndInv => BodiesSettled
  <2> SUFFICES ASSUME IndInv PROVE BodiesSettled
    OBVIOUS
  <2>1. Len(bodies) \in Nat /\ (bodies # <<>> => Len(bodies) \in 1..Len(bodies))
    BY DEF IndInv, TypeOK
  <2> QED
    BY <2>1 DEF IndInv, BodyInv, ReturnedBodyInv, BodiesSettled
<1> QED
  BY <1>1, Invariance, PTL

\* The call ends with the caller's context at the latest, and at most one attempt
\* starts under a context that has ended.
THEOREM DeadlineIsHonoured == Spec => []DeadlineHonoured
<1>1. IndInv => DeadlineHonoured
  BY DEF IndInv, TimeInv, DeadlineHonoured
<1> QED
  BY <1>1, Invariance, PTL

\* The call ends within MaxRetries + 1 attempts and MaxRetries waits, whatever the
\* server asks for.
THEOREM BudgetIsHonoured == Spec => []BudgetHonoured
<1>1. IndInv => BudgetHonoured
  <2> SUFFICES ASSUME IndInv PROVE BudgetHonoured
    OBVIOUS
  <2>1. now \in Nat /\ attempt \in Nat /\ attempt * (AttemptTimeout + MaxDelay) \in Nat
    BY BudgetStep DEF IndInv, TypeOK
  <2>2. CASE pc = "drain"
    <3>1. log[Len(log)] \in Entry
      BY <2>1, <2>2 DEF IndInv, ControlInv, TypeOK
    <3>2. Last.start \in Nat
      BY <3>1 DEF Last, Entry
    <3> QED
      BY <2>1, <2>2, <3>2, EnvironmentAssumption DEF IndInv, TimeInv, BudgetHonoured
  <2>3. CASE pc # "drain"
    BY <2>1, <2>3, PolicyAssumption, EnvironmentAssumption
       DEF IndInv, TimeInv, TypeOK, BudgetHonoured
  <2> QED
    BY <2>2, <2>3
<1> QED
  BY <1>1, Invariance, PTL

(***************************************************************************)
(* Pacing                                                                  *)
(***************************************************************************)

\* A delay that wrapped around is not positive, or no shorter than what was meant.
OverflowHarmless ==
    \A k \in 0..MaxRetries - 1 : Shifted(k) <= 0 \/ Shifted(k) >= Lower(BaseDelay * 2^k, MaxDelay)

\* The wait that is due after the i-th attempt.
Due(i) == Lower(IF log[i].hint > 0 THEN log[i].hint ELSE BaseDelay * 2^(i - 1), MaxDelay)

\* The waits that were due are over, and while one is due its attempt has ended.
PacingInv ==
    /\ \A i \in 1..Len(log) - 1 : log[i + 1].start - log[i].end >= Due(i)
    /\ pc = "attempt" /\ attempt > 0 => now - log[attempt].end >= Due(attempt)
    /\ pc \in {"drain", "sleep"} => Last.end <= now

\* A policy whose delays do not wrap around at all needs no more.
LEMMA NoOverflowHarmless ==
    ASSUME \A k \in 0..MaxRetries - 1 : BaseDelay * 2^k \in Nat /\ BaseDelay * 2^k < DurationRange \div 2
    PROVE  OverflowHarmless
<1> SUFFICES ASSUME NEW k \in 0..MaxRetries - 1
             PROVE  Shifted(k) >= Lower(BaseDelay * 2^k, MaxDelay)
  BY DEF OverflowHarmless
<1> DEFINE delay == BaseDelay * 2^k
<1>1. delay \in Nat /\ delay < DurationRange \div 2
  OBVIOUS
<1>2. Shifted(k) = IF delay % DurationRange >= DurationRange \div 2
                   THEN (delay % DurationRange) - DurationRange ELSE delay % DurationRange
  BY DEF Shifted
<1> HIDE DEF delay
<1>3. DurationRange \div 2 <= DurationRange
  BY PolicyAssumption
<1>4. delay % DurationRange = delay
  BY <1>1, <1>3, PolicyAssumption
<1>5. Shifted(k) = delay
  BY <1>1, <1>2, <1>4, PolicyAssumption
<1> QED
  BY <1>1, <1>5, PolicyAssumption DEF Lower, delay

\* The wait is no shorter than the hint, or than the doubled delay, up to MaxDelay.
LEMMA BackoffLongEnough ==
    ASSUME OverflowHarmless, NEW k \in 0..MaxRetries - 1, NEW hint \in Nat
    PROVE  BackoffDelay(k, hint) >= Lower(IF hint > 0 THEN hint ELSE BaseDelay * 2^k, MaxDelay)
<1> DEFINE delay == BaseDelay * 2^k
<1>1. 2^k \in Int
  BY SMT
<1>2. delay \in Int
  BY <1>1, PolicyAssumption, SMT
<1>3. Shifted(k) \in Int
  BY <1>2, PolicyAssumption DEF Shifted
<1>4. Shifted(k) <= 0 \/ Shifted(k) >= Lower(delay, MaxDelay)
  BY DEF OverflowHarmless
<1> HIDE DEF delay
<1>5. BackoffDelay(k, hint) >= Lower(IF hint > 0 THEN hint ELSE delay, MaxDelay)
  BY <1>2, <1>3, <1>4, PolicyAssumption DEF BackoffDelay, Lower
<1> QED
  BY <1>5 DEF delay

\* A wait that is woken took as long as it was to.
LEMMA SleepLongEnough ==
    ASSUME now \in Nat, NEW d \in Int, NEW e \in SleepEnds(d), e.woken
    PROVE  e.until >= now + d
<1>1. CASE d <= 0
  <2>1. e = [until |-> now, woken |-> now < deadline]
    BY <1>1 DEF SleepEnds
  <2>2. e.until = now
    BY <2>1
  <2> QED
    BY <1>1, <2>2
<1>2. CASE d > 0
  <2>1. e \in {[until |-> now + d, woken |-> TRUE], [until |-> deadline, woken |-> FALSE]}
    BY <1>2 DEF SleepEnds
  <2>2. ASSUME e = [until |-> deadline, woken |-> FALSE] PROVE FALSE
    <3>1. ~e.woken
      BY <2>2, Zenon
    <3> QED
      BY <3>1
  <2>3. e.until = now + d
    BY <2>1, <2>2
  <2> QED
    BY <2>3
<1> QED
  BY <1>1, <1>2

\* One more attempt starts when the wait that was due is over.
LEMMA AttemptPaced ==
    ASSUME IndInv, PacingInv, NEW kind \in Kinds, NEW t \in Moments(now), NEW hint \in Hints(kind, t),
           Attempt(kind, hint, t), pc' # "attempt"
    PROVE  PacingInv'
<1>1. LogGrows(kind, hint, t) /\ now' = t /\ pc = "attempt" /\ attempt \in Nat
  BY AttemptFacts DEF Attempt, IndInv, TypeOK
<1>2. /\ Len(log) = attempt /\ Len(log') = attempt + 1
      /\ log'[attempt + 1] = [kind |-> kind, hint |-> hint, start |-> now, end |-> t]
      /\ \A i \in 1..attempt : log'[i] = log[i]
  BY <1>1 DEF LogGrows
<1>3. ASSUME NEW i \in 1..Len(log') - 1
      PROVE  log'[i + 1].start - log'[i].end >= Due(i)'
  <2>1. i \in 1..attempt /\ Due(i)' = Due(i) /\ log'[i] = log[i]
    BY <1>1, <1>2 DEF Due
  <2>2. CASE i = attempt
    <3>1. log'[i + 1].start = now
      BY <1>2, <2>2
    <3>2. now - log[i].end >= Due(i)
      BY <1>1, <2>1, <2>2 DEF PacingInv
    <3> QED
      BY <2>1, <3>1, <3>2
  <2>3. CASE i # attempt
    <3>1. i \in 1..Len(log) - 1 /\ log'[i + 1] = log[i + 1]
      BY <1>1, <1>2, <2>1, <2>3
    <3> QED
      BY <2>1, <3>1 DEF PacingInv
  <2> QED
    BY <2>2, <2>3
<1>4. Last'.end <= now'
  <2>1. Last'.end = t /\ t \in Nat
    BY <1>1, <1>2 DEF Last, LogGrows
  <2> QED
    BY <1>1, <2>1
<1> QED
  BY <1>3, <1>4 DEF PacingInv

\* When the wait is over, what was due after the last attempt has passed.
LEMMA SleepPaced ==
    ASSUME OverflowHarmless, IndInv, PacingInv, SleepDone
    PROVE  PacingInv'
<1>1. /\ pc = "sleep" /\ pc' = "attempt" /\ attempt' = attempt + 1 /\ UNCHANGED log
      /\ Len(log) = attempt + 1 /\ attempt \in Nat /\ attempt \in 0..MaxRetries - 1 /\ now \in Nat
  BY PolicyAssumption DEF SleepDone, IndInv, TypeOK, ControlInv
<1>2. PICK e \in SleepEnds(BackoffDelay(attempt, Last.hint)) : e.woken /\ now' = e.until
  BY DEF SleepDone
<1>3. Last = log[attempt + 1] /\ Last \in Entry
  BY <1>1 DEF Last, IndInv, TypeOK
<1>4. Last.hint \in Nat /\ Last.end \in Nat
  BY <1>3 DEF Entry
<1>5. BackoffDelay(attempt, Last.hint) \in Int
  BY <1>1, <1>4, BackoffBounded
<1>6. now' >= now + BackoffDelay(attempt, Last.hint)
  BY <1>1, <1>2, <1>5, SleepLongEnough, Zenon
<1>7. BackoffDelay(attempt, Last.hint)
        >= Lower(IF Last.hint > 0 THEN Last.hint ELSE BaseDelay * 2^attempt, MaxDelay)
  BY <1>1, <1>4, BackoffLongEnough
<1>8. Due(attempt + 1) = Lower(IF Last.hint > 0 THEN Last.hint ELSE BaseDelay * 2^attempt, MaxDelay)
  <2> DEFINE n == attempt + 1
  <2>1. n - 1 = attempt
    BY <1>1
  <2>2. log[n] = Last
    BY <1>3
  <2> HIDE DEF n
  <2>3. Due(n) = Lower(IF Last.hint > 0 THEN Last.hint ELSE BaseDelay * 2^attempt, MaxDelay)
    BY <2>1, <2>2, Zenon DEF Due
  <2> QED
    BY <2>3 DEF n
<1>9. now' - log'[attempt'].end >= Due(attempt)'
  <2>1. Last.end <= now
    BY <1>1 DEF PacingInv
  <2>2. Due(attempt + 1) \in Int
    <3>1. 2^attempt \in Int
      BY <1>1, SMT
    <3>2. BaseDelay * 2^attempt \in Int
      BY <3>1, PolicyAssumption, SMT
    <3> QED
      BY <1>4, <1>8, <3>2, PolicyAssumption DEF Lower
  <2>3. now' \in Nat
    BY <1>1, <1>2, SleepFacts, Zenon
  <2>4. now' - Last.end >= Due(attempt + 1)
    BY <1>1, <1>4, <1>5, <1>6, <1>7, <1>8, <2>1, <2>2, <2>3
  <2>5. Due(attempt)' = Due(attempt + 1) /\ log'[attempt'] = Last
    BY <1>1, <1>3 DEF Due
  <2> QED
    BY <2>4, <2>5
<1>10. \A i \in 1..Len(log') - 1 : log'[i + 1].start - log'[i].end >= Due(i)'
  BY <1>1 DEF PacingInv, Due
<1> QED
  BY <1>1, <1>9, <1>10 DEF PacingInv

LEMMA PacingInvKept ==
    ASSUME OverflowHarmless, IndInv, PacingInv, [Next]_vars
    PROVE  PacingInv'
<1>1. CASE AttemptReturns
  BY <1>1, AttemptPaced DEF AttemptReturns, Return
<1>2. CASE AttemptRetried
  <2>1. PICK kind \in Kinds, t \in Moments(now) : \E hint \in Hints(kind, t) :
            Attempt(kind, hint, t) /\ pc' = IF HasResponse(kind) THEN "drain" ELSE "sleep"
    BY <1>2 DEF AttemptRetried
  <2> QED
    BY <2>1, AttemptPaced
<1>3. CASE SleepDone
  BY <1>3, SleepPaced
<1>4. CASE DrainDone
  <2>1. pc = "drain" /\ pc' = "sleep" /\ UNCHANGED log /\ now <= now' /\ now' \in Nat /\ now \in Nat
    BY <1>4, DrainFacts DEF DrainDone, IndInv, TypeOK
  <2>2. Last.end \in Nat
    <3>1. Len(log) \in 1..Len(log)
      BY <2>1 DEF IndInv, ControlInv, TypeOK
    <3>2. Last \in Entry
      BY <3>1 DEF Last, IndInv, TypeOK
    <3> QED
      BY <3>2 DEF Entry
  <2>3. Last'.end <= now'
    BY <2>1, <2>2 DEF PacingInv, Last
  <2> QED
    BY <2>1, <2>3 DEF PacingInv, Due
<1>5. CASE CloneFails \/ DrainAborts \/ SleepCutShort
  BY <1>5 DEF CloneFails, DrainAborts, SleepCutShort, Return, PacingInv, Due
<1>6. CASE UNCHANGED vars
  BY <1>6 DEF vars, PacingInv, Due, Last
<1> QED
  BY <1>1, <1>2, <1>3, <1>4, <1>5, <1>6 DEF Next, Returned

\* Between an attempt and the next, Do waits as long as the server asks or as its
\* policy demands, up to MaxDelay, when no delay wraps around to a short one
\* (backoffDelay).
THEOREM PacingIsHonoured == OverflowHarmless => (Spec => []PacingHonoured)
<1> SUFFICES ASSUME OverflowHarmless PROVE Spec => []PacingHonoured
  OBVIOUS
<1>1. Init => PacingInv
  BY DEF Init, PacingInv
<1>2. IndInv /\ PacingInv /\ [Next]_vars => PacingInv'
  BY PacingInvKept
<1>3. PacingInv => PacingHonoured
  BY DEF PacingInv, PacingHonoured, Due
<1> QED
  BY <1>1, <1>2, <1>3, Invariance, PTL DEF Spec

=============================================================================
