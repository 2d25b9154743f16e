------------------------------ MODULE RetryDoer ------------------------------
(***************************************************************************)
(* One call of retry.Doer.Do (internal/retry/doer.go): the loop that sends *)
(* a request, classifies the outcome, drains an intermediate response,     *)
(* waits and tries again, under the deadline of the caller's context.      *)
(*                                                                         *)
(* Time is discrete and advances only inside the steps that take time: the *)
(* inner HTTPDoer, the draining of a body and Clock.Sleep.  The inner      *)
(* HTTPDoer bounds each attempt, its body included, by AttemptTimeout: the *)
(* http.Client.Timeout of requests to the PDS, and the                     *)
(* perAttemptTimeoutDoer of internal/notify.  A fetch while the handle is  *)
(* resolved has no bound of its own: for it, AttemptTimeout is as large as *)
(* the deadline, so that only the caller's context cuts it off.            *)
(***************************************************************************)
EXTENDS Integers, Sequences

CONSTANTS
    MaxRetries,        \* Policy.MaxRetries
    BaseDelay,         \* Policy.BaseDelay
    MaxDelay,          \* Policy.MaxDelay
    MaxRetryAfter,     \* maxRetryAfterSeconds
    DurationRange,     \* how many values a time.Duration has, 2^64 in Go
    AttemptTimeout,    \* the inner HTTPDoer's own bound on one attempt
    Deadlines,         \* when the caller's context may end
    Latencies,         \* how long the peer may take to answer, or to send a body
    Headers,           \* the Retry-After headers a 429 may carry
    CloseMayFail       \* whether closing a drained body may return an error

ASSUME PolicyAssumption ==
    /\ MaxRetries \in Nat
    /\ BaseDelay \in Nat
    /\ MaxDelay \in Nat
    /\ MaxRetryAfter \in Nat
    /\ DurationRange \in Nat \ {0}

ASSUME EnvironmentAssumption ==
    /\ AttemptTimeout \in Nat
    /\ Deadlines \subseteq Nat
    /\ Latencies \subseteq Nat
    /\ Headers \subseteq [form : {"absent", "seconds", "date", "junk"}, value : Int]
    /\ CloseMayFail \in BOOLEAN

VARIABLES
    rebuildable,  \* whether a retry can be given a request body to send
    deadline,     \* when the caller's context ends
    pc,           \* where Do is
    attempt,      \* Do's loop counter
    now,          \* the time
    log,          \* history: one entry per attempt handed to the inner HTTPDoer
    bodies,       \* bodies[i]: the response body of the i-th entry of log
    result        \* how Do returned

vars == <<rebuildable, deadline, pc, attempt, now, log, bodies, result>>

\* 2xx; 3xx and any 4xx but 429; 429; 5xx; a transport error; an error whose
\* chain holds a permanentError.
Kinds == {"ok", "rejected", "throttled", "unavailable", "transport", "permanent"}

HasResponse(kind) == kind \in {"ok", "rejected", "throttled", "unavailable"}

Lower(a, b) == IF a < b THEN a ELSE b

-----------------------------------------------------------------------------
(* Defects that the runs must find: each replaces the operator it precedes *)

RetriesPermanent(kind) == kind \notin {"ok", "rejected"}
NoOverflowGuard(k, hint) ==
    LET v == (BaseDelay * 2^k) % DurationRange
        doubled == IF v >= DurationRange \div 2 THEN v - DurationRange ELSE v
    IN  Lower(IF hint > 0 THEN hint ELSE doubled, MaxDelay)
HintUncapped(k, hint) ==
    IF hint > 0 THEN hint ELSE Lower(BaseDelay * 2^k, MaxDelay)
SleepsThroughDeadline(d) == {[until |-> now + d, woken |-> TRUE]}
LeavesBodyOpen(i) == bodies
TrustsPastDates(header, at) ==
    CASE header.form = "seconds" /\ header.value > 0 -> Lower(header.value, MaxRetryAfter)
      [] header.form = "date"                        -> header.value - at
      [] OTHER                                       -> 0

-----------------------------------------------------------------------------
(* The policy *)

\* Which outcomes classify marks retryable.
Retryable(kind) == kind \in {"throttled", "unavailable", "transport"}

\* Whether attempt n is the last one.
OutOfRetries(n) == n >= MaxRetries

\* The Retry-After header of a 429 as a wait, 0 when it gives no usable hint.
ParseRetryAfter(header, at) ==
    CASE header.form = "seconds" /\ header.value > 0 -> Lower(header.value, MaxRetryAfter)
      [] header.form = "date" /\ header.value > at   -> header.value - at
      [] OTHER                                       -> 0

\* BaseDelay << k, which wraps around as a signed integer does.
Shifted(k) ==
    LET v == (BaseDelay * 2^k) % DurationRange
    IN  IF v >= DurationRange \div 2 THEN v - DurationRange ELSE v

\* The wait after attempt k.
BackoffDelay(k, hint) ==
    LET doubled == Shifted(k)
        wait    == IF hint > 0 THEN hint ELSE IF doubled > 0 THEN doubled ELSE MaxDelay
    IN  Lower(wait, MaxDelay)

\* How RealClock.Sleep(ctx, d) may end: woken by its timer or cut short by the
\* context; when both are ready, select picks either.
SleepEnds(d) ==
    IF d <= 0
    THEN {[until |-> now, woken |-> now < deadline]}
    ELSE {e \in {[until |-> now + d, woken |-> TRUE], [until |-> deadline, woken |-> FALSE]} :
              IF e.woken THEN now + d <= deadline ELSE now + d >= deadline}

\* The bodies after the i-th was drained and closed.
Closed(i) == [bodies EXCEPT ![i] = "closed"]

-----------------------------------------------------------------------------
(* The loop *)

Init ==
    /\ rebuildable \in BOOLEAN
    /\ deadline \in Deadlines
    /\ pc = "attempt"
    /\ attempt = 0
    /\ now = 0
    /\ log = <<>>
    /\ bodies = <<>>
    /\ result = "none"

Last == log[Len(log)]

\* When an attempt begun at start is cut off.
CutOff(start) == Lower(start + AttemptTimeout, deadline)

Return(how) == pc' = "returned" /\ result' = how

\* cloneForAttempt cannot rebuild the body.
CloneFails ==
    /\ pc = "attempt"
    /\ attempt > 0 /\ ~rebuildable
    /\ Return("rebuildError")
    /\ UNCHANGED <<rebuildable, deadline, attempt, now, log, bodies>>

\* The hints an outcome of this kind may carry at time t.
Hints(kind, t) == IF kind = "throttled" THEN {ParseRetryAfter(h, t) : h \in Headers} ELSE {0}

\* The inner HTTPDoer ends the attempt at time t.  Under a context that has ended
\* only an error comes back; an answer that arrives at the very moment the
\* attempt is cut off may still win.
Attempt(kind, hint, t) ==
    /\ pc = "attempt"
    /\ attempt = 0 \/ rebuildable
    /\ now >= deadline => kind \in {"transport", "permanent"}
    /\ hint \in Hints(kind, t)
    /\ now' = t
    /\ log' = Append(log, [kind |-> kind, hint |-> hint, start |-> now, end |-> t])
    /\ bodies' = Append(bodies, IF HasResponse(kind) THEN "open" ELSE "none")
    /\ UNCHANGED <<rebuildable, deadline, attempt>>

\* The moments at which what began at start may end, if the peer goes on from now.
Moments(start) == {Lower(now + d, CutOff(start)) : d \in Latencies \cup {AttemptTimeout}}

\* The outcome is Do's own: it is final or no retry is left.  A response goes to
\* the caller with its body unread.
AttemptReturns ==
    \E kind \in Kinds, t \in Moments(now) : \E hint \in Hints(kind, t) :
        /\ Attempt(kind, hint, t)
        /\ ~Retryable(kind) \/ OutOfRetries(attempt)
        /\ Return(IF HasResponse(kind) THEN "response" ELSE "error")

\* The outcome is retried: a response has its body drained first.
AttemptRetried ==
    \E kind \in Kinds, t \in Moments(now) : \E hint \in Hints(kind, t) :
        /\ Attempt(kind, hint, t)
        /\ Retryable(kind) /\ ~OutOfRetries(attempt)
        /\ pc' = IF HasResponse(kind) THEN "drain" ELSE "sleep"
        /\ UNCHANGED result

\* drainAndClose reads the body to its end, to maxDrainBytes or to an error that
\* no context caused.
DrainDone ==
    /\ pc = "drain"
    /\ now' \in Moments(Last.start)
    /\ bodies' = Closed(Len(log))
    /\ pc' = "sleep"
    /\ UNCHANGED <<rebuildable, deadline, attempt, log, result>>

\* The read is cut off, by the caller's context or by the attempt's own timeout,
\* or the body fails to close: Do returns that error.
DrainAborts ==
    /\ pc = "drain"
    /\ \/ now' = CutOff(Last.start) /\ Return("drainCutOff")
       \/ CloseMayFail /\ now' \in Moments(Last.start) /\ Return("closeError")
    /\ bodies' = Closed(Len(log))
    /\ UNCHANGED <<rebuildable, deadline, attempt, log>>

\* Clock.Sleep waits out the backoff, and the loop goes round.
SleepDone ==
    /\ pc = "sleep"
    /\ \E e \in SleepEnds(BackoffDelay(attempt, Last.hint)) : e.woken /\ now' = e.until
    /\ attempt' = attempt + 1
    /\ pc' = "attempt"
    /\ UNCHANGED <<rebuildable, deadline, log, bodies, result>>

\* The context ends the wait, and Do returns its error.
SleepCutShort ==
    /\ pc = "sleep"
    /\ \E e \in SleepEnds(BackoffDelay(attempt, Last.hint)) : ~e.woken /\ now' = e.until
    /\ Return("contextError")
    /\ UNCHANGED <<rebuildable, deadline, attempt, log, bodies>>

Returned == pc = "returned" /\ UNCHANGED vars

Next ==
    \/ CloneFails
    \/ AttemptReturns
    \/ AttemptRetried
    \/ DrainDone
    \/ DrainAborts
    \/ SleepDone
    \/ SleepCutShort
    \/ Returned

Spec == Init /\ [][Next]_vars

-----------------------------------------------------------------------------
(* Properties *)

Entry == [kind : Kinds, hint : Nat, start : Nat, end : Nat]

\* Every variable has its type, and the log grows with the loop counter.
TypeOK ==
    /\ rebuildable \in BOOLEAN
    /\ deadline \in Deadlines
    /\ pc \in {"attempt", "drain", "sleep", "returned"}
    /\ attempt \in Nat
    /\ now \in Nat
    /\ log \in Seq(Entry)
    /\ bodies \in Seq({"none", "open", "closed"})
    /\ Len(bodies) = Len(log)
    /\ result \in {"none", "response", "error", "rebuildError", "drainCutOff",
                   "closeError", "contextError"}

\* What may be followed by another attempt: only an outcome that classify calls
\* retryable, and never more than MaxRetries times; and Do hands a retryable
\* outcome to its caller only when no retry is left (Do, classify).
RetriesJustified ==
    /\ \A i \in 1..Len(log) - 1 : log[i].kind \in {"throttled", "unavailable", "transport"}
    /\ Len(log) <= MaxRetries + 1
    /\ result \in {"response", "error"} =>
           \/ Last.kind \in {"ok", "rejected", "permanent"}
           \/ Len(log) = MaxRetries + 1

\* No response body leaks and none is given away used: each is closed before the
\* next attempt, and when Do returns the only open one is that of the response it
\* returns (drainAndClose and the give-up path of Do).
BodiesSettled ==
    /\ \A i \in 1..Len(bodies) : i < Len(bodies) => bodies[i] # "open"
    /\ pc = "returned" /\ bodies # <<>> =>
           (bodies[Len(bodies)] = "open" <=> result = "response")

\* Between an attempt and the next, Do waits at least as long as a 429 asks, up to
\* MaxDelay, and otherwise at least the doubled delay, up to MaxDelay; no overflow
\* of the doubling makes it retry at once (backoffDelay).
PacingHonoured ==
    \A i \in 1..Len(log) - 1 :
        LET gap == log[i + 1].start - log[i].end
        IN  gap >= Lower(IF log[i].hint > 0 THEN log[i].hint ELSE BaseDelay * 2^(i - 1), MaxDelay)

\* The caller's context bounds the call: Do is never at work after it ended, and
\* at most one attempt starts under a context that has ended, the one whose
\* wake-up raced with the end of the context (RealClock.Sleep, drainAndClose).
DeadlineHonoured ==
    /\ now <= deadline
    /\ \A i, j \in 1..Len(log) :
           log[i].start >= deadline /\ log[j].start >= deadline => i = j

\* The loop's own budget, whatever the caller's deadline: each attempt takes at
\* most AttemptTimeout, draining included, and each wait at most MaxDelay
\* (backoffDelay's cap on a server-supplied Retry-After).  It says something of the
\* requests whose client has a timeout, not of those that resolve the handle.
BudgetHonoured ==
    now <= attempt * (AttemptTimeout + MaxDelay) + AttemptTimeout
           + (IF pc = "returned" THEN MaxDelay ELSE 0)

\* The parts of the inductive invariant behind the properties above.
\* Where the loop is determines how long the log is and what it may end with.
ControlInv ==
    /\ attempt <= MaxRetries
    /\ \A i \in 1..Len(log) : i < Len(log) \/ pc # "returned" => Retryable(log[i].kind)
    /\ pc = "attempt" => Len(log) = attempt
    /\ pc \in {"drain", "sleep"} => Len(log) = attempt + 1 /\ attempt < MaxRetries
    /\ pc = "returned" => Len(log) \in {attempt, attempt + 1}
    /\ pc # "returned" <=> result = "none"
    /\ result \in {"response", "error"} =>
           Len(log) = attempt + 1 /\ (~Retryable(Last.kind) \/ attempt = MaxRetries)

\* Only the newest body may be open: while it is drained, or once it is returned.
BodyInv ==
    \A i \in 1..Len(bodies) :
        bodies[i] = "open" => i = Len(bodies) /\ (pc = "drain" \/ result = "response")

ReturnedBodyInv == result = "response" => bodies[Len(bodies)] = "open"

\* Time stays within the context and within the loop's budget so far.
TimeInv ==
    /\ now <= deadline
    /\ \A i \in 1..Len(log) :
           /\ log[i].start <= now
           /\ log[i].start >= deadline => i = Len(log) /\ pc # "attempt"
    /\ LET spent == attempt * (AttemptTimeout + MaxDelay) IN
           /\ pc = "attempt" => now <= spent
           /\ pc = "drain" => Last.start <= spent /\ now <= Last.start + AttemptTimeout
           /\ pc = "sleep" => now <= spent + AttemptTimeout
           /\ pc = "returned" => now <= spent + AttemptTimeout + MaxDelay

-----------------------------------------------------------------------------
(* What comments of the repository say *)

\* doer.go: "Only a ctx cancellation/deadline observed via the read ... is
\* returned", because retrying would "just repeat into the same dead ctx".
DrainAbortsOnlyWhenContextEnded == result = "drainCutOff" => now = deadline

=============================================================================
