-------------------------- MODULE NotifySend_proofs --------------------------
(***************************************************************************)
(* Proofs about NotifySend, on top of those about the loop it calls: for   *)
(* any policy, outcome and configuration, what Send returns is what        *)
(* happened to the message, and every context and body is released; and    *)
(* about SlackText: the payload fits and shows what it is to show, by      *)
(* induction over texts.                                                   *)
(***************************************************************************)
EXTENDS NotifySend, RetryDoer_proofs, SequenceTheorems, WellFoundedInduction

-----------------------------------------------------------------------------
(* The inductive invariant *)

\* Each attempt has a context and a message.
RecordsInv ==
    /\ contexts \in Seq({"live", "cancelled"}) /\ Len(contexts) = Len(bodies)
    /\ arrivals \in Seq({"arrived", "pending", "lost"}) /\ Len(arrivals) = Len(log)
    /\ log \in Seq(Entry)
    /\ bodies \in Seq({"none", "open", "closed"}) /\ Len(bodies) = Len(log)

\* A context is live exactly while a body is to be read.
ContextInv == \A i \in 1..Len(bodies) : contexts[i] = "live" <=> bodies[i] = "open"

\* An attempt that was acknowledged is the last, has arrived, and ends the loop.
AcknowledgedInv ==
    \A i \in 1..Len(log) : log[i].kind = "ok" =>
        i = Len(log) /\ arrivals[i] = "arrived" /\ pc = "returned" /\ result = "response"

\* Where send is determines what it has done.
StageInv ==
    /\ stage \in {"choose", "call", "returned"}
    /\ stage = "choose" => log = <<>>
    /\ stage \in {"choose", "call"} => IndInv /\ sent = "none"
    /\ stage = "call" => Destination(outcome) \in configured
    /\ stage = "returned" =>
           /\ \A i \in 1..Len(bodies) : bodies[i] # "open"
           /\ sent = "nil" =>
                  IF Destination(outcome) \in configured
                  THEN log # <<>> /\ Last.kind = "ok"
                  ELSE log = <<>>
           /\ sent = "error" => \A i \in 1..Len(log) : log[i].kind # "ok"

SendInv == RecordsInv /\ ContextInv /\ AcknowledgedInv /\ StageInv

-----------------------------------------------------------------------------
(* The steps *)

\* Cancelling contexts keeps their number, and those that are not among them.
LEMMA CancelledFacts ==
    ASSUME contexts \in Seq({"live", "cancelled"}), NEW closed
    PROVE  /\ CancelledWith(closed) \in Seq({"live", "cancelled"})
           /\ Len(CancelledWith(closed)) = Len(contexts)
           /\ \A i \in 1..Len(contexts) :
                  CancelledWith(closed)[i] = IF i \in closed THEN "cancelled" ELSE contexts[i]
<1> DEFINE new(i) == IF i \in closed THEN "cancelled" ELSE contexts[i]
<1>1. DOMAIN contexts = 1..Len(contexts) /\ Len(contexts) \in Nat
  OBVIOUS
<1>2. CancelledWith(closed) = [i \in 1..Len(contexts) |-> new(i)]
  BY <1>1 DEF CancelledWith
<1>3. \A i \in 1..Len(contexts) : new(i) \in {"live", "cancelled"}
  OBVIOUS
<1> HIDE DEF new
<1>4. [i \in 1..Len(contexts) |-> new(i)] \in Seq({"live", "cancelled"})
  BY <1>1, <1>3, IsASeq
<1>5. Len([i \in 1..Len(contexts) |-> new(i)]) = Len(contexts)
  BY <1>1, <1>4
<1> QED
  BY <1>2, <1>4, <1>5 DEF new

LEMMA SendInitInv == SendInit => SendInv
<1> SUFFICES ASSUME SendInit PROVE SendInv
  OBVIOUS
<1>1. log = <<>> /\ bodies = <<>> /\ contexts = <<>> /\ arrivals = <<>> /\ stage = "choose" /\ sent = "none"
  BY DEF SendInit, Init
<1>2. IndInv
  BY InitIndInv DEF SendInit
<1> QED
  BY <1>1, <1>2 DEF SendInv, RecordsInv, ContextInv, AcknowledgedInv, StageInv

\* What send has done stays so while neither it nor the loop does anything.
LEMMA StageKept ==
    ASSUME StageInv, IndInv => IndInv', UNCHANGED vars,
           UNCHANGED <<outcome, configured, stage, sent>>
    PROVE  StageInv'
<1>1. UNCHANGED <<log, bodies>>
  BY DEF vars
<1>2. Last' = Last /\ Destination(outcome)' = Destination(outcome)
  BY <1>1 DEF Last, Destination
<1> QED
  BY <1>1, <1>2 DEF StageInv

LEMMA SkipKeeps == SendInv /\ Skip => SendInv'
<1> SUFFICES ASSUME SendInv, Skip PROVE SendInv'
  OBVIOUS
<1> USE DEF SendInv
<1>1. /\ stage = "choose" /\ stage' = "returned" /\ sent' = "nil" /\ log = <<>>
      /\ Destination(outcome) \notin configured
      /\ UNCHANGED <<log, bodies, pc, result, outcome, configured, contexts, arrivals>>
  BY DEF Skip, vars, StageInv
<1>2. RecordsInv' /\ ContextInv' /\ AcknowledgedInv'
  BY <1>1 DEF RecordsInv, ContextInv, AcknowledgedInv
<1>3. StageInv'
  BY <1>1 DEF StageInv, RecordsInv, Destination
<1> QED
  BY <1>2, <1>3

LEMMA PostKeeps == SendInv /\ Post => SendInv'
<1> SUFFICES ASSUME SendInv, Post PROVE SendInv'
  OBVIOUS
<1> USE DEF SendInv
<1>1. /\ stage = "choose" /\ stage' = "call" /\ Destination(outcome) \in configured
      /\ UNCHANGED vars /\ UNCHANGED <<outcome, configured, contexts, arrivals, sent>>
  BY DEF Post
<1>2. IndInv'
  BY <1>1, NextIndInv DEF StageInv
<1>3. RecordsInv' /\ ContextInv' /\ AcknowledgedInv'
  BY <1>1 DEF vars, RecordsInv, ContextInv, AcknowledgedInv
<1>4. StageInv'
  BY <1>1, <1>2 DEF StageInv, Destination
<1> QED
  BY <1>3, <1>4

\* While the loop runs no attempt was acknowledged.
LEMMA RunningFacts ==
    ASSUME IndInv, pc # "returned"
    PROVE  \A i \in 1..Len(log) : log[i].kind # "ok"
BY DEF IndInv, ControlInv, Retryable

\* An attempt adds its context and its message.
LEMMA CallAttemptKeeps == SendInv /\ CallAttempt => SendInv'
<1> SUFFICES ASSUME SendInv, CallAttempt PROVE SendInv'
  OBVIOUS
<1> USE DEF SendInv
<1>1. stage = "call" /\ IndInv /\ sent = "none" /\ Destination(outcome) \in configured
  BY DEF CallAttempt, StageInv
<1>2. IndInv'
  BY <1>1, NextIndInv DEF CallAttempt, Next
<1>3. PICK kind \in Kinds, t \in Moments(now) : \E hint \in Hints(kind, t) :
          /\ Attempt(kind, hint, t)
          /\ kind = "ok" => pc' = "returned" /\ result' = "response"
  BY DEF CallAttempt, AttemptReturns, AttemptRetried, Retryable, Return, HasResponse
<1>4. PICK hint \in Hints(kind, t) : Attempt(kind, hint, t)
  BY <1>3
<1>5. LogGrows(kind, hint, t) /\ pc = "attempt"
  BY <1>1, <1>4, AttemptFacts DEF Attempt
<1>6. /\ log' \in Seq(Entry) /\ Len(log') = Len(log) + 1 /\ Len(log) \in Nat
      /\ log'[Len(log')].kind = kind
      /\ \A i \in 1..Len(log) : log'[i] = log[i]
      /\ bodies' \in Seq({"none", "open", "closed"}) /\ Len(bodies') = Len(log')
      /\ \A i \in 1..Len(log) : bodies'[i] = bodies[i]
      /\ bodies'[Len(log')] = IF HasResponse(kind) THEN "open" ELSE "none"
  BY <1>1, <1>5 DEF LogGrows, RecordsInv
<1>7. PICK a \in Arrival(kind) : arrivals' = Append(arrivals, a)
  BY <1>6 DEF CallAttempt
<1>8. contexts' = Append(contexts, ContextAfter(kind))
  BY <1>6 DEF CallAttempt
<1>9. ContextAfter(kind) \in {"live", "cancelled"} /\ a \in {"arrived", "pending", "lost"}
      /\ (ContextAfter(kind) = "live" <=> HasResponse(kind)) /\ (kind = "ok" => a = "arrived")
  BY <1>7 DEF ContextAfter, Arrival
<1>10. RecordsInv'
  BY <1>6, <1>7, <1>8, <1>9 DEF RecordsInv
<1>11. ContextInv'
  BY <1>6, <1>8, <1>9 DEF RecordsInv, ContextInv
<1>12. AcknowledgedInv'
  <2> SUFFICES ASSUME NEW i \in 1..Len(log'), log'[i].kind = "ok"
               PROVE  i = Len(log') /\ arrivals'[i] = "arrived" /\ pc' = "returned" /\ result' = "response"
    BY DEF AcknowledgedInv
  <2>1. i = Len(log')
    BY <1>1, <1>5, <1>6, RunningFacts
  <2> QED
    BY <1>3, <1>6, <1>7, <1>9, <2>1 DEF RecordsInv
<1>13. StageInv'
  BY <1>1, <1>2 DEF StageInv, CallAttempt, Destination
<1> QED
  BY <1>10, <1>11, <1>12, <1>13

\* Draining cancels the context of the body that it closes.
LEMMA CallDrainKeeps == SendInv /\ CallDrain => SendInv'
<1> SUFFICES ASSUME SendInv, CallDrain PROVE SendInv'
  OBVIOUS
<1> USE DEF SendInv
<1> DEFINE closed == {i \in DOMAIN bodies : bodies[i] = "open" /\ bodies'[i] = "closed"}
<1>1. stage = "call" /\ IndInv /\ sent = "none" /\ Destination(outcome) \in configured
  BY DEF CallDrain, StageInv
<1>2. IndInv'
  BY <1>1, NextIndInv DEF CallDrain, Next
<1>3. /\ pc = "drain" /\ bodies' = Closed(Len(log)) /\ contexts' = CancelledWith(closed)
      /\ UNCHANGED <<log, arrivals, outcome, configured, stage, sent>>
  BY DEF CallDrain, DrainDone, DrainAborts
<1>4. bodies \in Seq({"none", "open", "closed"}) /\ DOMAIN bodies = 1..Len(bodies)
  BY <1>1 DEF IndInv, TypeOK
<1>5. /\ bodies' \in Seq({"none", "open", "closed"}) /\ Len(bodies') = Len(bodies)
      /\ \A i \in 1..Len(bodies) : bodies'[i] = IF i = Len(log) THEN "closed" ELSE bodies[i]
  <2>1. Len(log) \in 1..Len(bodies)
    BY <1>1, <1>3, <1>4 DEF IndInv, ControlInv, TypeOK
  <2> QED
    BY <1>3, <1>4, <2>1 DEF Closed
<1>6. \A i \in 1..Len(bodies) : i \in closed <=> bodies[i] = "open" /\ i = Len(log)
  BY <1>4, <1>5
<1> HIDE DEF closed
<1>7. /\ contexts' \in Seq({"live", "cancelled"}) /\ Len(contexts') = Len(contexts)
      /\ \A i \in 1..Len(contexts) : contexts'[i] = IF i \in closed THEN "cancelled" ELSE contexts[i]
  BY <1>3, CancelledFacts DEF RecordsInv
<1>8. RecordsInv'
  BY <1>3, <1>5, <1>7 DEF RecordsInv
<1>9. ContextInv'
  BY <1>5, <1>6, <1>7 DEF RecordsInv, ContextInv
<1>10. AcknowledgedInv'
  BY <1>1, <1>3, RunningFacts DEF AcknowledgedInv
<1>11. StageInv'
  BY <1>1, <1>2, <1>3 DEF StageInv, Destination
<1> QED
  BY <1>8, <1>9, <1>10, <1>11

LEMMA CallSleepKeeps == SendInv /\ CallSleep => SendInv'
<1> SUFFICES ASSUME SendInv, CallSleep PROVE SendInv'
  OBVIOUS
<1> USE DEF SendInv
<1>1. stage = "call" /\ IndInv /\ sent = "none" /\ Destination(outcome) \in configured
  BY DEF CallSleep, StageInv
<1>2. IndInv'
  BY <1>1, NextIndInv DEF CallSleep, Next
<1>3. pc = "sleep" /\ UNCHANGED <<log, bodies>> /\ UNCHANGED sendVars
  BY DEF CallSleep, SleepDone, SleepCutShort
<1>4. RecordsInv' /\ ContextInv'
  BY <1>3 DEF RecordsInv, ContextInv, sendVars
<1>5. AcknowledgedInv'
  BY <1>1, <1>3, RunningFacts DEF AcknowledgedInv
<1>6. StageInv'
  BY <1>1, <1>2, <1>3 DEF StageInv, Destination, sendVars
<1> QED
  BY <1>4, <1>5, <1>6

\* The answer that is returned is the only one open; send judges it and closes it.
LEMMA SendReturnsKeeps == SendInv /\ SendReturns => SendInv'
<1> SUFFICES ASSUME SendInv, SendReturns PROVE SendInv'
  OBVIOUS
<1> USE DEF SendInv
<1> DEFINE closed == ClosedBySend(result, Last.kind)
<1>1. /\ stage = "call" /\ IndInv /\ Destination(outcome) \in configured /\ pc = "returned"
      /\ sent' = (IF Delivered(result, Last.kind) THEN "nil" ELSE "error") /\ stage' = "returned"
      /\ bodies' = [i \in DOMAIN bodies |-> IF i \in closed THEN "closed" ELSE bodies[i]]
      /\ contexts' = CancelledWith(closed)
      /\ UNCHANGED <<pc, log, result, outcome, configured, arrivals>>
  BY DEF SendReturns, StageInv
<1>2. closed = IF result = "response" THEN {Len(log)} ELSE {}
  BY DEF ClosedBySend
<1> HIDE DEF closed
<1>3. bodies \in Seq({"none", "open", "closed"}) /\ DOMAIN bodies = 1..Len(bodies) /\ Len(bodies) \in Nat
  BY <1>1 DEF IndInv, TypeOK
<1>4. /\ bodies' \in Seq({"none", "open", "closed"}) /\ Len(bodies') = Len(bodies)
      /\ \A i \in 1..Len(bodies) : bodies'[i] = IF i \in closed THEN "closed" ELSE bodies[i]
  <2> DEFINE new(i) == IF i \in closed THEN "closed" ELSE bodies[i]
  <2>1. bodies' = [i \in 1..Len(bodies) |-> new(i)]
    BY <1>1, <1>3
  <2>2. \A i \in 1..Len(bodies) : new(i) \in {"none", "open", "closed"}
    BY <1>3
  <2> HIDE DEF new
  <2>3. bodies' \in Seq({"none", "open", "closed"})
    BY <1>3, <2>1, <2>2, IsASeq
  <2>4. Len(bodies') = Len(bodies)
    BY <1>3, <2>1, <2>3
  <2> QED
    BY <2>1, <2>3, <2>4 DEF new
<1>5. /\ contexts' \in Seq({"live", "cancelled"}) /\ Len(contexts') = Len(contexts)
      /\ \A i \in 1..Len(contexts) : contexts'[i] = IF i \in closed THEN "cancelled" ELSE contexts[i]
  BY <1>1, CancelledFacts DEF RecordsInv
<1>6. RecordsInv'
  BY <1>1, <1>4, <1>5 DEF RecordsInv
<1>7. ContextInv'
  BY <1>4, <1>5 DEF RecordsInv, ContextInv
<1>8. AcknowledgedInv'
  BY <1>1 DEF AcknowledgedInv
<1>9. \A i \in 1..Len(bodies') : bodies'[i] # "open"
  BY <1>1, <1>2, <1>4 DEF IndInv, BodyInv, RecordsInv
<1>10. sent' = "nil" => log # <<>> /\ Last.kind = "ok"
  <2>1. result = "response" => Len(log) = attempt + 1 /\ attempt \in Nat
    BY <1>1 DEF IndInv, ControlInv, TypeOK
  <2> QED
    BY <1>1, <2>1 DEF Delivered
<1>11. ASSUME sent' = "error", NEW i \in 1..Len(log)
       PROVE  log[i].kind # "ok"
  <2>1. ~(result = "response" /\ Last.kind = "ok")
    BY <1>1, <1>11 DEF Delivered
  <2> QED
    BY <2>1 DEF AcknowledgedInv, Last
<1>12. StageInv'
  <2>1. Last' = Last /\ log' = log /\ Destination(outcome)' \in configured'
    BY <1>1 DEF Last, Destination
  <2> QED
    BY <1>1, <1>9, <1>10, <1>11, <2>1 DEF StageInv
<1> QED
  BY <1>6, <1>7, <1>8, <1>12

\* A message that arrives late changes nothing of an acknowledged one.
LEMMA ArrivesKeeps == SendInv /\ Arrives => SendInv'
<1> SUFFICES ASSUME SendInv, Arrives PROVE SendInv'
  OBVIOUS
<1> USE DEF SendInv
<1>1. PICK i \in DOMAIN arrivals : arrivals' = [arrivals EXCEPT ![i] = "arrived"]
  BY DEF Arrives
<1>2. UNCHANGED vars /\ UNCHANGED <<outcome, configured, stage, contexts, sent>>
  BY DEF Arrives
<1>3. /\ arrivals' \in Seq({"arrived", "pending", "lost"}) /\ Len(arrivals') = Len(arrivals)
      /\ \A j \in 1..Len(arrivals) : arrivals[j] = "arrived" => arrivals'[j] = "arrived"
  BY <1>1 DEF RecordsInv
<1>4. RecordsInv' /\ ContextInv'
  BY <1>2, <1>3 DEF RecordsInv, ContextInv, vars
<1>5. AcknowledgedInv'
  BY <1>2, <1>3 DEF RecordsInv, AcknowledgedInv, vars
<1>6. IndInv => IndInv'
  BY <1>2, NextIndInv
<1>7. StageInv'
  BY <1>2, <1>6, StageKept
<1> QED
  BY <1>4, <1>5, <1>7

LEMMA SendNextKeeps == SendInv /\ [SendNext]_allVars => SendInv'
<1> SUFFICES ASSUME SendInv, [SendNext]_allVars PROVE SendInv'
  OBVIOUS
<1>1. CASE UNCHANGED allVars
  <2>1. UNCHANGED vars /\ UNCHANGED sendVars
    BY <1>1 DEF allVars
  <2>2. IndInv => IndInv'
    BY <2>1, NextIndInv
  <2>3. RecordsInv' /\ ContextInv' /\ AcknowledgedInv'
    BY <2>1 DEF SendInv, vars, sendVars, RecordsInv, ContextInv, AcknowledgedInv
  <2>4. StageInv'
    BY <2>1, <2>2, StageKept DEF SendInv, sendVars
  <2> QED
    BY <2>3, <2>4 DEF SendInv
<1> QED
  BY <1>1, SkipKeeps, PostKeeps, CallAttemptKeeps, CallDrainKeeps, CallSleepKeeps, SendReturnsKeeps,
     ArrivesKeeps DEF SendNext, SendReturned

LEMMA SendInvariance == SendSpec => []SendInv
BY SendInitInv, SendNextKeeps, PTL DEF SendSpec

-----------------------------------------------------------------------------
(* What it gives *)

\* nil means that the channel of the outcome acknowledged the message, or is not
\* configured; an error, that no attempt was acknowledged; and none follows one that was
\* (send).
THEOREM SendIsTruthful == SendSpec => []SendTruthful
<1>1. SendInv => SendTruthful
  <2> SUFFICES ASSUME SendInv PROVE SendTruthful
    OBVIOUS
  <2>1. DOMAIN log = 1..Len(log) /\ Len(log) \in Nat /\ (log # <<>> => Len(log) \in 1..Len(log))
    BY DEF SendInv, RecordsInv
  <2>2. sent \in {"nil", "error"} => stage = "returned"
    BY DEF SendInv, StageInv
  <2>3. sent = "nil" =>
            IF Destination(outcome) \in configured
            THEN log # <<>> /\ Last.kind = "ok" /\ arrivals[Len(log)] = "arrived"
            ELSE log = <<>>
    <3>1. sent = "nil" =>
              IF Destination(outcome) \in configured THEN log # <<>> /\ Last.kind = "ok" ELSE log = <<>>
      BY <2>2 DEF SendInv, StageInv
    <3>2. log # <<>> /\ Last.kind = "ok" => arrivals[Len(log)] = "arrived"
      BY <2>1 DEF SendInv, AcknowledgedInv, Last
    <3> QED
      BY <3>1, <3>2
  <2>4. sent = "error" => \A i \in DOMAIN log : log[i].kind # "ok"
    BY <2>1, <2>2 DEF SendInv, StageInv
  <2>5. \A i \in DOMAIN log : log[i].kind = "ok" => i = Len(log)
    BY <2>1 DEF SendInv, AcknowledgedInv
  <2> QED
    BY <2>3, <2>4, <2>5 DEF SendTruthful
<1> QED
  BY <1>1, SendInvariance, PTL

\* The context of an attempt lives as long as its answer may be read, and when Send
\* returns every body is closed and every context released (perAttemptTimeoutDoer,
\* cancelOnCloseBody, drainAndClose).
THEOREM ContextsAreReleased == SendSpec => []ContextsReleased
<1>1. SendInv => ContextsReleased
  <2> SUFFICES ASSUME SendInv PROVE ContextsReleased
    OBVIOUS
  <2>1. Len(contexts) = Len(bodies) /\ DOMAIN bodies = 1..Len(bodies)
    BY DEF SendInv, RecordsInv
  <2> QED
    BY <2>1 DEF SendInv, ContextInv, StageInv, ContextsReleased
<1> QED
  BY <1>1, SendInvariance, PTL

-----------------------------------------------------------------------------
(* Flattening: FlattenSeq goes from a concatenation to one                 *)

\* A set of numbers with 0 and the successors of its members has them all.
LEMMA SetInduction ==
    ASSUME NEW T \in SUBSET Nat, 0 \in T, \A n \in T : n + 1 \in T
    PROVE  T = Nat
<1> DEFINE Less == OpToRel(<, Nat)
<1>1. SUFFICES ASSUME Nat \ T # {} PROVE FALSE
  OBVIOUS
<1>2. PICK x \in Nat \ T : \A y \in Nat \ T : ~(<<y, x>> \in Less)
  <2>1. IsWellFoundedOn(Less, Nat)
    BY NatLessThanWellFounded
  <2> HIDE DEF Less
  <2> QED BY <1>1, <2>1, WFMin
<1>3. x # 0 /\ x - 1 \in Nat /\ x - 1 \notin T
  OBVIOUS
<1>4. <<x - 1, x>> \in Less
  BY <1>3 DEF OpToRel
<1> HIDE DEF Less
<1> QED BY <1>2, <1>3, <1>4

\* The function that FlattenSeq computes its value with.
FlatTo(ss) ==
    LET flatten[i \in 1..Len(ss)] == IF i = 1 THEN ss[i] ELSE flatten[i - 1] \o ss[i] IN flatten

LEMMA FlattenSeqIs == \A ss : Seqs!FlattenSeq(ss) = IF Len(ss) = 0 THEN ss ELSE FlatTo(ss)[Len(ss)]
BY DEF Seqs!FlattenSeq, FlatTo

LEMMA Regrouped ==
    ASSUME NEW S
    PROVE  \A s, t, u \in Seq(S) : (s \o t) \o u = s \o (t \o u)
BY ConcatAssociative

LEMMA SeqOfFunction ==
    ASSUME NEW S, NEW n \in Nat, NEW f \in [1..n -> S]
    PROVE  f \in Seq(S) /\ Len(f) = n
OBVIOUS

\* u is as long as s and t, and goes through their elements.
Chained(s, t, u) ==
    /\ Len(u) = Len(s) + Len(t)
    /\ \A i \in 1..Len(s) : u[i] = s[i]
    /\ \A i \in 1..Len(t) : u[Len(s) + i] = t[i]

LEMMA IsConcat ==
    \A S : \A s, t, u \in Seq(S) : Chained(s, t, u) => u = s \o t
<1> SUFFICES ASSUME NEW S, NEW s \in Seq(S), NEW t \in Seq(S), NEW u \in Seq(S),
                    Len(u) = Len(s) + Len(t),
                    \A i \in 1..Len(s) : u[i] = s[i],
                    \A i \in 1..Len(t) : u[Len(s) + i] = t[i]
             PROVE  u = s \o t
  BY DEF Chained
<1>1. /\ s \o t \in Seq(S) /\ Len(s \o t) = Len(s) + Len(t) /\ Len(s) \in Nat /\ Len(t) \in Nat
      /\ \A i \in 1..Len(s) + Len(t) : (s \o t)[i] = IF i <= Len(s) THEN s[i] ELSE t[i - Len(s)]
  BY ConcatProperties, LenProperties
<1>2. ASSUME NEW i \in 1..Len(s) + Len(t) PROVE u[i] = (s \o t)[i]
  <2>1. CASE i <= Len(s)
    <3>1. i \in 1..Len(s)
      BY <1>1, <2>1
    <3> QED BY <1>1, <2>1, <3>1
  <2>2. CASE ~(i <= Len(s))
    <3>1. i - Len(s) \in 1..Len(t) /\ Len(s) + (i - Len(s)) = i
      BY <1>1, <2>2
    <3>2. u[i] = t[i - Len(s)]
      BY <3>1
    <3> QED BY <1>1, <2>2, <3>2
  <2> QED BY <2>1, <2>2
<1> QED BY <1>1, <1>2, SeqEqual

\* There is such a function, so that CHOOSE has one to choose.
LEMMA FlatToExists ==
    ASSUME NEW S, NEW ss \in Seq(Seq(S))
    PROVE  \E f \in [1..Len(ss) -> Seq(S)] :
               f = [i \in 1..Len(ss) |-> IF i = 1 THEN ss[i] ELSE f[i - 1] \o ss[i]]
<1> DEFINE Upto(f, n) == \A i \in 1..n : f[i] = IF i = 1 THEN ss[i] ELSE f[i - 1] \o ss[i]
           T == {n \in Nat : n <= Len(ss) => \E f \in [1..n -> Seq(S)] : Upto(f, n)}
<1>0. Len(ss) \in Nat /\ \A i \in 1..Len(ss) : ss[i] \in Seq(S)
  BY ElementOfSeq, LenProperties
<1>1. 0 \in T
  <2> DEFINE e == [i \in 1..0 |-> <<>>]
  <2>1. e \in [1..0 -> Seq(S)] /\ Upto(e, 0)
    OBVIOUS
  <2> HIDE DEF Upto, e
  <2> QED BY <2>1
<1>2. ASSUME NEW n \in T PROVE n + 1 \in T
  <2>1. SUFFICES ASSUME n + 1 <= Len(ss) PROVE \E g \in [1..n + 1 -> Seq(S)] : Upto(g, n + 1)
    <3> HIDE DEF Upto
    <3> QED OBVIOUS
  <2>2. PICK f \in [1..n -> Seq(S)] : Upto(f, n)
    <3> HIDE DEF Upto
    <3>1. n \in Nat /\ n <= Len(ss)
      BY <2>1, <1>0
    <3> QED BY <3>1
  <2> DEFINE last == IF n = 0 THEN ss[1] ELSE f[n] \o ss[n + 1]
             g == [i \in 1..n + 1 |-> IF i = n + 1 THEN last ELSE f[i]]
  <2>3. last \in Seq(S)
    <3>1. CASE n = 0
      BY <3>1, <1>0, <2>1
    <3>2. CASE n # 0
      <4>1. f[n] \in Seq(S) /\ ss[n + 1] \in Seq(S)
        BY <3>2, <1>0, <2>1, <2>2
      <4>2. f[n] \o ss[n + 1] \in Seq(S)
        BY <4>1, ConcatProperties
      <4> QED BY <3>2, <4>2
    <3> QED BY <3>1, <3>2
  <2>4. g \in [1..n + 1 -> Seq(S)]
    <3> HIDE DEF last
    <3> QED BY <2>2, <2>3
  <2>5. ASSUME NEW i \in 1..n + 1
        PROVE  g[i] = IF i = 1 THEN ss[i] ELSE g[i - 1] \o ss[i]
    <3>0. n \in Nat
      OBVIOUS
    <3> HIDE DEF T
    <3>1. CASE i = n + 1 /\ n = 0
      BY <3>1
    <3>2. CASE i = n + 1 /\ n # 0
      <4>1. i # 1 /\ i - 1 = n /\ n \in 1..n + 1 /\ n # n + 1
        BY <3>0, <3>2
      <4>2. g[i] = f[n] \o ss[n + 1] /\ g[n] = f[n]
        BY <3>2, <4>1
      <4> QED BY <3>2, <4>1, <4>2
    <3>3. CASE i \in 1..n
      <4>1. i # n + 1 /\ (i # 1 => i - 1 \in 1..n + 1 /\ i - 1 # n + 1)
        BY <3>0, <3>3
      <4>2. g[i] = f[i] /\ (i # 1 => g[i - 1] = f[i - 1])
        BY <4>1
      <4>3. f[i] = IF i = 1 THEN ss[i] ELSE f[i - 1] \o ss[i]
        BY <2>2, <3>3
      <4> HIDE DEF g
      <4> QED BY <4>2, <4>3
    <3> QED BY <3>0, <3>1, <3>2, <3>3
  <2> QED BY <2>4, <2>5
<1>3. T = Nat
  <2>1. T \subseteq Nat
    OBVIOUS
  <2> HIDE DEF T
  <2> QED BY <2>1, <1>1, <1>2, SetInduction
<1>4. PICK f \in [1..Len(ss) -> Seq(S)] : Upto(f, Len(ss))
  <2>1. Len(ss) \in T
    BY <1>0, <1>3
  <2> HIDE DEF Upto
  <2> QED BY <2>1
<1>5. f = [i \in 1..Len(ss) |-> IF i = 1 THEN ss[i] ELSE f[i - 1] \o ss[i]]
  BY <1>4
<1> QED BY <1>5

LEMMA FlatToEquations ==
    ASSUME NEW S, NEW ss \in Seq(Seq(S))
    PROVE  FlatTo(ss) = [i \in 1..Len(ss) |-> IF i = 1 THEN ss[i] ELSE FlatTo(ss)[i - 1] \o ss[i]]
<1> DEFINE Flattens(f) == f = [i \in 1..Len(ss) |-> IF i = 1 THEN ss[i] ELSE f[i - 1] \o ss[i]]
<1>1. FlatTo(ss) = CHOOSE f : Flattens(f)
  BY DEF FlatTo
<1>2. \E f : Flattens(f)
  <2>1. PICK f \in [1..Len(ss) -> Seq(S)] : Flattens(f)
    BY FlatToExists
  <2> HIDE DEF Flattens
  <2> QED BY <2>1
<1>3. Flattens(CHOOSE f : Flattens(f))
  <2> HIDE DEF Flattens
  <2> QED BY <1>2
<1> QED BY <1>1, <1>3

\* The first n of the sequences, flattened.
First(ss, n) == IF n = 0 THEN <<>> ELSE FlatTo(ss)[n]

\* The first n of them, one by one.
LEMMA FirstIs ==
    ASSUME NEW S, NEW ss \in Seq(Seq(S))
    PROVE  /\ First(ss, 0) = <<>>
           /\ \A n \in Nat : n + 1 <= Len(ss) =>
                  ss[n + 1] \in Seq(S) /\ First(ss, n + 1) = First(ss, n) \o ss[n + 1]
           /\ \A n \in 0..Len(ss) : First(ss, n) \in Seq(S)
<1> DEFINE f == FlatTo(ss)
           T == {n \in Nat : n <= Len(ss) => First(ss, n) \in Seq(S)}
<1>0. Len(ss) \in Nat /\ \A i \in 1..Len(ss) : ss[i] \in Seq(S)
  BY ElementOfSeq, LenProperties
<1>1. f = [i \in 1..Len(ss) |-> IF i = 1 THEN ss[i] ELSE f[i - 1] \o ss[i]]
  BY FlatToEquations
<1> HIDE DEF f
<1>2. ASSUME NEW n \in Nat, n + 1 <= Len(ss)
      PROVE  ss[n + 1] \in Seq(S) /\ First(ss, n + 1) = First(ss, n) \o ss[n + 1]
  <2>1. n + 1 \in 1..Len(ss) /\ (n + 1) - 1 = n /\ ss[n + 1] \in Seq(S)
    BY <1>0, <1>2
  <2>2. f[n + 1] = IF n + 1 = 1 THEN ss[n + 1] ELSE f[(n + 1) - 1] \o ss[n + 1]
    BY <1>1, <2>1
  <2>3. CASE n = 0
    <3>1. <<>> \o ss[n + 1] = ss[n + 1]
      BY <2>1, ConcatEmptySeq
    <3> QED BY <2>1, <2>2, <2>3, <3>1 DEF First, f
  <2>4. CASE n # 0
    <3>1. n + 1 # 1 /\ n + 1 # 0
      BY <2>4
    <3> QED BY <2>1, <2>2, <2>4, <3>1 DEF First, f
  <2> QED BY <2>3, <2>4
<1>3. 0 \in T
  BY EmptySeq DEF First
<1>4. ASSUME NEW n \in T PROVE n + 1 \in T
  <2>1. SUFFICES ASSUME n + 1 <= Len(ss) PROVE First(ss, n + 1) \in Seq(S)
    OBVIOUS
  <2>2. First(ss, n) \in Seq(S) /\ n \in Nat
    BY <1>0, <2>1
  <2>3. First(ss, n) \o ss[n + 1] \in Seq(S)
    BY <1>2, <2>1, <2>2, ConcatProperties
  <2> QED BY <1>2, <2>1, <2>2, <2>3
<1>5. T = Nat
  <2>1. T \subseteq Nat
    OBVIOUS
  <2> HIDE DEF T
  <2> QED BY <2>1, <1>3, <1>4, SetInduction
<1>6. First(ss, 0) = <<>>
  BY DEF First
<1>7. ASSUME NEW n \in 0..Len(ss) PROVE First(ss, n) \in Seq(S)
  <2>1. n \in T /\ n <= Len(ss)
    BY <1>0, <1>5
  <2> QED BY <2>1
<1> HIDE DEF T
<1> QED BY <1>2, <1>6, <1>7

LEMMA FlattenSeqFirst ==
    ASSUME NEW S, NEW ss \in Seq(Seq(S))
    PROVE  Seqs!FlattenSeq(ss) = First(ss, Len(ss)) /\ Seqs!FlattenSeq(ss) \in Seq(S)
<1>1. Len(ss) \in Nat /\ (Len(ss) = 0 => ss = <<>>)
  BY LenProperties, EmptySeq
<1>2. Seqs!FlattenSeq(ss) = First(ss, Len(ss))
  BY <1>1, FlattenSeqIs DEF First
<1>3. First(ss, Len(ss)) \in Seq(S)
  BY <1>1, FirstIs
<1> QED BY <1>2, <1>3

\* Flattening a concatenation concatenates what flattening its parts gives.
LEMMA FlattenConcat ==
    ASSUME NEW S, NEW ss \in Seq(Seq(S)), NEW tt \in Seq(Seq(S))
    PROVE  Seqs!FlattenSeq(ss \o tt) = Seqs!FlattenSeq(ss) \o Seqs!FlattenSeq(tt)
<1> DEFINE uu == ss \o tt
           l == Len(ss)
           T == {n \in Nat : n <= l => First(uu, n) = First(ss, n)}
           U == {n \in Nat : n <= Len(tt) => First(uu, l + n) = First(ss, l) \o First(tt, n)}
<1>0. \A a, b, c \in Seq(S) : (a \o b) \o c = a \o (b \o c)
  <2> HIDE DEF uu, l, T, U
  <2> QED BY Regrouped, SMTT(30)
<1>1. /\ l \in Nat /\ Len(tt) \in Nat
      /\ uu \in Seq(Seq(S)) /\ Len(uu) = l + Len(tt)
      /\ \A i \in 1..l : uu[i] = ss[i]
      /\ \A i \in 1..Len(tt) : uu[l + i] = tt[i]
  <2>1. l \in Nat /\ Len(tt) \in Nat
    BY LenProperties
  <2>2. /\ uu \in Seq(Seq(S)) /\ Len(uu) = l + Len(tt)
        /\ \A i \in 1..l + Len(tt) : uu[i] = IF i <= l THEN ss[i] ELSE tt[i - l]
    BY ConcatProperties
  <2> HIDE DEF uu, l
  <2>3. ASSUME NEW i \in 1..l PROVE uu[i] = ss[i]
    BY <2>1, <2>2
  <2>4. ASSUME NEW i \in 1..Len(tt) PROVE uu[l + i] = tt[i]
    <3>1. l + i \in 1..l + Len(tt) /\ ~(l + i <= l) /\ (l + i) - l = i
      BY <2>1
    <3> QED BY <2>2, <3>1
  <2> QED BY <2>1, <2>2, <2>3, <2>4
<1> HIDE DEF uu, l
<1>2. T = Nat
  <2>1. 0 \in T
    BY <1>1, FirstIs
  <2>2. ASSUME NEW n \in T PROVE n + 1 \in T
    <3>1. SUFFICES ASSUME n + 1 <= l PROVE First(uu, n + 1) = First(ss, n + 1)
      OBVIOUS
    <3>2. n \in Nat /\ n <= l /\ n + 1 <= Len(uu) /\ n + 1 \in 1..l
      BY <3>1, <1>1
    <3>3. First(uu, n + 1) = First(uu, n) \o uu[n + 1]
      BY <3>2, <1>1, FirstIs
    <3>4. First(ss, n + 1) = First(ss, n) \o ss[n + 1]
      BY <3>1, <3>2, FirstIs DEF l
    <3>5. uu[n + 1] = ss[n + 1]
      BY <3>2, <1>1
    <3>6. First(uu, n) = First(ss, n)
      BY <3>2
    <3> QED BY <3>3, <3>4, <3>5, <3>6
  <2>3. T \subseteq Nat
    OBVIOUS
  <2> HIDE DEF T
  <2> QED BY <2>1, <2>2, <2>3, SetInduction
<1>3. First(ss, l) \in Seq(S) /\ First(uu, l) = First(ss, l)
  BY <1>1, <1>2, FirstIs DEF l
<1>4. U = Nat
  <2>1. 0 \in U
    <3>1. First(tt, 0) = <<>> /\ l + 0 = l
      BY <1>1, FirstIs
    <3>2. First(ss, l) \o <<>> = First(ss, l)
      BY <1>3, ConcatEmptySeq
    <3> QED BY <1>3, <3>1, <3>2
  <2>2. ASSUME NEW n \in U PROVE n + 1 \in U
    <3>1. SUFFICES ASSUME n + 1 <= Len(tt)
                   PROVE  First(uu, l + (n + 1)) = First(ss, l) \o First(tt, n + 1)
      OBVIOUS
    <3>2. /\ n \in Nat /\ n \in 0..Len(tt) /\ n + 1 \in 1..Len(tt)
          /\ l + n \in Nat /\ (l + n) + 1 = l + (n + 1) /\ (l + n) + 1 <= Len(uu)
      BY <3>1, <1>1
    <3>3. First(uu, (l + n) + 1) = First(uu, l + n) \o uu[(l + n) + 1]
      BY <3>2, <1>1, FirstIs
    <3>4. First(tt, n + 1) = First(tt, n) \o tt[n + 1] /\ tt[n + 1] \in Seq(S)
      BY <3>1, <3>2, FirstIs
    <3>5. uu[(l + n) + 1] = tt[n + 1]
      BY <3>2, <1>1
    <3>6. First(uu, l + n) = First(ss, l) \o First(tt, n)
      BY <3>2
    <3>7. First(tt, n) \in Seq(S)
      BY <3>2, FirstIs
    <3>8. (First(ss, l) \o First(tt, n)) \o tt[n + 1] = First(ss, l) \o (First(tt, n) \o tt[n + 1])
      <4>2. First(ss, l) \in Seq(S) /\ First(tt, n) \in Seq(S) /\ tt[n + 1] \in Seq(S)
        BY <1>3, <3>4, <3>7
      <4> HIDE DEF T, U
      <4> QED BY <1>0, <4>2
    <3> QED BY <3>2, <3>3, <3>4, <3>5, <3>6, <3>8
  <2>3. U \subseteq Nat
    OBVIOUS
  <2> HIDE DEF U
  <2> QED BY <2>1, <2>2, <2>3, SetInduction
<1>5. First(uu, Len(uu)) = First(ss, l) \o First(tt, Len(tt))
  <2>1. Len(tt) \in U
    BY <1>1, <1>4
  <2> QED BY <1>1, <2>1
<1>6. Seqs!FlattenSeq(uu) = First(uu, Len(uu))
  BY <1>1, FlattenSeqFirst
<1>7. Seqs!FlattenSeq(ss) = First(ss, l) /\ Seqs!FlattenSeq(tt) = First(tt, Len(tt))
  BY FlattenSeqFirst DEF l
<1> QED BY <1>5, <1>6, <1>7 DEF uu

\* What the images of a text's characters are, one after the other.
Spread(image, text) == Seqs!FlattenSeq([i \in DOMAIN text |-> image[text[i]]])

LEMMA ImagesAre ==
    ASSUME NEW S, NEW R, NEW f \in [S -> Seq(R)], NEW s \in Seq(S)
    PROVE  /\ [i \in DOMAIN s |-> f[s[i]]] \in Seq(Seq(R))
           /\ Len([i \in DOMAIN s |-> f[s[i]]]) = Len(s)
           /\ DOMAIN s = 1..Len(s) /\ Len(s) \in Nat
<1>1. Len(s) \in Nat /\ DOMAIN s = 1..Len(s) /\ \A i \in 1..Len(s) : s[i] \in S
  BY LenProperties, ElementOfSeq
<1>2. \A i \in 1..Len(s) : f[s[i]] \in Seq(R)
  BY <1>1
<1> DEFINE g == [i \in 1..Len(s) |-> f[s[i]]]
<1>3. g \in [1..Len(s) -> Seq(R)]
  BY <1>1, <1>2
<1> HIDE DEF g
<1>4. g \in Seq(Seq(R)) /\ Len(g) = Len(s)
  BY <1>1, <1>3, SeqOfFunction
<1> QED BY <1>1, <1>4 DEF g

\* A translation of texts over S to texts over R: the image of a text is put together of
\* the images of its parts.
Translation(F, S, R) ==
    /\ F \in [Seq(S) -> Seq(R)]
    /\ F[<<>>] = <<>>
    /\ \A s, t \in Seq(S) : F[s \o t] = F[s] \o F[t]

LEMMA SpreadTranslates ==
    ASSUME NEW S, NEW R, NEW f \in [S -> Seq(R)]
    PROVE  /\ Translation([t \in Seq(S) |-> Spread(f, t)], S, R)
           /\ \A c \in S : Spread(f, <<c>>) = f[c]
<1> DEFINE Images(s) == [i \in DOMAIN s |-> f[s[i]]]
<1>0. \A s : Spread(f, s) = Seqs!FlattenSeq(Images(s))
  BY DEF Spread
<1>1. \A s \in Seq(S) : /\ Images(s) \in Seq(Seq(R)) /\ Len(Images(s)) = Len(s)
                         /\ DOMAIN s = 1..Len(s) /\ Len(s) \in Nat
  BY ImagesAre
<1>2. \A s \in Seq(S) : \A i \in 1..Len(s) : Images(s)[i] = f[s[i]]
  BY <1>1
<1> HIDE DEF Images
<1>3. Spread(f, <<>>) = <<>>
  <2>1. <<>> \in Seq(S) /\ Len(<<>>) = 0
    BY EmptySeq
  <2>2. Images(<<>>) \in Seq(Seq(R)) /\ Len(Images(<<>>)) = 0
    BY <1>1, <2>1
  <2>3. Seqs!FlattenSeq(Images(<<>>)) = First(Images(<<>>), 0)
    BY <2>2, FlattenSeqFirst
  <2> QED BY <1>0, <2>3 DEF First
<1>4. ASSUME NEW c \in S PROVE Spread(f, <<c>>) = f[c]
  <2> DEFINE s == <<c>>
             is == Images(s)
  <2>1. s \in Seq(S) /\ Len(s) = 1 /\ s[1] = c
    OBVIOUS
  <2> HIDE DEF s
  <2>2. is \in Seq(Seq(R)) /\ Len(is) = 1 /\ is[1] = f[c]
    BY <1>1, <1>2, <2>1
  <2> HIDE DEF is
  <2>3. Seqs!FlattenSeq(is) = First(is, 1) /\ First(is, 0) = <<>>
    BY <2>2, FlattenSeqFirst, FirstIs
  <2>4. First(is, 1) = First(is, 0) \o is[1]
    <3>1. \A n \in Nat : n + 1 <= Len(is) => First(is, n + 1) = First(is, n) \o is[n + 1]
      BY <2>2, FirstIs
    <3> QED BY <2>2, <3>1, 0 \in Nat, 0 + 1 = 1, 0 + 1 <= 1
  <2>5. <<>> \o f[c] = f[c]
    BY ConcatEmptySeq
  <2>6. Spread(f, s) = f[c]
    BY <1>0, <2>2, <2>3, <2>4, <2>5 DEF is
  <2> QED BY <2>6 DEF s
<1>5. ASSUME NEW s \in Seq(S), NEW t \in Seq(S)
      PROVE  Spread(f, s \o t) = Spread(f, s) \o Spread(f, t)
  <2> DEFINE u == s \o t
             is == Images(s)
             it == Images(t)
             iu == Images(u)
  <2>1. /\ u \in Seq(S) /\ Len(u) = Len(s) + Len(t) /\ Len(s) \in Nat /\ Len(t) \in Nat
        /\ \A i \in 1..Len(s) + Len(t) : u[i] = IF i <= Len(s) THEN s[i] ELSE t[i - Len(s)]
    BY ConcatProperties, LenProperties
  <2> HIDE DEF u
  <2>2. /\ is \in Seq(Seq(R)) /\ it \in Seq(Seq(R)) /\ iu \in Seq(Seq(R))
        /\ Len(is) = Len(s) /\ Len(it) = Len(t) /\ Len(iu) = Len(s) + Len(t)
    BY <1>1, <2>1
  <2>3. /\ \A i \in 1..Len(s) : is[i] = f[s[i]]
        /\ \A i \in 1..Len(t) : it[i] = f[t[i]]
        /\ \A i \in 1..Len(s) + Len(t) : iu[i] = f[u[i]]
    BY <1>2, <2>1
  <2> HIDE DEF is, it, iu
  <2>4. ASSUME NEW i \in 1..Len(s) PROVE iu[i] = is[i]
    <3>1. i \in 1..Len(s) + Len(t) /\ i <= Len(s)
      BY <2>1
    <3> QED BY <2>1, <2>3, <3>1
  <2>5. ASSUME NEW i \in 1..Len(t) PROVE iu[Len(s) + i] = it[i]
    <3>1. Len(s) + i \in 1..Len(s) + Len(t) /\ ~(Len(s) + i <= Len(s)) /\ (Len(s) + i) - Len(s) = i
      BY <2>1
    <3>2. u[Len(s) + i] = t[i]
      BY <2>1, <3>1
    <3>3. iu[Len(s) + i] = f[u[Len(s) + i]] /\ it[i] = f[t[i]]
      BY <2>3, <3>1
    <3> QED BY <3>2, <3>3
  <2>6. iu = is \o it
    <3>1. Chained(is, it, iu)
      BY <2>2, <2>4, <2>5 DEF Chained
    <3> QED BY <2>2, <3>1, IsConcat
  <2>7. Seqs!FlattenSeq(is \o it) = Seqs!FlattenSeq(is) \o Seqs!FlattenSeq(it)
    BY <2>2, FlattenConcat
  <2>8. Spread(f, u) = Spread(f, s) \o Spread(f, t)
    <3>1. Spread(f, u) = Seqs!FlattenSeq(iu)
      BY <1>0 DEF iu
    <3>2. Spread(f, s) = Seqs!FlattenSeq(is)
      BY <1>0 DEF is
    <3>3. Spread(f, t) = Seqs!FlattenSeq(it)
      BY <1>0 DEF it
    <3> QED BY <2>6, <2>7, <3>1, <3>2, <3>3
  <2> QED BY <2>8 DEF u
<1>6. ASSUME NEW s \in Seq(S) PROVE Spread(f, s) \in Seq(R)
  BY <1>0, <1>1, FlattenSeqFirst
<1> DEFINE H == [t \in Seq(S) |-> Spread(f, t)]
<1>7. H \in [Seq(S) -> Seq(R)] /\ H[<<>>] = <<>>
  BY <1>3, <1>6, EmptySeq
<1>8. ASSUME NEW s \in Seq(S), NEW t \in Seq(S) PROVE H[s \o t] = H[s] \o H[t]
  <2>1. s \o t \in Seq(S)
    BY ConcatProperties
  <2>2. Spread(f, s \o t) = Spread(f, s) \o Spread(f, t)
    BY <1>5
  <2> QED BY <2>1, <2>2
<1> HIDE DEF H
<1>9. Translation(H, S, R)
  BY <1>7, <1>8 DEF Translation
<1> QED BY <1>4, <1>9 DEF H

\* A set of texts with the empty one and every longer one has them all.
LEMMA TextInduction ==
    ASSUME NEW S, NEW T \in SUBSET Seq(S), <<>> \in T,
           \A u \in T, c \in S : u \o <<c>> \in T
    PROVE  T = Seq(S)
<1> DEFINE U == {n \in Nat : \A s \in Seq(S) : Len(s) = n => s \in T}
<1>1. 0 \in U
  BY EmptySeq
<1>2. ASSUME NEW n \in U PROVE n + 1 \in U
  <2>0. n \in Nat
    OBVIOUS
  <2>1. ASSUME NEW s \in Seq(S), Len(s) = n + 1 PROVE s \in T
    <3>1. s # <<>>
      BY <2>0, <2>1, EmptySeq
    <3>2. PICK r \in Seq(S), c \in S : s = Append(r, c)
      BY <3>1, SequenceEmptyOrAppend
    <3>3. Len(s) = Len(r) + 1 /\ Len(r) \in Nat /\ s = r \o <<c>>
      BY <3>2, AppendProperties, AppendIsConcat, LenProperties
    <3>4. Len(r) = n
      BY <2>0, <2>1, <3>3
    <3>5. r \in T
      BY <3>4
    <3> QED BY <3>3, <3>5
  <2> QED BY <2>0, <2>1
<1>3. U = Nat
  <2>1. U \subseteq Nat
    OBVIOUS
  <2> HIDE DEF U
  <2> QED BY <2>1, <1>1, <1>2, SetInduction
<1>4. ASSUME NEW s \in Seq(S) PROVE s \in T
  <2>1. Len(s) \in U
    BY <1>3, LenProperties
  <2> QED BY <2>1
<1> QED BY <1>4

-----------------------------------------------------------------------------
(* Escaping *)

Character == STRING \cup {"&", "<", ">", "a", "m", "p", "l", "t", "g", ";", ":", "LF"}

\* The entities are texts.
LEMMA Entities ==
    /\ <<"&", "a", "m", "p", ";">> \in Seq(Character)
    /\ <<"&", "l", "t", ";">> \in Seq(Character)
    /\ <<"&", "g", "t", ";">> \in Seq(Character)
    /\ "&" \in Character /\ "<" \in Character /\ ">" \in Character
BY DEF Character

\* Translations that agree on every character are the same.
LEMMA TranslationsAgree ==
    ASSUME NEW S, NEW R, NEW F, NEW G, Translation(F, S, R), Translation(G, S, R),
           \A c \in S : F[<<c>>] = G[<<c>>]
    PROVE  \A text \in Seq(S) : F[text] = G[text]
<1> DEFINE T == {t \in Seq(S) : F[t] = G[t]}
<1>1. <<>> \in T
  BY EmptySeq DEF Translation
<1>2. ASSUME NEW s \in T, NEW c \in S PROVE s \o <<c>> \in T
  <2>1. s \in Seq(S) /\ F[s] = G[s] /\ <<c>> \in Seq(S)
    OBVIOUS
  <2>2. s \o <<c>> \in Seq(S)
    BY <2>1
  <2>3. F[s \o <<c>>] = F[s] \o F[<<c>>]
    BY <2>1 DEF Translation
  <2>4. G[s \o <<c>>] = G[s] \o G[<<c>>]
    BY <2>1 DEF Translation
  <2> QED BY <2>1, <2>2, <2>3, <2>4
<1>3. T = Seq(S)
  <2>1. T \subseteq Seq(S)
    OBVIOUS
  <2> HIDE DEF T
  <2> QED BY <1>1, <1>2, <2>1, TextInduction
<1> QED BY <1>3

\* One translation after another is one.
LEMMA TranslationsCompose ==
    ASSUME NEW S, NEW R, NEW Q, NEW F, NEW G, Translation(F, S, R), Translation(G, R, Q)
    PROVE  Translation([t \in Seq(S) |-> G[F[t]]], S, Q)
<1> DEFINE H == [t \in Seq(S) |-> G[F[t]]]
<1>1. H \in [Seq(S) -> Seq(Q)]
  BY DEF Translation
<1>2. H[<<>>] = <<>>
  BY EmptySeq DEF Translation
<1>3. ASSUME NEW s \in Seq(S), NEW t \in Seq(S) PROVE H[s \o t] = H[s] \o H[t]
  <2>1. s \o t \in Seq(S)
    BY ConcatProperties
  <2>2. F[s] \in Seq(R) /\ F[t] \in Seq(R) /\ F[s \o t] = F[s] \o F[t]
    BY DEF Translation
  <2>3. G[F[s] \o F[t]] = G[F[s]] \o G[F[t]]
    BY <2>2 DEF Translation
  <2> QED BY <2>1, <2>2, <2>3
<1> HIDE DEF H
<1>4. Translation(H, S, Q)
  BY <1>1, <1>2, <1>3 DEF Translation
<1> QED BY <1>4 DEF H

\* ReplaceAll is a translation.
ReplacedIn(char, entity) == [t \in Seq(Character) |-> Replaced(t, char, entity)]

LEMMA ReplacedTranslates ==
    ASSUME NEW char, NEW entity \in Seq(Character)
    PROVE  /\ Translation(ReplacedIn(char, entity), Character, Character)
           /\ \A c \in Character : Replaced(<<c>>, char, entity) = IF c = char THEN entity ELSE <<c>>
<1> DEFINE f == [c \in Character |-> IF c = char THEN entity ELSE <<c>>]
<1>1. f \in [Character -> Seq(Character)]
  <2>1. ASSUME NEW c \in Character PROVE <<c>> \in Seq(Character)
    OBVIOUS
  <2> QED BY <2>1
<1>2. ASSUME NEW s \in Seq(Character) PROVE Replaced(s, char, entity) = Spread(f, s)
  <2>1. \A i \in DOMAIN s : s[i] \in Character
    BY ElementOfSeq, LenProperties
  <2>2. [i \in DOMAIN s |-> IF s[i] = char THEN entity ELSE <<s[i]>>] = [i \in DOMAIN s |-> f[s[i]]]
    BY <2>1
  <2> HIDE DEF f
  <2> QED BY <2>2 DEF Replaced, Spread
<1>3. \A c \in Character : f[c] = IF c = char THEN entity ELSE <<c>>
  OBVIOUS
<1> HIDE DEF f
<1>4. /\ Translation([t \in Seq(Character) |-> Spread(f, t)], Character, Character)
      /\ \A c \in Character : Spread(f, <<c>>) = f[c]
  BY <1>1, SpreadTranslates
<1>5. ReplacedIn(char, entity) = [t \in Seq(Character) |-> Spread(f, t)]
  BY <1>2 DEF ReplacedIn
<1>6. \A c \in Character : <<c>> \in Seq(Character)
  OBVIOUS
<1>7. ASSUME NEW c \in Character PROVE Replaced(<<c>>, char, entity) = IF c = char THEN entity ELSE <<c>>
  BY <1>2, <1>3, <1>4, <1>6
<1> QED BY <1>4, <1>5, <1>7

\* A text without the character stays as it is.
LEMMA NothingReplaced ==
    ASSUME NEW char, NEW entity \in Seq(Character)
    PROVE  \A text \in Seq(Character) :
               (\A i \in DOMAIN text : text[i] # char) => Replaced(text, char, entity) = text
<1> DEFINE F == ReplacedIn(char, entity)
           Absent(t) == \A i \in DOMAIN t : t[i] # char
           T == {t \in Seq(Character) : Absent(t) => F[t] = t}
<1>1. /\ Translation(F, Character, Character)
      /\ \A c \in Character : Replaced(<<c>>, char, entity) = IF c = char THEN entity ELSE <<c>>
  BY ReplacedTranslates
<1>2. \A t \in Seq(Character) : F[t] = Replaced(t, char, entity)
  BY DEF ReplacedIn
<1> HIDE DEF F
<1>3. <<>> \in T
  BY <1>1, EmptySeq DEF Translation
<1>4. ASSUME NEW s \in T, NEW c \in Character PROVE s \o <<c>> \in T
  <2>1. s \in Seq(Character) /\ (Absent(s) => F[s] = s)
    OBVIOUS
  <2> HIDE DEF T
  <2>2. /\ s \o <<c>> \in Seq(Character) /\ Len(s \o <<c>>) = Len(s) + 1 /\ Len(s) \in Nat
        /\ DOMAIN s = 1..Len(s) /\ DOMAIN (s \o <<c>>) = 1..Len(s) + 1
        /\ \A i \in 1..Len(s) : (s \o <<c>>)[i] = s[i]
        /\ (s \o <<c>>)[Len(s) + 1] = c
    BY <2>1
  <2>3. ASSUME Absent(s \o <<c>>) PROVE F[s \o <<c>>] = s \o <<c>>
    <3>1. Absent(s) /\ c # char
      BY <2>2, <2>3
    <3>2. <<c>> \in Seq(Character)
      OBVIOUS
    <3>3. F[s \o <<c>>] = F[s] \o F[<<c>>]
      BY <1>1, <2>1, <3>2 DEF Translation
    <3>4. F[<<c>>] = <<c>>
      BY <1>1, <1>2, <3>1, <3>2
    <3> QED BY <2>1, <3>1, <3>3, <3>4
  <2> QED BY <2>2, <2>3 DEF T
<1>5. T = Seq(Character)
  <2>1. T \subseteq Seq(Character)
    OBVIOUS
  <2> HIDE DEF T
  <2> QED BY <1>3, <1>4, <2>1, TextInduction
<1> QED BY <1>2, <1>5

\* The three entities have none of the characters that are replaced after them.
LEMMA EntitiesStay ==
    /\ Replaced(<<"&", "a", "m", "p", ";">>, "<", <<"&", "l", "t", ";">>) = <<"&", "a", "m", "p", ";">>
    /\ Replaced(<<"&", "a", "m", "p", ";">>, ">", <<"&", "g", "t", ";">>) = <<"&", "a", "m", "p", ";">>
    /\ Replaced(<<"&", "l", "t", ";">>, ">", <<"&", "g", "t", ";">>) = <<"&", "l", "t", ";">>
<1> DEFINE amp == <<"&", "a", "m", "p", ";">>
           lt  == <<"&", "l", "t", ";">>
           gt  == <<"&", "g", "t", ";">>
<1>3. amp \in Seq(Character) /\ lt \in Seq(Character) /\ gt \in Seq(Character)
  BY Entities
<1>1. /\ DOMAIN amp = 1..5 /\ amp[1] = "&" /\ amp[2] = "a" /\ amp[3] = "m" /\ amp[4] = "p" /\ amp[5] = ";"
      /\ DOMAIN lt = 1..4 /\ lt[1] = "&" /\ lt[2] = "l" /\ lt[3] = "t" /\ lt[4] = ";"
  OBVIOUS
<1>2. \A i : (i \in 1..5 => i \in {1, 2, 3, 4, 5}) /\ (i \in 1..4 => i \in {1, 2, 3, 4})
  OBVIOUS
<1>4. /\ \A i \in DOMAIN amp : amp[i] # "<"
      /\ \A i \in DOMAIN amp : amp[i] # ">"
      /\ \A i \in DOMAIN lt : lt[i] # ">"
  <2> HIDE DEF amp, lt, gt
  <2>1. ASSUME NEW i \in DOMAIN amp PROVE amp[i] \in {"&", "a", "m", "p", ";"}
    <3>1. i \in {1, 2, 3, 4, 5}
      BY <1>1, <1>2
    <3> QED BY <1>1, <3>1
  <2>2. ASSUME NEW i \in DOMAIN lt PROVE lt[i] \in {"&", "l", "t", ";"}
    <3>1. i \in {1, 2, 3, 4}
      BY <1>1, <1>2
    <3> QED BY <1>1, <3>1
  <2> QED BY <2>1, <2>2
<1> HIDE DEF amp, lt, gt
<1>5. /\ Replaced(amp, "<", lt) = amp
      /\ Replaced(amp, ">", gt) = amp
      /\ Replaced(lt, ">", gt) = lt
  BY <1>3, <1>4, NothingReplaced
<1> QED BY <1>5 DEF amp, lt, gt

EscapeIn == [t \in Seq(Character) |-> EscapeSlackMarkup(t)]

\* Escaping is a translation, which shows each character as it is to be shown.
LEMMA EscapeTranslates ==
    /\ Translation(EscapeIn, Character, Character)
    /\ \A c \in Character : EscapeSlackMarkup(<<c>>) =
           CASE c = "&" -> <<"&", "a", "m", "p", ";">>
             [] c = "<" -> <<"&", "l", "t", ";">>
             [] c = ">" -> <<"&", "g", "t", ";">>
             [] OTHER -> <<c>>
<1> DEFINE amp == <<"&", "a", "m", "p", ";">>
           lt  == <<"&", "l", "t", ";">>
           gt  == <<"&", "g", "t", ";">>
           A == ReplacedIn("&", amp)
           L == ReplacedIn("<", lt)
           G == ReplacedIn(">", gt)
           LA == [t \in Seq(Character) |-> L[A[t]]]
           GLA == [t \in Seq(Character) |-> G[LA[t]]]
<1>1. amp \in Seq(Character) /\ lt \in Seq(Character) /\ gt \in Seq(Character)
  BY Entities
<1>2. Replaced(amp, "<", lt) = amp /\ Replaced(amp, ">", gt) = amp /\ Replaced(lt, ">", gt) = lt
  BY EntitiesStay
<1>3. \A t : EscapeSlackMarkup(t) = Replaced(Replaced(Replaced(t, "&", amp), "<", lt), ">", gt)
  BY DEF EscapeSlackMarkup
<1> HIDE DEF amp, lt, gt
<1>4. /\ Translation(A, Character, Character)
      /\ \A c \in Character : Replaced(<<c>>, "&", amp) = IF c = "&" THEN amp ELSE <<c>>
  BY <1>1, ReplacedTranslates
<1>5. /\ Translation(L, Character, Character)
      /\ \A c \in Character : Replaced(<<c>>, "<", lt) = IF c = "<" THEN lt ELSE <<c>>
  BY <1>1, ReplacedTranslates
<1>6. /\ Translation(G, Character, Character)
      /\ \A c \in Character : Replaced(<<c>>, ">", gt) = IF c = ">" THEN gt ELSE <<c>>
  BY <1>1, ReplacedTranslates
<1>7. \A t \in Seq(Character) : /\ A[t] = Replaced(t, "&", amp)
                                /\ L[t] = Replaced(t, "<", lt)
                                /\ G[t] = Replaced(t, ">", gt)
  BY DEF ReplacedIn
<1> HIDE DEF A, L, G
<1>8. Translation(LA, Character, Character)
  BY <1>4, <1>5, TranslationsCompose
<1>9. \A t \in Seq(Character) : LA[t] = L[A[t]] /\ A[t] \in Seq(Character) /\ LA[t] \in Seq(Character)
  BY <1>4, <1>5 DEF Translation
<1> HIDE DEF LA
<1>10. Translation(GLA, Character, Character)
  BY <1>6, <1>8, TranslationsCompose
<1>11. \A t \in Seq(Character) : GLA[t] = EscapeSlackMarkup(t)
  BY <1>3, <1>7, <1>9
<1>12. EscapeIn = GLA
  BY <1>11 DEF EscapeIn
<1>13. ASSUME NEW c \in Character
       PROVE  EscapeSlackMarkup(<<c>>) = CASE c = "&" -> amp [] c = "<" -> lt [] c = ">" -> gt [] OTHER -> <<c>>
  <2>1. CASE c = "&"
    <3>1. Replaced(<<c>>, "&", amp) = amp
      BY <1>4, <2>1
    <3>2. EscapeSlackMarkup(<<c>>) = amp
      BY <1>2, <1>3, <3>1
    <3> QED BY <2>1, <3>2
  <2>2. CASE c = "<"
    <3>1. Replaced(<<c>>, "&", amp) = <<c>> /\ Replaced(<<c>>, "<", lt) = lt
      BY <1>4, <1>5, <2>2
    <3>2. EscapeSlackMarkup(<<c>>) = lt
      BY <1>2, <1>3, <3>1
    <3> QED BY <2>2, <3>2
  <2>3. CASE c = ">"
    <3>1. Replaced(<<c>>, "&", amp) = <<c>> /\ Replaced(<<c>>, "<", lt) = <<c>> /\ Replaced(<<c>>, ">", gt) = gt
      BY <1>4, <1>5, <1>6, <2>3
    <3>2. EscapeSlackMarkup(<<c>>) = gt
      BY <1>3, <3>1
    <3> QED BY <2>3, <3>2
  <2>4. CASE c \notin {"&", "<", ">"}
    <3>1. Replaced(<<c>>, "&", amp) = <<c>> /\ Replaced(<<c>>, "<", lt) = <<c>> /\ Replaced(<<c>>, ">", gt) = <<c>>
      BY <1>4, <1>5, <1>6, <2>4
    <3>2. EscapeSlackMarkup(<<c>>) = <<c>>
      BY <1>3, <3>1
    <3> QED BY <2>4, <3>2
  <2> QED BY <2>1, <2>2, <2>3, <2>4
<1> QED BY <1>10, <1>12, <1>13 DEF amp, lt, gt

\* Removing the control characters is a translation.
SanitizeIn == [t \in Seq(Character) |-> Sanitize(t)]

LEMMA SanitizeTranslates ==
    /\ Translation(SanitizeIn, Character, Character)
    /\ \A c \in Character : Sanitize(<<c>>) = IF c \in Control THEN <<>> ELSE <<c>>
<1> DEFINE f == [c \in Character |-> IF c \in Control THEN <<>> ELSE <<c>>]
<1>1. f \in [Character -> Seq(Character)]
  <2>1. ASSUME NEW c \in Character PROVE <<c>> \in Seq(Character) /\ <<>> \in Seq(Character)
    OBVIOUS
  <2> QED BY <2>1
<1>2. ASSUME NEW s \in Seq(Character) PROVE Sanitize(s) = Spread(f, s)
  <2>1. \A i \in DOMAIN s : s[i] \in Character
    BY ElementOfSeq, LenProperties
  <2>2. [i \in DOMAIN s |-> IF s[i] \in Control THEN <<>> ELSE <<s[i]>>] = [i \in DOMAIN s |-> f[s[i]]]
    BY <2>1
  <2> HIDE DEF f
  <2> QED BY <2>2 DEF Sanitize, Spread
<1>3. \A c \in Character : f[c] = IF c \in Control THEN <<>> ELSE <<c>>
  OBVIOUS
<1> HIDE DEF f
<1>4. /\ Translation([t \in Seq(Character) |-> Spread(f, t)], Character, Character)
      /\ \A c \in Character : Spread(f, <<c>>) = f[c]
  BY <1>1, SpreadTranslates
<1>5. SanitizeIn = [t \in Seq(Character) |-> Spread(f, t)]
  BY <1>2 DEF SanitizeIn
<1>6. \A c \in Character : <<c>> \in Seq(Character)
  OBVIOUS
<1>7. ASSUME NEW c \in Character PROVE Sanitize(<<c>>) = IF c \in Control THEN <<>> ELSE <<c>>
  BY <1>2, <1>3, <1>4, <1>6
<1> QED BY <1>4, <1>5, <1>7

\* So is showing each character as it is to be shown.
ShownIn == [t \in Seq(Character) |-> ShownText(t)]

LEMMA ShownTranslates ==
    /\ Translation(ShownIn, Character, Character)
    /\ \A c \in Character : ShownText(<<c>>) = Shown(c)
<1> DEFINE f == [c \in Character |-> Shown(c)]
<1>1. f \in [Character -> Seq(Character)]
  <2>1. ASSUME NEW c \in Character PROVE Shown(c) \in Seq(Character)
    <3>1. <<c>> \in Seq(Character) /\ <<>> \in Seq(Character)
      OBVIOUS
    <3> QED BY <3>1, Entities DEF Shown
  <2> QED BY <2>1
<1>2. ASSUME NEW s \in Seq(Character) PROVE ShownText(s) = Spread(f, s)
  <2>1. \A i \in DOMAIN s : s[i] \in Character
    BY ElementOfSeq, LenProperties
  <2>2. [i \in DOMAIN s |-> Shown(s[i])] = [i \in DOMAIN s |-> f[s[i]]]
    BY <2>1
  <2> HIDE DEF f
  <2> QED BY <2>2 DEF ShownText, Spread
<1>3. \A c \in Character : f[c] = Shown(c)
  OBVIOUS
<1> HIDE DEF f
<1>4. /\ Translation([t \in Seq(Character) |-> Spread(f, t)], Character, Character)
      /\ \A c \in Character : Spread(f, <<c>>) = f[c]
  BY <1>1, SpreadTranslates
<1>5. ShownIn = [t \in Seq(Character) |-> Spread(f, t)]
  BY <1>2 DEF ShownIn
<1>6. \A c \in Character : <<c>> \in Seq(Character)
  OBVIOUS
<1>7. ASSUME NEW c \in Character PROVE ShownText(<<c>>) = Shown(c)
  BY <1>2, <1>3, <1>4, <1>6
<1> QED BY <1>4, <1>5, <1>7

\* Removing, then replacing three times one after the other, shows each character as it is
\* to be shown, once: for every text.
LEMMA SanitizedIsShown ==
    \A text \in Seq(Character) :
        SanitizeForPayload(text) = ShownText(text) /\ ShownText(text) \in Seq(Character)
<1> DEFINE H == [t \in Seq(Character) |-> EscapeIn[SanitizeIn[t]]]
<1>1. Translation(H, Character, Character)
  BY EscapeTranslates, SanitizeTranslates, TranslationsCompose
<1>2. \A t \in Seq(Character) : H[t] = SanitizeForPayload(t)
  <2>1. \A t \in Seq(Character) : SanitizeIn[t] = Sanitize(t) /\ SanitizeIn[t] \in Seq(Character)
    BY SanitizeTranslates DEF SanitizeIn, Translation
  <2>2. \A t \in Seq(Character) : EscapeIn[t] = EscapeSlackMarkup(t)
    BY DEF EscapeIn
  <2> QED BY <2>1, <2>2 DEF SanitizeForPayload
<1> HIDE DEF H
<1>3. \A t \in Seq(Character) : ShownIn[t] = ShownText(t) /\ ShownIn[t] \in Seq(Character)
  BY ShownTranslates DEF ShownIn, Translation
<1>4. ASSUME NEW c \in Character PROVE SanitizeForPayload(<<c>>) = ShownText(<<c>>)
  <2>1. ShownText(<<c>>) = Shown(c)
    BY ShownTranslates
  <2>2. CASE c \in Control
    <3>1. Sanitize(<<c>>) = <<>>
      BY <2>2, SanitizeTranslates
    <3>2. EscapeSlackMarkup(<<>>) = <<>>
      <4>1. <<>> \in Seq(Character) /\ EscapeIn[<<>>] = <<>>
        BY EscapeTranslates, EmptySeq DEF Translation
      <4> QED BY <4>1 DEF EscapeIn
    <3>3. Shown(c) = <<>>
      BY <2>2, PayloadAssumption DEF Shown
    <3> QED BY <2>1, <3>1, <3>2, <3>3 DEF SanitizeForPayload
  <2>3. CASE c \notin Control
    <3>1. Sanitize(<<c>>) = <<c>>
      BY <2>3, SanitizeTranslates
    <3>2. EscapeSlackMarkup(<<c>>) = Shown(c)
      BY <2>3, EscapeTranslates DEF Shown
    <3> QED BY <2>1, <3>1, <3>2 DEF SanitizeForPayload
  <2> QED BY <2>2, <2>3
<1>5. \A c \in Character : H[<<c>>] = ShownIn[<<c>>]
  <2>1. \A c \in Character : <<c>> \in Seq(Character)
    OBVIOUS
  <2> QED BY <1>2, <1>3, <1>4, <2>1
<1>6. \A t \in Seq(Character) : H[t] = ShownIn[t]
  BY <1>1, <1>5, ShownTranslates, TranslationsAgree
<1> QED BY <1>2, <1>3, <1>6

-----------------------------------------------------------------------------
(* Truncating *)

Byte == [char : Character, k : 1..3]

\* Bytes of characters, each at its place in one of them, and every character whole.
Runes(bytes) ==
    /\ WholeRunes(bytes)
    /\ \A i \in 1..Len(bytes) : bytes[i].k \in 1..Width(bytes[i].char)

\* Whole runes after whole runes.
LEMMA RunesConcat ==
    ASSUME NEW u \in Seq(Byte), NEW v \in Seq(Byte), Runes(u), Runes(v)
    PROVE  Runes(u \o v)
<1> DEFINE w == u \o v
<1>1. /\ Len(u) \in Nat /\ Len(v) \in Nat /\ w \in Seq(Byte) /\ Len(w) = Len(u) + Len(v)
      /\ DOMAIN u = 1..Len(u) /\ DOMAIN v = 1..Len(v) /\ DOMAIN w = 1..Len(w)
      /\ \A i \in 1..Len(u) + Len(v) : w[i] = IF i <= Len(u) THEN u[i] ELSE v[i - Len(u)]
  BY ConcatProperties, LenProperties
<1> HIDE DEF w
<1>2. \A i \in 1..Len(u) : w[i] = u[i] /\ i \in 1..Len(w)
  BY <1>1
<1>3. \A i \in 1..Len(v) : w[Len(u) + i] = v[i] /\ Len(u) + i \in 1..Len(w)
  <2> TAKE i \in 1..Len(v)
  <2>1. Len(u) + i \in 1..Len(u) + Len(v) /\ ~(Len(u) + i <= Len(u)) /\ (Len(u) + i) - Len(u) = i
    BY <1>1
  <2> QED BY <1>1, <2>1
<1>4. ASSUME NEW i \in 1..Len(w)
      PROVE  /\ w[i].k \in 1..Width(w[i].char)
             /\ w[i].k > 1 => i > 1 /\ w[i - 1] = [char |-> w[i].char, k |-> w[i].k - 1]
             /\ w[i].k < Width(w[i].char) =>
                    i < Len(w) /\ w[i + 1] = [char |-> w[i].char, k |-> w[i].k + 1]
  <2>1. CASE i \in 1..Len(u)
    <3>1. w[i] = u[i]
      BY <1>2, <2>1
    <3>2. /\ u[i].k \in 1..Width(u[i].char)
          /\ u[i].k > 1 => i > 1 /\ u[i - 1] = [char |-> u[i].char, k |-> u[i].k - 1]
          /\ u[i].k < Width(u[i].char) =>
                 i < Len(u) /\ u[i + 1] = [char |-> u[i].char, k |-> u[i].k + 1]
      BY <1>1, <2>1 DEF Runes, WholeRunes
    <3>3. i > 1 => i - 1 \in 1..Len(u)
      BY <1>1, <2>1
    <3>4. i < Len(u) => i + 1 \in 1..Len(u) /\ i < Len(w)
      BY <1>1, <2>1
    <3> QED BY <1>2, <3>1, <3>2, <3>3, <3>4
  <2>2. CASE i \notin 1..Len(u)
    <3> DEFINE j == i - Len(u)
    <3>0. j \in 1..Len(v) /\ i = Len(u) + j
      BY <1>1, <2>2
    <3> HIDE DEF j
    <3>1. w[i] = v[j]
      BY <1>3, <3>0
    <3>2. /\ v[j].k \in 1..Width(v[j].char)
          /\ v[j].k > 1 => j > 1 /\ v[j - 1] = [char |-> v[j].char, k |-> v[j].k - 1]
          /\ v[j].k < Width(v[j].char) =>
                 j < Len(v) /\ v[j + 1] = [char |-> v[j].char, k |-> v[j].k + 1]
      BY <1>1, <3>0 DEF Runes, WholeRunes
    <3>3. j > 1 => w[i - 1] = v[j - 1] /\ i > 1
      <4>1. j > 1 => j - 1 \in 1..Len(v) /\ Len(u) + (j - 1) = i - 1 /\ i > 1
        BY <1>1, <3>0
      <4> QED BY <1>3, <4>1
    <3>4. j < Len(v) => w[i + 1] = v[j + 1] /\ i < Len(w)
      <4>1. j < Len(v) => j + 1 \in 1..Len(v) /\ Len(u) + (j + 1) = i + 1 /\ i < Len(w)
        BY <1>1, <3>0
      <4> QED BY <1>3, <4>1
    <3> QED BY <3>1, <3>2, <3>3, <3>4
  <2> QED BY <2>1, <2>2
<1>5. Runes(w)
  BY <1>1, <1>4 DEF Runes, WholeRunes
<1> QED BY <1>5 DEF w

BytesIn == [t \in Seq(Character) |-> Bytes(t)]

\* The bytes of a text are those of its characters, each in full.
LEMMA BytesAreRunes ==
    \A text \in Seq(Character) : Bytes(text) \in Seq(Byte) /\ Runes(Bytes(text))
<1> DEFINE f == [c \in Character |-> [k \in 1..Width(c) |-> [char |-> c, k |-> k]]]
<1>1. ASSUME NEW c \in Character
      PROVE  /\ f[c] \in Seq(Byte) /\ Len(f[c]) = Width(c) /\ DOMAIN f[c] = 1..Len(f[c])
             /\ \A k \in 1..Width(c) : f[c][k] = [char |-> c, k |-> k]
  <2> DEFINE g == [k \in 1..Width(c) |-> [char |-> c, k |-> k]]
  <2>1. Width(c) \in Nat /\ \A k \in 1..Width(c) : k \in 1..3
    BY DEF Width
  <2>2. g \in [1..Width(c) -> Byte]
    BY <2>1 DEF Byte
  <2>3. \A k \in 1..Width(c) : g[k] = [char |-> c, k |-> k]
    OBVIOUS
  <2>4. f[c] = g
    OBVIOUS
  <2> HIDE DEF g, f
  <2>5. g \in Seq(Byte) /\ Len(g) = Width(c)
    BY <2>1, <2>2, SeqOfFunction
  <2> QED BY <2>2, <2>3, <2>4, <2>5
<1>2. f \in [Character -> Seq(Byte)]
  BY <1>1
<1>3. ASSUME NEW s \in Seq(Character) PROVE Bytes(s) = Spread(f, s)
  <2>1. \A i \in DOMAIN s : s[i] \in Character
    BY ElementOfSeq, LenProperties
  <2>2. [i \in DOMAIN s |-> [k \in 1..Width(s[i]) |-> [char |-> s[i], k |-> k]]] = [i \in DOMAIN s |-> f[s[i]]]
    BY <2>1
  <2> HIDE DEF f
  <2> QED BY <2>2 DEF Bytes, Spread
<1> HIDE DEF f
<1>4. /\ Translation([t \in Seq(Character) |-> Spread(f, t)], Character, Byte)
      /\ \A c \in Character : Spread(f, <<c>>) = f[c]
  BY <1>2, SpreadTranslates
<1>5. BytesIn = [t \in Seq(Character) |-> Spread(f, t)]
  BY <1>3 DEF BytesIn
<1>6. ASSUME NEW c \in Character PROVE BytesIn[<<c>>] = f[c] /\ Runes(f[c])
  <2>1. <<c>> \in Seq(Character)
    OBVIOUS
  <2>2. BytesIn[<<c>>] = f[c]
    BY <1>4, <1>5, <2>1
  <2>3. Width(c) \in Nat
    BY DEF Width
  <2>4. ASSUME NEW i \in 1..Len(f[c])
        PROVE  /\ f[c][i].k \in 1..Width(f[c][i].char)
               /\ f[c][i].k > 1 => i > 1 /\ f[c][i - 1] = [char |-> f[c][i].char, k |-> f[c][i].k - 1]
               /\ f[c][i].k < Width(f[c][i].char) =>
                      i < Len(f[c]) /\ f[c][i + 1] = [char |-> f[c][i].char, k |-> f[c][i].k + 1]
    <3>0. i \in 1..Width(c) /\ f[c][i] = [char |-> c, k |-> i]
      BY <1>1
    <3>1. i \in 1..Width(c) /\ f[c][i].char = c /\ f[c][i].k = i
      BY <3>0
    <3>2. i > 1 => i - 1 \in 1..Width(c)
      BY <2>3, <3>1
    <3>3. i < Width(c) => i + 1 \in 1..Width(c)
      BY <2>3, <3>1
    <3> QED BY <1>1, <3>1, <3>2, <3>3
  <2>5. Runes(f[c])
    BY <1>1, <2>4 DEF Runes, WholeRunes
  <2> QED BY <2>2, <2>5
<1> DEFINE T == {t \in Seq(Character) : Runes(BytesIn[t])}
<1>7. <<>> \in T
  <2>1. BytesIn[<<>>] = <<>> /\ <<>> \in Seq(Character)
    BY <1>4, <1>5, EmptySeq DEF Translation
  <2>2. Runes(<<>>)
    BY DEF Runes, WholeRunes
  <2> QED BY <2>1, <2>2
<1>8. ASSUME NEW s \in T, NEW c \in Character PROVE s \o <<c>> \in T
  <2>1. s \in Seq(Character) /\ <<c>> \in Seq(Character) /\ Runes(BytesIn[s])
    OBVIOUS
  <2> HIDE DEF T
  <2>2. s \o <<c>> \in Seq(Character)
    BY <2>1, ConcatProperties
  <2>3. BytesIn[s] \in Seq(Byte) /\ BytesIn[s \o <<c>>] = BytesIn[s] \o BytesIn[<<c>>]
    BY <1>4, <1>5, <2>1 DEF Translation
  <2>4. Runes(BytesIn[s] \o f[c])
    BY <1>1, <1>6, <2>1, <2>3, RunesConcat
  <2> QED BY <1>6, <2>2, <2>3, <2>4 DEF T
<1>9. T = Seq(Character)
  <2>1. T \subseteq Seq(Character)
    OBVIOUS
  <2> HIDE DEF T
  <2> QED BY <1>7, <1>8, <2>1, TextInduction
<1>10. \A t \in Seq(Character) : BytesIn[t] = Bytes(t) /\ BytesIn[t] \in Seq(Byte)
  BY <1>4, <1>5 DEF BytesIn, Translation
<1> QED BY <1>9, <1>10

\* A prefix of whole runes has whole runes exactly if it ends before the start of one.
LEMMA PrefixOfRunes ==
    ASSUME NEW full \in Seq(Byte), Runes(full), NEW n \in Nat, n < Len(full)
    PROVE  WholeRunes(SubSeq(full, 1, n)) <=> n = 0 \/ full[n + 1].k = 1
<1> DEFINE pre == SubSeq(full, 1, n)
<1>1. /\ Len(full) \in Nat /\ DOMAIN full = 1..Len(full) /\ Len(pre) = n /\ DOMAIN pre = 1..n
      /\ \A i \in 1..n : pre[i] = full[i] /\ i \in 1..Len(full)
  OBVIOUS
<1> HIDE DEF pre
<1>2. \A i \in 1..Len(full) :
          /\ full[i].k \in 1..Width(full[i].char)
          /\ full[i].k > 1 => i > 1 /\ full[i - 1] = [char |-> full[i].char, k |-> full[i].k - 1]
          /\ full[i].k < Width(full[i].char) =>
                 i < Len(full) /\ full[i + 1] = [char |-> full[i].char, k |-> full[i].k + 1]
  BY <1>1 DEF Runes, WholeRunes
<1>3. \A c : Width(c) \in Nat
  BY DEF Width
<1>4. ASSUME WholeRunes(pre), n # 0 PROVE full[n + 1].k = 1
  <2>1. n \in 1..n /\ n + 1 \in 1..Len(full) /\ (n + 1) - 1 = n
    BY <1>1, <1>4
  <2>2. ~(full[n].k < Width(full[n].char))
    <3>1. pre[n].k < Width(pre[n].char) => n < Len(pre)
      BY <1>1, <1>4, <2>1 DEF WholeRunes
    <3> QED BY <1>1, <2>1, <3>1
  <2>3. full[n + 1].k \in 1..Width(full[n + 1].char)
    BY <1>2, <2>1
  <2>4. full[n + 1].k > 1 => full[n] = [char |-> full[n + 1].char, k |-> full[n + 1].k - 1]
    BY <1>2, <2>1
  <2>5. full[n + 1].k > 1 => full[n].char = full[n + 1].char /\ full[n].k = full[n + 1].k - 1
    BY <2>4
  <2> QED BY <1>3, <2>2, <2>3, <2>5
<1>5. ASSUME n = 0 \/ full[n + 1].k = 1 PROVE WholeRunes(pre)
  <2>1. ASSUME NEW i \in 1..n
        PROVE  /\ pre[i].k > 1 => i > 1 /\ pre[i - 1] = [char |-> pre[i].char, k |-> pre[i].k - 1]
               /\ pre[i].k < Width(pre[i].char) =>
                      i < Len(pre) /\ pre[i + 1] = [char |-> pre[i].char, k |-> pre[i].k + 1]
    <3>1. pre[i] = full[i] /\ i \in 1..Len(full) /\ full[i].k \in 1..Width(full[i].char)
      BY <1>1, <1>2
    <3>2. i > 1 => pre[i - 1] = full[i - 1]
      BY <1>1
    <3>3. CASE i < n
      <4>1. pre[i + 1] = full[i + 1]
        BY <1>1, <3>3
      <4> QED BY <1>1, <1>2, <3>1, <3>2, <3>3, <4>1
    <3>4. CASE i = n
      <4>1. full[n + 1].k = 1
        BY <1>5, <3>4
      <4>2. full[n].k < Width(full[n].char) => full[n + 1].k = full[n].k + 1
        <5>1. full[n].k < Width(full[n].char) => full[n + 1] = [char |-> full[n].char, k |-> full[n].k + 1]
          BY <1>2, <3>1, <3>4
        <5> QED BY <5>1
      <4>3. ~(full[n].k < Width(full[n].char))
        BY <1>3, <3>1, <3>4, <4>1, <4>2
      <4> QED BY <1>2, <3>1, <3>2, <3>4, <4>3
    <3> QED BY <3>3, <3>4
  <2> QED BY <1>1, <2>1 DEF WholeRunes
<1> QED BY <1>4, <1>5 DEF pre

\* Of the places from 0 to n there is a last one before the start of a rune.
LEMMA CutPointExists ==
    \A bytes : \A n \in Nat : \E cut \in 0..n :
        /\ cut = 0 \/ bytes[cut + 1].k = 1
        /\ \A m \in cut + 1..n : bytes[m + 1].k # 1
<1> SUFFICES ASSUME NEW bytes
             PROVE  \A n \in Nat : \E cut \in 0..n :
                        /\ cut = 0 \/ bytes[cut + 1].k = 1
                        /\ \A m \in cut + 1..n : bytes[m + 1].k # 1
  OBVIOUS
<1> DEFINE LastStart(n, cut) == /\ cut = 0 \/ bytes[cut + 1].k = 1
                                /\ \A m \in cut + 1..n : bytes[m + 1].k # 1
           T == {n \in Nat : \E cut \in 0..n : LastStart(n, cut)}
<1>1. 0 \in T
  OBVIOUS
<1>2. ASSUME NEW n \in T PROVE n + 1 \in T
  <2>1. PICK cut \in 0..n : LastStart(n, cut)
    <3> HIDE DEF LastStart
    <3> QED OBVIOUS
  <2>2. n \in Nat /\ n + 1 \in Nat
    OBVIOUS
  <2> HIDE DEF T
  <2>3. CASE bytes[(n + 1) + 1].k = 1
    <3>1. LastStart(n + 1, n + 1) /\ n + 1 \in 0..n + 1
      BY <2>2, <2>3
    <3> HIDE DEF LastStart
    <3> QED BY <2>2, <3>1 DEF T
  <2>4. CASE bytes[(n + 1) + 1].k # 1
    <3>1. cut \in 0..n + 1
      BY <2>2
    <3>2. \A m \in cut + 1..n + 1 : m \in cut + 1..n \/ m = n + 1
      BY <2>2
    <3>3. LastStart(n + 1, cut)
      BY <2>1, <2>4, <3>2
    <3> HIDE DEF LastStart
    <3> QED BY <2>2, <3>1, <3>3 DEF T
  <2> QED BY <2>3, <2>4
<1>3. T = Nat
  <2>1. T \subseteq Nat
    OBVIOUS
  <2> HIDE DEF T
  <2> QED BY <1>1, <1>2, <2>1, SetInduction
<1> HIDE DEF LastStart
<1>4. \A n \in Nat : \E cut \in 0..n : LastStart(n, cut)
  BY <1>3
<1> QED BY <1>4 DEF LastStart

\* What truncatePreservingRunes leaves of a text is as much of it as fits.
LEMMA TruncatedFits ==
    \A text \in Seq(Character) : Fits(Truncate(Bytes(text)), text)
<1> SUFFICES ASSUME NEW text \in Seq(Character) PROVE Fits(Truncate(Bytes(text)), text)
  OBVIOUS
<1> DEFINE full == Bytes(text)
           room == MaxPayloadLength - MarkerLength
           cut  == TruncationCutPoint(full)
<1>1. full \in Seq(Byte) /\ Runes(full)
  BY BytesAreRunes
<1>2. room \in Nat /\ room <= MaxPayloadLength /\ MaxPayloadLength \in Nat
  BY PayloadAssumption
<1>3. /\ cut \in 0..room
      /\ cut = 0 \/ full[cut + 1].k = 1
      /\ \A m \in cut + 1..room : full[m + 1].k # 1
  <2>1. \E c \in 0..room : /\ c = 0 \/ full[c + 1].k = 1
                           /\ \A m \in c + 1..room : full[m + 1].k # 1
    <3> HIDE DEF full, room
    <3> QED BY <1>2, CutPointExists
  <2>2. cut = CHOOSE c \in 0..room : /\ c = 0 \/ full[c + 1].k = 1
                                     /\ \A m \in c + 1..room : full[m + 1].k # 1
    BY DEF TruncationCutPoint
  <2> HIDE DEF full, room, cut
  <2> QED BY <2>1, <2>2
<1>4. Truncate(full) = IF Len(full) <= MaxPayloadLength THEN full ELSE SubSeq(full, 1, cut) \o Marker
  BY DEF Truncate
<1>5. Fits(Truncate(full), text) <=>
          IF Len(full) <= MaxPayloadLength THEN Truncate(full) = full
          ELSE \E n \in 0..room :
                   /\ Truncate(full) = SubSeq(full, 1, n) \o Marker
                   /\ WholeRunes(SubSeq(full, 1, n))
                   /\ \A k \in n + 1..room : ~WholeRunes(SubSeq(full, 1, k))
  BY DEF Fits
<1> HIDE DEF full, room, cut
<1>6. CASE Len(full) <= MaxPayloadLength
  BY <1>4, <1>5, <1>6 DEF full
<1>7. CASE ~(Len(full) <= MaxPayloadLength)
  <2>0. Len(full) \in Nat
    BY <1>1
  <2>1. \A n \in 0..room : n \in Nat /\ n < Len(full)
    BY <1>2, <1>7, <2>0
  <2>2. WholeRunes(SubSeq(full, 1, cut))
    BY <1>1, <1>3, <2>1, PrefixOfRunes
  <2>3. ASSUME NEW k \in cut + 1..room PROVE ~WholeRunes(SubSeq(full, 1, k))
    <3>1. k \in 0..room /\ k # 0
      BY <1>2, <1>3
    <3>2. full[k + 1].k # 1
      BY <1>3
    <3> QED BY <1>1, <2>1, <3>1, <3>2, PrefixOfRunes
  <2>4. Truncate(full) = SubSeq(full, 1, cut) \o Marker
    BY <1>4, <1>7
  <2> QED BY <1>3, <1>5, <1>7, <2>2, <2>3, <2>4 DEF full
<1> QED BY <1>6, <1>7

-----------------------------------------------------------------------------
(* The payload *)

\* The payload is that of the outcome.
PayloadInv == outcome \in Outcomes /\ payload \subseteq {BuildPayload(outcome)}

LEMMA PayloadInvariance == SendSpec => []PayloadInv
<1>1. SendInit => PayloadInv
  BY DEF SendInit, PayloadInv
<1>2. PayloadInv /\ [SendNext]_allVars => PayloadInv'
  <2> SUFFICES ASSUME PayloadInv, [SendNext]_allVars PROVE PayloadInv'
    OBVIOUS
  <2>1. outcome' = outcome /\ (payload' = payload \/ payload' = {BuildPayload(outcome)})
    BY DEF SendNext, Skip, Post, CallAttempt, CallDrain, CallSleep, SendReturns, Arrives,
           SendReturned, allVars, sendVars
  <2> QED BY <2>1 DEF PayloadInv
<1> QED BY <1>1, <1>2, PTL DEF SendSpec

\* A text of a value is one of characters.
LEMMA TextsAreOfCharacters == \A text \in Seq(STRING) : text \in Seq(Character)
<1> SUFFICES ASSUME NEW text \in Seq(STRING) PROVE text \in Seq(Character)
  OBVIOUS
<1>1. \A c \in STRING : c \in Character
  BY DEF Character
<1>2. text \in [1..Len(text) -> STRING] /\ Len(text) \in Nat
  BY LenProperties
<1>3. text \in [1..Len(text) -> Character]
  BY <1>1, <1>2
<1> HIDE DEF Character
<1> QED BY <1>2, <1>3, SeqDef

\* The lines about the failed posts show what they are to show.
LEMMA LinesAreShown ==
    ASSUME NEW failed \in Seq([rkey : Seq(STRING), kind : Seq(STRING)])
    PROVE  LET lines == [i \in DOMAIN failed |->
                             ShownText(failed[i].rkey) \o <<":">> \o ShownText(failed[i].kind)]
           IN  FailedPosts(failed) = Joined(lines) /\ Joined(lines) \in Seq(Character)
<1> DEFINE lines == [i \in DOMAIN failed |->
                         ShownText(failed[i].rkey) \o <<":">> \o ShownText(failed[i].kind)]
           parts == [i \in DOMAIN lines |-> IF i > 1 THEN <<"LF">> \o lines[i] ELSE lines[i]]
<1>1. DOMAIN failed = 1..Len(failed) /\ Len(failed) \in Nat
  BY LenProperties
<1>2. ASSUME NEW i \in 1..Len(failed)
      PROVE  /\ SanitizeForPayload(failed[i].rkey) = ShownText(failed[i].rkey)
             /\ SanitizeForPayload(failed[i].kind) = ShownText(failed[i].kind)
             /\ ShownText(failed[i].rkey) \in Seq(Character)
             /\ ShownText(failed[i].kind) \in Seq(Character)
  <2>1. failed[i] \in [rkey : Seq(STRING), kind : Seq(STRING)]
    BY ElementOfSeq
  <2>2. failed[i].rkey \in Seq(Character) /\ failed[i].kind \in Seq(Character)
    BY <2>1, TextsAreOfCharacters
  <2> QED BY <2>2, SanitizedIsShown
<1>3. FailedPosts(failed) = Joined(lines)
  <2>1. [i \in DOMAIN failed |->
             SanitizeForPayload(failed[i].rkey) \o <<":">> \o SanitizeForPayload(failed[i].kind)] = lines
    BY <1>1, <1>2
  <2> HIDE DEF lines
  <2> QED BY <2>1 DEF FailedPosts
<1>4. DOMAIN lines = 1..Len(failed)
  BY <1>1
<1>5. ASSUME NEW i \in 1..Len(failed) PROVE lines[i] \in Seq(Character)
  <2>1. <<":">> \in Seq(Character)
    BY DEF Character
  <2>2. ShownText(failed[i].rkey) \o <<":">> \in Seq(Character)
    BY <1>2, <2>1, ConcatProperties
  <2>3. (ShownText(failed[i].rkey) \o <<":">>) \o ShownText(failed[i].kind) \in Seq(Character)
    BY <1>2, <2>2, ConcatProperties
  <2> QED BY <1>1, <2>3
<1> HIDE DEF lines
<1>6. ASSUME NEW i \in 1..Len(failed) PROVE parts[i] \in Seq(Character)
  <2>1. <<"LF">> \in Seq(Character)
    BY DEF Character
  <2>2. <<"LF">> \o lines[i] \in Seq(Character)
    BY <1>5, <2>1, ConcatProperties
  <2> QED BY <1>4, <1>5, <2>2
<1>7. parts \in [1..Len(failed) -> Seq(Character)]
  BY <1>4, <1>6
<1>8. Joined(lines) = Seqs!FlattenSeq(parts)
  BY DEF Joined
<1> HIDE DEF parts
<1>9. parts \in Seq(Seq(Character))
  BY <1>1, <1>7, SeqOfFunction
<1>10. Joined(lines) \in Seq(Character)
  BY <1>8, <1>9, FlattenSeqFirst
<1> QED BY <1>3, <1>10 DEF lines

\* Every payload that Send posts shows what the outcome holds and no more, within the
\* limit and with its runes whole, whatever the texts, the limit and the marker
\* (buildPayload and all it calls).
THEOREM PayloadsFit == SendSpec => []PayloadFits
<1>1. PayloadInv => PayloadFits
  <2> SUFFICES ASSUME PayloadInv, NEW p \in payload
               PROVE  /\ Fits(p.host, ShownText(outcome.host))
                      /\ Fits(p.account, ShownText(outcome.account))
                      /\ p.color = "danger" <=> Destination(outcome) = "failure"
                      /\ outcome.err # {} =>
                             \E d \in p.detail : \A kind \in outcome.err : Fits(d.value, ShownText(kind))
                      /\ \A r \in outcome.result :
                             /\ <<r.targets, r.deleted>> \in p.counts
                             /\ outcome.err = {} /\ r.failed # <<>> =>
                                    LET lines == [i \in DOMAIN r.failed |->
                                                      ShownText(r.failed[i].rkey) \o <<":">> \o ShownText(r.failed[i].kind)]
                                    IN  \E d \in p.detail : Fits(d.value, Joined(lines))
    BY DEF PayloadFits
  <2>1. outcome \in Outcomes /\ p = BuildPayload(outcome)
    BY DEF PayloadInv
  <2>2. /\ outcome.host \in Seq(Character) /\ outcome.account \in Seq(Character)
        /\ outcome.err \subseteq Seq(Character) /\ \A a, b \in outcome.err : a = b
    BY <2>1, OutcomeAssumption, TextsAreOfCharacters
  <2>3. \A r \in outcome.result : r.failed \in Seq([rkey : Seq(STRING), kind : Seq(STRING)])
    BY <2>1, OutcomeAssumption
  <2>4. \A t \in Seq(Character) : Fits(Truncate(Bytes(SanitizeForPayload(t))), ShownText(t))
    BY SanitizedIsShown, TruncatedFits
  <2>5. /\ p.host = Truncate(Bytes(SanitizeForPayload(outcome.host)))
        /\ p.account = Truncate(Bytes(SanitizeForPayload(outcome.account)))
        /\ p.counts = {<<r.targets, r.deleted>> : r \in outcome.result}
        /\ p.detail = Detail(outcome)
        /\ p.color = IF IsFailure(outcome) THEN "danger" ELSE "good"
    BY <2>1 DEF BuildPayload
  <2>6. Fits(p.host, ShownText(outcome.host)) /\ Fits(p.account, ShownText(outcome.account))
    BY <2>2, <2>4, <2>5
  <2>7. p.color = "danger" <=> Destination(outcome) = "failure"
    BY <2>5 DEF Destination
  <2>8. ASSUME outcome.err # {}
        PROVE  \E d \in p.detail : \A kind \in outcome.err : Fits(d.value, ShownText(kind))
    <3>1. PICK kind \in outcome.err : TRUE
      BY <2>8
    <3> DEFINE d == [title |-> "Error", value |-> Truncate(Bytes(SanitizeForPayload(kind)))]
    <3>2. d \in p.detail
      BY <2>5, <2>8 DEF Detail
    <3>3. d.value = Truncate(Bytes(SanitizeForPayload(kind)))
      OBVIOUS
    <3> HIDE DEF d
    <3>4. \A k \in outcome.err : k = kind
      BY <2>2
    <3>5. Fits(d.value, ShownText(kind))
      BY <2>2, <2>4, <3>3
    <3> QED BY <3>2, <3>4, <3>5
  <2>9. ASSUME NEW r \in outcome.result
        PROVE  <<r.targets, r.deleted>> \in p.counts
    BY <2>5
  <2>10. ASSUME NEW r \in outcome.result, outcome.err = {}, r.failed # <<>>
         PROVE  LET lines == [i \in DOMAIN r.failed |->
                                  ShownText(r.failed[i].rkey) \o <<":">> \o ShownText(r.failed[i].kind)]
                IN  \E d \in p.detail : Fits(d.value, Joined(lines))
    <3> DEFINE lines == [i \in DOMAIN r.failed |->
                             ShownText(r.failed[i].rkey) \o <<":">> \o ShownText(r.failed[i].kind)]
               d == [title |-> "Failed posts", value |-> Truncate(Bytes(FailedPosts(r.failed)))]
    <3>1. d \in p.detail
      BY <2>5, <2>10 DEF Detail
    <3>2. d.value = Truncate(Bytes(FailedPosts(r.failed)))
      OBVIOUS
    <3>3. FailedPosts(r.failed) = Joined(lines) /\ Joined(lines) \in Seq(Character)
      BY <2>3, LinesAreShown
    <3> HIDE DEF d, lines
    <3>4. Fits(d.value, Joined(lines))
      BY <3>2, <3>3, TruncatedFits
    <3>5. \E e \in p.detail : Fits(e.value, Joined(lines))
      BY <3>1, <3>4
    <3> QED BY <3>5 DEF lines
  <2> QED BY <2>6, <2>7, <2>8, <2>9, <2>10
<1> QED BY <1>1, PayloadInvariance, PTL

=============================================================================
