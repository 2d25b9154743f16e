------------------------------ MODULE NotifySend ------------------------------
(***************************************************************************)
(* notify.Send (internal/notify/notify.go): the choice of the channel, the *)
(* payload, and the retried POST of it, each attempt under a context of    *)
(* its own that ends with the body of the answer.                          *)
(*                                                                         *)
(* The loop is RetryDoer, every step of which is a step of this module;    *)
(* the channel takes a message when it answers 2xx, and perhaps also when  *)
(* its answer is a 5xx or does not come, then or at any later time.        *)
(***************************************************************************)
EXTENDS RetryDoer, SlackText

CONSTANTS
    Outcomes,   \* the outcomes of the run there may be
    Webhooks    \* which of the two webhooks may be configured

\* Texts are sequences of characters, and an outcome has at most one error.
ASSUME OutcomeAssumption ==
    \A o \in Outcomes :
        /\ o.host \in Seq(STRING) /\ o.account \in Seq(STRING)
        /\ o.err \subseteq Seq(STRING) /\ \A a, b \in o.err : a = b
        /\ \A r \in o.result : r.failed \in Seq([rkey : Seq(STRING), kind : Seq(STRING)])

VARIABLES
    outcome, configured,
    stage,      \* where send is: before the request, in the loop, or returned
    payload,    \* what was built
    contexts,   \* contexts[i]: whether the context of the i-th attempt is live
    arrivals,   \* arrivals[i]: whether the message of the i-th attempt got there
    sent        \* what send returned

sendVars == <<outcome, configured, stage, payload, contexts, arrivals, sent>>
allVars == <<vars, sendVars>>

-----------------------------------------------------------------------------
(* Defects that the runs must find: each replaces the operator it precedes *)

TakesAnyResponse(how, kind) == how = "response"
ClosesOnSuccess(how, kind) == IF how = "response" /\ kind = "ok" THEN {Len(log)} ELSE {}

-----------------------------------------------------------------------------

\* The channel for the outcome.
Destination(o) == IF IsFailure(o) THEN "failure" ELSE "success"

\* perAttemptTimeoutDoer.Do: the context of an attempt outlives it only with a body to read.
ContextAfter(kind) == IF HasResponse(kind) THEN "live" ELSE "cancelled"

\* cancelOnCloseBody.Close
CancelledWith(closed) == [i \in DOMAIN contexts |-> IF i \in closed THEN "cancelled" ELSE contexts[i]]

\* What may become of the message of an attempt that ended like that.
Arrival(kind) ==
    CASE kind = "ok" -> {"arrived"}
      [] kind \in {"transport", "unavailable"} -> {"arrived", "pending", "lost"}
      [] OTHER -> {"lost"}

\* The answer has a 2xx status.
Delivered(how, kind) == how = "response" /\ kind = "ok"

\* The bodies that send closes as it returns: whatever the status of the answer.
ClosedBySend(how, kind) == IF how = "response" THEN {Len(log)} ELSE {}

SendInit ==
    /\ Init
    /\ rebuildable   \* GetBody is set
    /\ outcome \in Outcomes
    /\ configured \in Webhooks
    /\ stage = "choose"
    /\ payload = {}
    /\ contexts = <<>>
    /\ arrivals = <<>>
    /\ sent = "none"

\* The destination is not configured.
Skip ==
    /\ stage = "choose"
    /\ Destination(outcome) \notin configured
    /\ stage' = "returned"
    /\ sent' = "nil"
    /\ UNCHANGED <<vars, outcome, configured, payload, contexts, arrivals>>

Post ==
    /\ stage = "choose"
    /\ Destination(outcome) \in configured
    /\ payload' = {BuildPayload(outcome)}
    /\ stage' = "call"
    /\ UNCHANGED <<vars, outcome, configured, contexts, arrivals, sent>>

\* The loop hands an attempt to the perAttemptTimeoutDoer.
CallAttempt ==
    /\ stage = "call"
    /\ AttemptReturns \/ AttemptRetried
    /\ LET kind == log'[Len(log')].kind IN
           /\ contexts' = Append(contexts, ContextAfter(kind))
           /\ \E a \in Arrival(kind) : arrivals' = Append(arrivals, a)
    /\ UNCHANGED <<outcome, configured, stage, payload, sent>>

\* The loop reads and closes the body of an answer that is not final.
CallDrain ==
    /\ stage = "call"
    /\ DrainDone \/ DrainAborts
    /\ contexts' = CancelledWith({i \in DOMAIN bodies : bodies[i] = "open" /\ bodies'[i] = "closed"})
    /\ UNCHANGED <<outcome, configured, stage, payload, arrivals, sent>>

CallSleep ==
    /\ stage = "call"
    /\ SleepDone \/ SleepCutShort
    /\ UNCHANGED sendVars

\* The loop has returned: the status is judged, and the answer's body closed.
SendReturns ==
    /\ stage = "call" /\ pc = "returned"
    /\ sent' = IF Delivered(result, Last.kind) THEN "nil" ELSE "error"
    /\ LET closed == ClosedBySend(result, Last.kind) IN
           /\ bodies' = [i \in DOMAIN bodies |-> IF i \in closed THEN "closed" ELSE bodies[i]]
           /\ contexts' = CancelledWith(closed)
    /\ stage' = "returned"
    /\ UNCHANGED <<rebuildable, deadline, pc, attempt, now, log, result,
                   outcome, configured, payload, arrivals>>

\* A message that was under way gets there, whatever has become of its sender.
Arrives ==
    /\ \E i \in DOMAIN arrivals :
           /\ arrivals[i] = "pending"
           /\ arrivals' = [arrivals EXCEPT ![i] = "arrived"]
    /\ UNCHANGED <<vars, outcome, configured, stage, payload, contexts, sent>>

SendReturned == stage = "returned" /\ UNCHANGED allVars

SendNext ==
    \/ Skip
    \/ Post
    \/ CallAttempt
    \/ CallDrain
    \/ CallSleep
    \/ SendReturns
    \/ Arrives
    \/ SendReturned

SendSpec == SendInit /\ [][SendNext]_allVars

-----------------------------------------------------------------------------
(* Properties *)

\* What Send returns is what happened: nil means that the message was acknowledged by the
\* outcome's own channel, or that this channel is not configured and nothing was sent; an
\* error, that no attempt was acknowledged, though one may have arrived, or yet arrive.
\* And no attempt follows an acknowledged one, so that a channel gets a message again
\* only if the answer to it was lost (send, the retry policy).
SendTruthful ==
    /\ sent = "nil" =>
           IF Destination(outcome) \in configured
           THEN log # <<>> /\ Last.kind = "ok" /\ arrivals[Len(log)] = "arrived"
           ELSE log = <<>>
    /\ sent = "error" => \A i \in DOMAIN log : log[i].kind # "ok"
    /\ \A i \in DOMAIN log : log[i].kind = "ok" => i = Len(log)

\* The context of an attempt is live as long as somebody may read the attempt's answer,
\* so that reading does not fail for want of it, and no longer: when Send returns, every
\* body is closed and every context released, on every path through the loop and after it
\* (perAttemptTimeoutDoer, cancelOnCloseBody, drainAndClose, send).
ContextsReleased ==
    /\ Len(contexts) = Len(bodies)
    /\ \A i \in DOMAIN bodies : contexts[i] = "live" <=> bodies[i] = "open"
    /\ stage = "returned" => \A i \in DOMAIN bodies : bodies[i] # "open"

\* The payload shows what the outcome holds and no more: within the limit in bytes, runes
\* whole, no control character of a foreign text and no character that Slack would read
\* as markup, each escaped once, and nothing left out that there is room for; its colour
\* tells the same as the channel it is for (buildPayload and all it calls).
PayloadFits ==
    \A p \in payload :
        /\ Fits(p.host, ShownText(outcome.host))
        /\ Fits(p.account, ShownText(outcome.account))
        /\ p.color = "danger" <=> Destination(outcome) = "failure"
        /\ outcome.err # {} => \E d \in p.detail : \A kind \in outcome.err : Fits(d.value, ShownText(kind))
        /\ \A r \in outcome.result :
               /\ <<r.targets, r.deleted>> \in p.counts
               /\ outcome.err = {} /\ r.failed # <<>> =>
                      LET lines == [i \in DOMAIN r.failed |->
                                        ShownText(r.failed[i].rkey) \o <<":">> \o ShownText(r.failed[i].kind)]
                      IN  \E d \in p.detail : Fits(d.value, Joined(lines))

=============================================================================
