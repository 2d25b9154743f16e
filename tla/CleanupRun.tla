------------------------------ MODULE CleanupRun ------------------------------
(***************************************************************************)
(* Runs of bsky-cleaner over one account: run (cmd/main.go), runner.Run,   *)
(* Client.Login, ListPosts and DeleteRecord, SelectDeletionTargets, and    *)
(* the notification and exit code that follow.  Runs may overlap, and the  *)
(* owner changes the account meanwhile.                                    *)
(*                                                                         *)
(* A delete travels through a network that loses, delays and duplicates    *)
(* requests and loses answers; the retry loop in front of it is RetryDoer, *)
(* of which this module keeps what a call may do: try again, or fail at    *)
(* any point.  A call that only reads is one step, or fails.               *)
(***************************************************************************)
EXTENDS Account, FiniteSets

CONSTANTS
    Runs,         \* the runs of the program
    Threshold,    \* Threshold[r]: run r's judgment time less its retention days
    Modes,        \* how a run may be started: with --apply (TRUE) or not
    Interrupted,  \* the runs that may be killed or run into their timeout
    MaxRetries,   \* atproto's defaultRetryPolicy.MaxRetries
    OwnDID,       \* the DID that NewClient resolved and verified
    OtherDID      \* another account's

ASSUME RunAssumption ==
    /\ Threshold \in [Runs -> Int]
    /\ Modes \subseteq BOOLEAN
    /\ Interrupted \subseteq Runs
    /\ MaxRetries \in Nat
    /\ OwnDID # OtherDID

VARIABLES
    apply,       \* apply[r]: whether run r was started with --apply
    phase,       \* where run r is
    timeUp,      \* whether its execution timeout has passed
    session,     \* Client.session: the DID it authenticates, or NoSession
    inventory,   \* the records ListPosts has listed so far
    targets,     \* Result.Targets
    deleted,     \* Result.Deleted
    failed,      \* Result.Failed
    call,        \* the delete that is under way
    outcome,     \* what runner.Run, or the setup before it, came to
    notice,      \* the channels that got a notification
    exit,        \* the exit code
    requests,    \* the delete requests in the network
    erased,      \* history: <<r, rec>> when run r's request erased rec
    atStart,     \* history: the records that existed when run r logged in
    pinSeen      \* history: what was pinned when run r chose its targets

runVars == <<apply, phase, timeUp, session, inventory, targets, deleted, failed,
             call, outcome, notice, exit, atStart, pinSeen>>
vars == <<accountVars, runVars, requests, erased>>

Channels  == {"success", "failure"}
NoSession == "noSession"
NoCode    == -1
Unjudged  == -1
NoRecord  == [rkey |-> NoPin, type |-> "none", created |-> 0]
NoCall    == [rec |-> NoRecord, try |-> 0, answer |-> "none"]

Selecting == {"login", "posts", "reposts", "pin"}
Networked == Selecting \cup {"delete"}
Phases    == {"setup"} \cup Networked \cup {"notify", "exit", "exited", "killed"}
Over(r)   == phase[r] \in {"exited", "killed"}

-----------------------------------------------------------------------------
(* Defects that the runs must find: each replaces the operator it precedes *)

SelectsPinned(listed, pin, r) ==
    {rec \in listed : rec.type \in PostTypes /\ rec.created < Threshold[r]}
SelectsAtThreshold(listed, pin, r) ==
    {rec \in listed :
        rec.rkey # pin /\ rec.type \in PostTypes /\ rec.created <= Threshold[r]}
ListsFeedOnly(collection) == {"original", "reply", "quote", "malformed"}
SkipsUndecodable(listed) == FALSE
TakesErrorForUnpinned == {pinned, NoPin}
AcceptsAnySession(did) == TRUE
RetriesFailed(r) == targets[r] \ deleted[r]
StopsAtFailure(r) == IF failed[r] = {} THEN targets[r] \ deleted[r] ELSE {}
TakesRejectionForSuccess(answer) == answer \in {"ok", "rejected"}
RetriesOnceMore(n) == n <= MaxRetries
RoutesByError(r) == outcome[r] # "result"

-----------------------------------------------------------------------------
(* The decisions of the code *)

\* SelectDeletionTargets.
SelectDeletionTargets(listed, pin, r) ==
    {rec \in listed : /\ rec.rkey # pin
                      /\ rec.type \in PostTypes
                      /\ rec.created < Threshold[r]}

\* The types of the records that a collection holds; a malformed one may be in
\* either, here in app.bsky.feed.post.
TypesIn(collection) ==
    IF collection = "feed" THEN {"original", "reply", "quote", "malformed"} ELSE {"repost"}

\* classifyPostRecord fails on one of the listed records, and ListPosts with it.
Undecodable(listed) == \E rec \in listed : rec.type = "malformed"

\* What pinnedPostRKey may return: an error is never taken for "nothing pinned".
PinAnswers == {pinned}

\* Login's check of the session's DID.
SessionAccepted(did) == did = OwnDID

\* What the delete loop still has to do.
Remaining(r) == targets[r] \ (deleted[r] \cup failed[r])

\* Whether attempt n of a call may be followed by another.
MayRetry(n) == n < MaxRetries

\* Which answers DeleteRecord takes for success.
Succeeds(answer) == answer = "ok"

\* notify.isFailure.
IsFailure(r) == outcome[r] # "result" \/ failed[r] # {}

\* The exit code of run.
ExitCode(r) ==
    IF outcome[r] # "result" THEN 1 ELSE IF failed[r] # {} THEN 3 ELSE 0

-----------------------------------------------------------------------------

Init ==
    /\ AccountInit
    /\ apply \in [Runs -> Modes]
    /\ phase = [r \in Runs |-> "setup"]
    /\ timeUp = [r \in Runs |-> FALSE]
    /\ session = [r \in Runs |-> NoSession]
    /\ inventory = [r \in Runs |-> {}]
    /\ targets = [r \in Runs |-> {}]
    /\ deleted = [r \in Runs |-> {}]
    /\ failed = [r \in Runs |-> {}]
    /\ call = [r \in Runs |-> NoCall]
    /\ outcome = [r \in Runs |-> "pending"]
    /\ notice = [r \in Runs |-> {}]
    /\ exit = [r \in Runs |-> NoCode]
    /\ requests = {}
    /\ erased = {}
    /\ atStart = [r \in Runs |-> {}]
    /\ pinSeen = [r \in Runs |-> Unjudged]

Moves(r, from, to) == phase[r] = from /\ phase' = [phase EXCEPT ![r] = to]

\* runner.Run, or the setup before it, is over with this outcome; only a run that
\* got as far as runner.Run and was to apply its result notifies.
Concludes(r, what) ==
    /\ outcome' = [outcome EXCEPT ![r] = what]
    /\ phase' = [phase EXCEPT ![r] = IF apply[r] /\ what # "setupError" THEN "notify" ELSE "exit"]

UnchangedBut(others) == UNCHANGED others /\ UNCHANGED <<accountVars, apply>>

\* LoadAppConfig or NewClient fails.
SetupFails(r) ==
    /\ phase[r] = "setup"
    /\ Concludes(r, "setupError")
    /\ UnchangedBut(<<timeUp, session, inventory, targets, deleted, failed, call, notice, exit,
                      requests, erased, atStart, pinSeen>>)

SetupDone(r) ==
    /\ Moves(r, "setup", "login")
    /\ atStart' = [atStart EXCEPT ![r] = live]
    /\ UnchangedBut(<<timeUp, session, inventory, targets, deleted, failed, call, outcome, notice,
                      exit, requests, erased, pinSeen>>)

\* The execution timeout ends the context of everything up to the notification.
TimeOut(r) ==
    /\ r \in Interrupted /\ phase[r] \in Networked
    /\ ~timeUp[r]
    /\ timeUp' = [timeUp EXCEPT ![r] = TRUE]
    /\ UnchangedBut(<<phase, session, inventory, targets, deleted, failed, call, outcome, notice,
                      exit, requests, erased, atStart, pinSeen>>)

\* Login or a call of ListPosts fails after its retries, under an ended context,
\* on a limit of pagination or on an answer that is an error.
CallFails(r) ==
    /\ phase[r] \in Selecting
    /\ Concludes(r, "runError")
    /\ UnchangedBut(<<timeUp, session, inventory, targets, deleted, failed, call, notice, exit,
                      requests, erased, atStart, pinSeen>>)

\* createSession answers with a session for some account.
Login(r, did) ==
    /\ phase[r] = "login" /\ ~timeUp[r]
    /\ IF SessionAccepted(did)
       THEN /\ session' = [session EXCEPT ![r] = did]
            /\ Moves(r, "login", "posts")
            /\ UNCHANGED outcome
       ELSE Concludes(r, "runError") /\ UNCHANGED session
    /\ UnchangedBut(<<timeUp, inventory, targets, deleted, failed, call, notice, exit, requests,
                      erased, atStart, pinSeen>>)

Listed(collection) == {rec \in live : rec.type \in TypesIn(collection)}

ListFeed(r) ==
    /\ ~timeUp[r]
    /\ Moves(r, "posts", "reposts")
    /\ inventory' = [inventory EXCEPT ![r] = Listed("feed")]
    /\ UnchangedBut(<<timeUp, session, targets, deleted, failed, call, outcome, notice, exit,
                      requests, erased, atStart, pinSeen>>)

\* The second listing, after which ListPosts decodes what both have returned.  A repost
\* that does not decode ends the run as a failed listing does (CallFails).
ListReposts(r) ==
    /\ phase[r] = "reposts" /\ ~timeUp[r]
    /\ inventory' = [inventory EXCEPT ![r] = @ \cup Listed("repost")]
    /\ IF Undecodable(inventory[r])
       THEN Concludes(r, "runError")
       ELSE Moves(r, "reposts", "pin") /\ UNCHANGED outcome
    /\ UnchangedBut(<<timeUp, session, targets, deleted, failed, call, notice, exit, requests,
                      erased, atStart, pinSeen>>)

\* pinnedPostRKey, then SelectDeletionTargets and the dry run's early return.
ReadPin(r) ==
    /\ phase[r] = "pin" /\ ~timeUp[r]
    /\ \E pin \in PinAnswers :
           targets' = [targets EXCEPT ![r] = SelectDeletionTargets(inventory[r], pin, r)]
    /\ pinSeen' = [pinSeen EXCEPT ![r] = pinned]
    /\ IF apply[r]
       THEN Moves(r, "pin", "delete") /\ UNCHANGED outcome
       ELSE Concludes(r, "result")
    /\ UnchangedBut(<<timeUp, session, inventory, deleted, failed, call, notice, exit, requests,
                      erased, atStart>>)

-----------------------------------------------------------------------------
(* The delete loop *)

Sends(r, rec, n) ==
    /\ call' = [call EXCEPT ![r] = [rec |-> rec, try |-> n, answer |-> "none"]]
    /\ requests' = requests \cup {[run |-> r, rec |-> rec, try |-> n, repo |-> session[r]]}

DeleteSent(r, rec) ==
    /\ phase[r] = "delete" /\ call[r] = NoCall
    /\ rec \in Remaining(r)
    /\ session[r] # NoSession /\ ~timeUp[r]
    /\ Sends(r, rec, 0)
    /\ UnchangedBut(<<phase, timeUp, session, inventory, targets, deleted, failed, outcome, notice,
                      exit, erased, atStart, pinSeen>>)

\* Without a session DeleteRecord sends nothing, and under an ended context the
\* HTTP client does not: the target fails and the loop goes on.
DeleteNotSent(r, rec) ==
    /\ phase[r] = "delete" /\ call[r] = NoCall
    /\ rec \in Remaining(r)
    /\ session[r] = NoSession \/ timeUp[r]
    /\ failed' = [failed EXCEPT ![r] = @ \cup {rec}]
    /\ UnchangedBut(<<phase, timeUp, session, inventory, targets, deleted, call, outcome, notice,
                      exit, requests, erased, atStart, pinSeen>>)

\* The attempt timed out, lost its connection or got a 429 or 5xx: another one.
DeleteRetried(r) ==
    /\ call[r] # NoCall /\ phase[r] = "delete" /\ ~timeUp[r]
    /\ call[r].answer \in {"none", "retry"}
    /\ MayRetry(call[r].try)
    /\ Sends(r, call[r].rec, call[r].try + 1)
    /\ UnchangedBut(<<phase, timeUp, session, inventory, targets, deleted, failed, outcome, notice,
                      exit, erased, atStart, pinSeen>>)

DeleteSucceeded(r) ==
    /\ call[r] # NoCall /\ phase[r] = "delete"
    /\ Succeeds(call[r].answer)
    /\ deleted' = [deleted EXCEPT ![r] = @ \cup {call[r].rec}]
    /\ call' = [call EXCEPT ![r] = NoCall]
    /\ UnchangedBut(<<phase, timeUp, session, inventory, targets, failed, outcome, notice, exit,
                      requests, erased, atStart, pinSeen>>)

\* The call fails: rejected, out of retries, cut off while draining a response, or
\* ended by the context, which may win over an answer that has just arrived.
DeleteFailed(r) ==
    /\ call[r] # NoCall /\ phase[r] = "delete"
    /\ ~Succeeds(call[r].answer) \/ timeUp[r]
    /\ failed' = [failed EXCEPT ![r] = @ \cup {call[r].rec}]
    /\ call' = [call EXCEPT ![r] = NoCall]
    /\ UnchangedBut(<<phase, timeUp, session, inventory, targets, deleted, outcome, notice, exit,
                      requests, erased, atStart, pinSeen>>)

DeletesDone(r) ==
    /\ phase[r] = "delete" /\ call[r] = NoCall
    /\ Remaining(r) = {}
    /\ Concludes(r, "result")
    /\ UnchangedBut(<<timeUp, session, inventory, targets, deleted, failed, call, notice, exit,
                      requests, erased, atStart, pinSeen>>)

\* sendNotification, under a context of its own: delivered, or not, because the
\* channel is not configured or its retries did not help; the exit code is the same.
Notify(r) ==
    /\ Moves(r, "notify", "exit")
    /\ \E reached \in SUBSET {IF IsFailure(r) THEN "failure" ELSE "success"} :
           notice' = [notice EXCEPT ![r] = reached]
    /\ UnchangedBut(<<timeUp, session, inventory, targets, deleted, failed, call, outcome, exit,
                      requests, erased, atStart, pinSeen>>)

Exit(r) ==
    /\ Moves(r, "exit", "exited")
    /\ exit' = [exit EXCEPT ![r] = ExitCode(r)]
    /\ UnchangedBut(<<timeUp, session, inventory, targets, deleted, failed, call, outcome, notice,
                      requests, erased, atStart, pinSeen>>)

\* The process is killed; nothing of it survives but its requests.
Kill(r) ==
    /\ r \in Interrupted /\ ~Over(r)
    /\ phase' = [phase EXCEPT ![r] = "killed"]
    /\ call' = [call EXCEPT ![r] = NoCall]
    /\ UnchangedBut(<<timeUp, session, inventory, targets, deleted, failed, outcome, notice, exit,
                      requests, erased, atStart, pinSeen>>)

-----------------------------------------------------------------------------
(* The PDS and the network *)

Answered(req, answer) ==
    call' = [call EXCEPT ![req.run] =
                 IF @.rec = req.rec /\ @.try = req.try /\ @.answer = "none"
                 THEN [@ EXCEPT !.answer = answer] ELSE @]

\* The PDS handles a request, however late: it erases the record and says so, or
\* fails in between, or refuses.
PDSErases(req) ==
    /\ req \in requests /\ req.repo = OwnDID
    /\ Erase(req.rec)
    /\ erased' = IF req.rec \in live THEN erased \cup {<<req.run, req.rec>>} ELSE erased
    /\ requests' = requests \ {req}
    /\ \E answer \in {"ok", "retry", "none"} : Answered(req, answer)
    /\ UNCHANGED <<apply, phase, timeUp, session, inventory, targets, deleted, failed,
                   outcome, notice, exit, atStart, pinSeen>>

\* It answers with an error and erases nothing, or the network loses the request.
PDSRefuses(req) ==
    /\ req \in requests
    /\ requests' = requests \ {req}
    /\ \E answer \in {"retry", "rejected", "none"} : Answered(req, answer)
    /\ UnchangedBut(<<phase, timeUp, session, inventory, targets, deleted, failed, outcome, notice,
                      exit, erased, atStart, pinSeen>>)

OwnerActs == Owner /\ UNCHANGED <<runVars, requests, erased>>

Step(r) ==
    \/ SetupFails(r) \/ SetupDone(r) \/ CallFails(r)
    \/ \E did \in {OwnDID, OtherDID} : Login(r, did)
    \/ ListFeed(r) \/ ListReposts(r) \/ ReadPin(r)
    \/ \E rec \in Records : DeleteSent(r, rec) \/ DeleteNotSent(r, rec)
    \/ DeleteRetried(r) \/ DeleteSucceeded(r) \/ DeleteFailed(r) \/ DeletesDone(r)
    \/ Notify(r) \/ Exit(r)

AllOver == (\A r \in Runs : Over(r)) /\ UNCHANGED vars

Next ==
    \/ \E r \in Runs : Step(r) \/ TimeOut(r) \/ Kill(r)
    \/ \E req \in requests : PDSErases(req) \/ PDSRefuses(req)
    \/ OwnerActs
    \/ AllOver

Spec == Init /\ [][Next]_vars

\* Every call of a run is bounded by a timeout, so its steps do not stop; nothing
\* is assumed of the PDS, the network or the owner.
FairSpec == Spec /\ \A r \in Runs : WF_vars(Step(r))
-----------------------------------------------------------------------------
(* Properties *)

Requests == [run : Runs, rec : Records, try : 0..MaxRetries, repo : {OwnDID, OtherDID}]
Calls    == {NoCall} \cup [rec : Records, try : 0..MaxRetries,
                          answer : {"none", "ok", "retry", "rejected"}]

\* Every variable has its type.
TypeOK ==
    /\ AccountTypeOK
    /\ apply \in [Runs -> BOOLEAN]
    /\ phase \in [Runs -> Phases]
    /\ timeUp \in [Runs -> BOOLEAN]
    /\ session \in [Runs -> {NoSession, OwnDID, OtherDID}]
    /\ inventory \in [Runs -> SUBSET Records]
    /\ targets \in [Runs -> SUBSET Records]
    /\ deleted \in [Runs -> SUBSET Records]
    /\ failed \in [Runs -> SUBSET Records]
    /\ call \in [Runs -> Calls]
    /\ outcome \in [Runs -> {"pending", "setupError", "runError", "result"}]
    /\ notice \in [Runs -> SUBSET Channels]
    /\ exit \in [Runs -> {NoCode, 0, 1, 3}]
    /\ requests \subseteq Requests
    /\ erased \subseteq Runs \X Records
    /\ atStart \in [Runs -> SUBSET Records]
    /\ pinSeen \in [Runs -> {Unjudged, NoPin} \cup {rec.rkey : rec \in Records}]

\* Whatever is erased, at once or by a request that arrives after its run is over,
\* was a target of a run that applies its result: older than that run's threshold
\* and not pinned when the run had listed the records and read the profile
\* (ListPosts, SelectDeletionTargets, DeleteRecord).
ErasedWasEligible ==
    \A pair \in erased :
        LET r == pair[1]  rec == pair[2]
        IN  /\ apply[r] /\ rec \in targets[r]
            /\ rec.created < Threshold[r]
            /\ pinSeen[r] \notin {Unjudged, rec.rkey}

\* A run that cannot see the whole account, or is not to touch it, touches nothing:
\* after an error of setup, login or listing, with a record it cannot decode, and
\* in a dry run no delete request is ever in the network and nothing is erased.
FailsClosed ==
    \A r \in Runs :
        \/ outcome[r] \in {"setupError", "runError"}
        \/ ~apply[r]
        \/ \E rec \in inventory[r] : rec.type = "malformed"
        => /\ \A req \in requests : req.run # r
           /\ \A pair \in erased : pair[1] # r

\* No delete request names another account than the one that was resolved, even
\* if createSession answers with another account's session (Login).
OwnAccountOnly == \A req \in requests : req.repo = OwnDID

\* The report tells the truth: what it calls deleted does not exist any more, and
\* at the end every target is either deleted or failed (runner.Run).
ReportTruthful ==
    \A r \in Runs :
        /\ deleted[r] \cap live = {}
        /\ deleted[r] \cap failed[r] = {}
        /\ outcome[r] = "result" /\ apply[r] => deleted[r] \cup failed[r] = targets[r]

\* Exit code 0 after --apply means that of the records that existed when the run
\* logged in, none that is older than the threshold is left but the pinned one.
CleanExitMeansClean ==
    \A r \in Runs : exit[r] = 0 /\ apply[r] =>
        \A rec \in atStart[r] \cap live :
            \/ rec.created >= Threshold[r]
            \/ rec.rkey = pinSeen[r]

\* The notification and the exit code agree: success is announced only before a
\* clean exit, failure only before another, and neither by a dry run or after a
\* setup error (Send's choice of the channel, run's exit code).
SignalsAgree ==
    \A r \in Runs :
        /\ notice[r] # {} => apply[r] /\ outcome[r] \in {"runError", "result"}
        /\ exit[r] # NoCode =>
               /\ notice[r] = {"success"} => exit[r] = 0
               /\ notice[r] = {"failure"} => exit[r] # 0

\* Every run ends, whatever the PDS, the network and the owner do.
EveryRunEnds == \A r \in Runs : <>Over(r)

\* The runs implement the retention policy: they are authorised once, when they
\* choose their targets.
Policy == INSTANCE RetentionPolicy WITH
    authorised <- [r \in Runs |-> IF apply[r] THEN targets[r] ELSE {}],
    judged     <- {r \in Runs : pinSeen[r] # Unjudged}
Promise == Policy!PolicySpec

=============================================================================
