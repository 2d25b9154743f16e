-------------------------- MODULE CleanupRun_proofs --------------------------
(***************************************************************************)
(* The safety properties of CleanupRun, and that it implements the         *)
(* retention policy, for any account, any number of overlapping runs, any  *)
(* thresholds and any number of retries.                                   *)
(***************************************************************************)
EXTENDS CleanupRun, TLAPS

Judged(r) == pinSeen[r] # Unjudged

\* What the place where a run is says of its outcome and its judgment.
PhaseInv ==
    \A r \in Runs :
        /\ phase[r] \in {"setup"} \cup Networked => outcome[r] = "pending"
        /\ phase[r] \in {"setup"} \cup Selecting => ~Judged(r)
        /\ phase[r] = "delete" => apply[r] /\ Judged(r)
        /\ outcome[r] \in {"setupError", "runError"} => ~Judged(r)
        /\ outcome[r] = "result" => Judged(r)

\* The targets are chosen once, from an inventory that decodes.
SelectInv ==
    \A r \in Runs :
        /\ Judged(r) => targets[r] = SelectDeletionTargets(inventory[r], pinSeen[r], r)
        /\ ~Judged(r) => targets[r] = {}
        /\ phase[r] = "pin" \/ Judged(r) => ~Undecodable(inventory[r])

\* What has been listed exists or existed, and from the records that existed when the
\* run logged in nothing is missing that still exists.
ListInv ==
    \A r \in Runs :
        /\ inventory[r] \subseteq live \cup gone
        /\ atStart[r] \subseteq live \cup gone
        /\ \A rec \in atStart[r] \cap live :
               /\ phase[r] = "reposts" /\ rec.type # "repost" => rec \in inventory[r]
               /\ phase[r] = "pin" \/ Judged(r) => rec \in inventory[r]

\* Only a run that applies sends requests, for its targets and its own account.
RequestInv ==
    /\ \A r \in Runs : session[r] \in {NoSession, OwnDID}
    /\ \A req \in requests :
           apply[req.run] /\ req.rec \in targets[req.run] /\ req.repo = OwnDID
    /\ \A pair \in erased : apply[pair[1]] /\ pair[2] \in targets[pair[1]]

\* The delete under way is of a target that is neither deleted nor failed, and an
\* answer that says so means that the record is gone.
CallInv ==
    \A r \in Runs : call[r] # NoCall =>
        /\ phase[r] = "delete"
        /\ call[r].rec \in Remaining(r)
        /\ session[r] = OwnDID
        /\ call[r].answer = "ok" => call[r].rec \in gone

\* What the report says.
ReportInv ==
    \A r \in Runs :
        /\ deleted[r] \subseteq gone
        /\ deleted[r] \cup failed[r] \subseteq targets[r]
        /\ deleted[r] \cap failed[r] = {}
        /\ outcome[r] = "result" /\ apply[r] => Remaining(r) = {}

\* What has been announced, and the exit code, follow from the outcome.
SignalInv ==
    \A r \in Runs :
        /\ phase[r] = "notify" => apply[r] /\ outcome[r] \in {"runError", "result"}
        /\ phase[r] \in {"exit", "exited"} => outcome[r] # "pending"
        /\ phase[r] \notin {"exit", "exited", "killed"} => notice[r] = {}
        /\ notice[r] # {} =>
               /\ apply[r] /\ outcome[r] \in {"runError", "result"}
               /\ notice[r] = IF IsFailure(r) THEN {"failure"} ELSE {"success"}
        /\ exit[r] # NoCode => phase[r] = "exited" /\ exit[r] = ExitCode(r)

\* The inductive invariant.
IndInv ==
    /\ TypeOK
    /\ PhaseInv
    /\ SelectInv
    /\ ListInv
    /\ RequestInv
    /\ CallInv
    /\ ReportInv
    /\ SignalInv

(***************************************************************************)
(* It is inductive: one lemma per action                                   *)
(***************************************************************************)

LEMMA InitIndInv == Init => IndInv
<1> SUFFICES ASSUME Init PROVE IndInv
  OBVIOUS
<1>1. TypeOK
  BY RunAssumption, RecordsAssumption DEF Init, AccountInit, TypeOK, AccountTypeOK, Calls,
     Phases
<1>2. PhaseInv /\ SelectInv /\ ListInv /\ RequestInv /\ CallInv /\ ReportInv /\ SignalInv
  BY DEF Init, PhaseInv, SelectInv, ListInv, RequestInv, CallInv, ReportInv, SignalInv,
     Judged
<1> QED
  BY <1>1, <1>2 DEF IndInv

\* An answer reaches the call that waits for it and no other, and changes nothing but
\* that call's answer.
LEMMA AnsweredEffect ==
    ASSUME TypeOK, NEW req \in requests,
           NEW answer \in {"none", "ok", "retry", "rejected"}, Answered(req, answer)
    PROVE  /\ call' \in [Runs -> Calls]
           /\ \A q \in Runs :
                  \/ call'[q] = call[q]
                  \/ /\ call[q] # NoCall /\ call[q].rec = req.rec
                     /\ call'[q].rec = req.rec /\ call'[q].answer = answer
<1>1. req.run \in Runs /\ req.rec \in Records
  BY DEF TypeOK, Requests
<1>2. call \in [Runs -> Calls] /\ call[req.run] \in Calls
  BY <1>1 DEF TypeOK
<1>3. CASE ~ (/\ call[req.run].rec = req.rec
              /\ call[req.run].try = req.try
              /\ call[req.run].answer = "none")
  <2>1. call' = call
    BY <1>2, <1>3 DEF Answered
  <2> QED
    BY <2>1, <1>2
<1>4. CASE /\ call[req.run].rec = req.rec
           /\ call[req.run].try = req.try
           /\ call[req.run].answer = "none"
  <2>1. call' = [call EXCEPT ![req.run] = [call[req.run] EXCEPT !.answer = answer]]
    BY <1>2, <1>4 DEF Answered
  <2>2. call[req.run] # NoCall
    BY <1>1, <1>4, RecordsAssumption DEF NoCall, NoRecord
  <2>3. call[req.run] \in [rec : Records, try : 0..MaxRetries,
                           answer : {"none", "ok", "retry", "rejected"}]
    BY <1>2, <2>2 DEF Calls
  <2>4. /\ [call[req.run] EXCEPT !.answer = answer] \in Calls
        /\ [call[req.run] EXCEPT !.answer = answer].rec = req.rec
        /\ [call[req.run] EXCEPT !.answer = answer].answer = answer
    BY <1>4, <2>3 DEF Calls
  <2> QED
    BY <1>1, <1>2, <1>4, <2>1, <2>2, <2>4
<1> QED
  BY <1>3, <1>4

\* A setup error ends the run before it judges.
LEMMA SetupFailsKeeps ==
    ASSUME IndInv, NEW r \in Runs, SetupFails(r)
    PROVE  IndInv'
<1> USE DEF IndInv, SetupFails, Concludes, UnchangedBut, accountVars
<1>1. TypeOK'
  BY DEF TypeOK, AccountTypeOK, Phases
<1>2. PhaseInv'
  BY DEF PhaseInv, TypeOK, Networked, Selecting, Judged
<1>3. SelectInv'
  BY DEF SelectInv, Judged
<1>4. ListInv'
  BY DEF ListInv, Judged
<1>5. CallInv'
  BY DEF CallInv, Remaining
<1>6. ReportInv'
  BY DEF ReportInv, Remaining
<1>7. SignalInv'
  BY DEF SignalInv, TypeOK, IsFailure, ExitCode
<1>8. RequestInv'
  BY DEF RequestInv
<1> QED
  BY <1>1, <1>2, <1>3, <1>4, <1>5, <1>6, <1>7, <1>8

\* What exists at the login is the reference for a clean exit.
LEMMA SetupDoneKeeps ==
    ASSUME IndInv, NEW r \in Runs, SetupDone(r)
    PROVE  IndInv'
<1> USE DEF IndInv, SetupDone, Moves, UnchangedBut, accountVars
<1>1. TypeOK'
  BY DEF TypeOK, AccountTypeOK, Phases, Networked, Selecting
<1>2. PhaseInv'
  BY DEF PhaseInv, Judged
<1>3. SelectInv'
  BY DEF SelectInv, Judged
<1>4. ListInv'
  BY DEF ListInv, Judged, PhaseInv
<1>5. CallInv'
  BY DEF CallInv, Remaining
<1>6. SignalInv'
  BY DEF SignalInv, IsFailure, ExitCode
<1>7. RequestInv' /\ ReportInv'
  BY DEF RequestInv, ReportInv, Remaining
<1> QED
  BY <1>1, <1>2, <1>3, <1>4, <1>5, <1>6, <1>7

\* The end of the execution timeout changes nothing that the invariant speaks of.
LEMMA TimeOutKeeps ==
    ASSUME IndInv, NEW r \in Runs, TimeOut(r)
    PROVE  IndInv'
<1> USE DEF IndInv, TimeOut, UnchangedBut, accountVars
<1>1. TypeOK'
  BY DEF TypeOK, AccountTypeOK
<1>2. PhaseInv' /\ SelectInv' /\ ListInv' /\ RequestInv' /\ CallInv' /\ ReportInv' /\ SignalInv'
  BY DEF PhaseInv, SelectInv, ListInv, RequestInv, CallInv, ReportInv, SignalInv, Judged,
     Remaining, IsFailure, ExitCode
<1> QED
  BY <1>1, <1>2

\* An error before the judgment leaves the run without targets.
LEMMA CallFailsKeeps ==
    ASSUME IndInv, NEW r \in Runs, CallFails(r)
    PROVE  IndInv'
<1> USE DEF IndInv, CallFails, Concludes, UnchangedBut, accountVars
<1>1. TypeOK'
  BY DEF TypeOK, AccountTypeOK, Phases
<1>2. PhaseInv'
  BY DEF PhaseInv, TypeOK, Networked, Selecting, Judged
<1>3. SelectInv'
  BY DEF SelectInv, Judged
<1>4. ListInv'
  BY DEF ListInv, Judged
<1>5. CallInv'
  BY DEF CallInv, Remaining, Selecting
<1>6. ReportInv'
  BY DEF ReportInv, Remaining
<1>7. SignalInv'
  BY DEF SignalInv, PhaseInv, TypeOK, IsFailure, ExitCode, Networked
<1>8. RequestInv'
  BY DEF RequestInv
<1> QED
  BY <1>1, <1>2, <1>3, <1>4, <1>5, <1>6, <1>7, <1>8

\* No session but one for the own account is kept.
LEMMA LoginKeeps ==
    ASSUME IndInv, NEW r \in Runs, NEW did \in {OwnDID, OtherDID}, Login(r, did)
    PROVE  IndInv'
<1> USE DEF IndInv, Login, Concludes, Moves, UnchangedBut, accountVars
<1>1. TypeOK'
  BY DEF TypeOK, AccountTypeOK, Phases, Networked, Selecting
<1>2. PhaseInv'
  BY DEF PhaseInv, TypeOK, Networked, Selecting, Judged
<1>3. SelectInv'
  BY DEF SelectInv, TypeOK, Judged
<1>4. ListInv'
  BY DEF ListInv, TypeOK, Judged
<1>5. RequestInv'
  BY DEF RequestInv, TypeOK, SessionAccepted
<1>6. CallInv'
  BY DEF CallInv, TypeOK, Remaining
<1>7. ReportInv'
  BY DEF ReportInv, TypeOK, Remaining
<1>8. SignalInv'
  BY DEF SignalInv, TypeOK, IsFailure, ExitCode
<1> QED
  BY <1>1, <1>2, <1>3, <1>4, <1>5, <1>6, <1>7, <1>8

\* The first listing has every record of its collection that exists.
LEMMA ListFeedKeeps ==
    ASSUME IndInv, NEW r \in Runs, ListFeed(r)
    PROVE  IndInv'
<1> USE DEF IndInv, ListFeed, Moves, UnchangedBut, accountVars
<1>1. TypeOK'
  BY DEF TypeOK, AccountTypeOK, Phases, Networked, Selecting, Listed
<1>2. PhaseInv'
  BY DEF PhaseInv, TypeOK, Phases, Networked, Judged
<1>3. SelectInv'
  BY DEF SelectInv, PhaseInv, Judged, Selecting
<1>4. ListInv'
  BY RecordsAssumption DEF ListInv, TypeOK, Judged, Listed, TypesIn, PhaseInv, PostTypes,
     Selecting
<1>5. CallInv'
  BY DEF CallInv, Remaining
<1>6. SignalInv'
  BY DEF SignalInv, IsFailure, ExitCode
<1>7. RequestInv' /\ ReportInv'
  BY DEF RequestInv, ReportInv, Remaining
<1> QED
  BY <1>1, <1>2, <1>3, <1>4, <1>5, <1>6, <1>7

\* Both listings together miss nothing, and decode or end the run.
LEMMA ListRepostsKeeps ==
    ASSUME IndInv, NEW r \in Runs, ListReposts(r)
    PROVE  IndInv'
<1> USE DEF IndInv, ListReposts, Concludes, Moves, UnchangedBut, accountVars
<1>1. TypeOK'
  BY DEF TypeOK, AccountTypeOK, Phases, Networked, Selecting, Listed
<1>2. PhaseInv'
  BY DEF PhaseInv, TypeOK, Networked, Selecting, Judged
<1>3. SelectInv'
  BY DEF SelectInv, PhaseInv, TypeOK, Judged, Undecodable, Selecting, Listed, TypesIn
<1>4. ListInv'
  BY DEF ListInv, TypeOK, Judged, Listed, TypesIn
<1>5. CallInv'
  BY DEF CallInv, TypeOK, Remaining
<1>6. ReportInv'
  BY DEF ReportInv, TypeOK, Remaining
<1>7. SignalInv'
  BY DEF SignalInv, TypeOK, IsFailure, ExitCode
<1>8. RequestInv'
  BY DEF RequestInv
<1> QED
  BY <1>1, <1>2, <1>3, <1>4, <1>5, <1>6, <1>7, <1>8

\* The judgment: from here on the targets are fixed.
LEMMA ReadPinKeeps ==
    ASSUME IndInv, NEW r \in Runs, ReadPin(r)
    PROVE  IndInv'
<1> USE DEF IndInv, ReadPin, Concludes, Moves, UnchangedBut, accountVars
<1>1. TypeOK'
  BY DEF TypeOK, AccountTypeOK, Phases, Networked, SelectDeletionTargets
<1>2. PhaseInv'
  BY RecordsAssumption DEF PhaseInv, TypeOK, Networked, Selecting, Judged, AccountTypeOK,
     Unjudged, NoPin
<1>3. SelectInv'
  BY RecordsAssumption DEF SelectInv, TypeOK, Judged, AccountTypeOK, Unjudged, NoPin,
     PinAnswers
<1>4. ListInv'
  BY DEF ListInv, TypeOK, Judged
<1>5. RequestInv'
  BY DEF RequestInv, SelectInv, PhaseInv, Selecting
<1>6. CallInv'
  BY DEF CallInv, TypeOK, Remaining
<1>7. ReportInv'
  BY DEF ReportInv, TypeOK, Remaining, PhaseInv, Selecting, SelectInv
<1>8. SignalInv'
  BY DEF SignalInv, TypeOK, IsFailure, ExitCode
<1> QED
  BY <1>1, <1>2, <1>3, <1>4, <1>5, <1>6, <1>7, <1>8

\* A request goes out for a target, with the own account's session.
LEMMA DeleteSentKeeps ==
    ASSUME IndInv, NEW r \in Runs, NEW rec \in Records, DeleteSent(r, rec)
    PROVE  IndInv'
<1> USE DEF IndInv, DeleteSent, UnchangedBut, accountVars
<1>1. TypeOK'
  <2>1. 0 \in 0..MaxRetries /\ session[r] = OwnDID
    BY RunAssumption DEF RequestInv
  <2>2. call' \in [Runs -> Calls]
    BY <2>1 DEF TypeOK, Sends, Calls
  <2>3. requests' \subseteq Requests
    BY <2>1 DEF TypeOK, Sends, Requests
  <2> QED
    BY <2>2, <2>3 DEF TypeOK, AccountTypeOK
<1>2. RequestInv'
  BY DEF RequestInv, Sends, PhaseInv, Remaining
<1>3. CallInv'
  BY DEF CallInv, Remaining, Sends, RequestInv
<1>4. PhaseInv' /\ SelectInv' /\ ListInv' /\ ReportInv' /\ SignalInv'
  BY DEF PhaseInv, SelectInv, ListInv, ReportInv, SignalInv, Judged, Remaining, IsFailure,
     ExitCode
<1> QED
  BY <1>1, <1>2, <1>3, <1>4

\* A target for which nothing can be sent counts as failed.
LEMMA DeleteNotSentKeeps ==
    ASSUME IndInv, NEW r \in Runs, NEW rec \in Records, DeleteNotSent(r, rec)
    PROVE  IndInv'
<1> USE DEF IndInv, DeleteNotSent, UnchangedBut, accountVars
<1>1. TypeOK'
  BY DEF TypeOK, AccountTypeOK
<1>2. CallInv'
  BY DEF CallInv, Remaining
<1>3. ReportInv'
  BY DEF ReportInv, Remaining
<1>4. SignalInv'
  BY DEF SignalInv, IsFailure, ExitCode
<1>5. PhaseInv' /\ SelectInv' /\ ListInv' /\ RequestInv'
  BY DEF PhaseInv, SelectInv, ListInv, RequestInv, Judged
<1> QED
  BY <1>1, <1>2, <1>3, <1>4, <1>5

\* Another request for the same target.
LEMMA DeleteRetriedKeeps ==
    ASSUME IndInv, NEW r \in Runs, DeleteRetried(r)
    PROVE  IndInv'
<1> USE DEF IndInv, DeleteRetried, UnchangedBut, accountVars
<1>1. TypeOK'
  <2>1. call[r].rec \in Records /\ call[r].try + 1 \in 0..MaxRetries /\ session[r] = OwnDID
    BY RunAssumption DEF TypeOK, CallInv, Calls, MayRetry
  <2>2. call' \in [Runs -> Calls]
    BY <2>1 DEF TypeOK, Sends, Calls
  <2>3. requests' \subseteq Requests
    BY <2>1 DEF TypeOK, Sends, Requests
  <2> QED
    BY <2>2, <2>3 DEF TypeOK, AccountTypeOK
<1>2. RequestInv'
  BY DEF RequestInv, Sends, PhaseInv, CallInv, Remaining
<1>3. CallInv'
  BY DEF CallInv, Remaining, Sends
<1>4. PhaseInv' /\ SelectInv' /\ ListInv' /\ ReportInv' /\ SignalInv'
  BY DEF PhaseInv, SelectInv, ListInv, ReportInv, SignalInv, Judged, Remaining, IsFailure,
     ExitCode
<1> QED
  BY <1>1, <1>2, <1>3, <1>4

\* Only an answer that says so makes a target deleted.
LEMMA DeleteSucceededKeeps ==
    ASSUME IndInv, NEW r \in Runs, DeleteSucceeded(r)
    PROVE  IndInv'
<1> USE DEF IndInv, DeleteSucceeded, UnchangedBut, accountVars
<1>1. TypeOK'
  BY DEF TypeOK, AccountTypeOK, Calls
<1>2. CallInv'
  BY DEF CallInv, TypeOK, Remaining
<1>3. ReportInv'
  BY DEF ReportInv, Remaining, CallInv, Succeeds
<1>4. PhaseInv' /\ SelectInv' /\ ListInv' /\ RequestInv' /\ SignalInv'
  BY DEF PhaseInv, SelectInv, ListInv, RequestInv, SignalInv, Judged, IsFailure, ExitCode
<1> QED
  BY <1>1, <1>2, <1>3, <1>4

\* What failed may be gone nevertheless, but is not called deleted.
LEMMA DeleteFailedKeeps ==
    ASSUME IndInv, NEW r \in Runs, DeleteFailed(r)
    PROVE  IndInv'
<1> USE DEF IndInv, DeleteFailed, UnchangedBut, accountVars
<1>1. TypeOK'
  BY DEF TypeOK, AccountTypeOK, Calls
<1>2. CallInv'
  BY DEF CallInv, TypeOK, Remaining
<1>3. ReportInv'
  BY DEF ReportInv, Remaining, CallInv
<1>4. SignalInv'
  BY DEF SignalInv, IsFailure, ExitCode
<1>5. PhaseInv' /\ SelectInv' /\ ListInv' /\ RequestInv'
  BY DEF PhaseInv, SelectInv, ListInv, RequestInv, Judged
<1> QED
  BY <1>1, <1>2, <1>3, <1>4, <1>5

\* The loop ends when every target is deleted or failed.
LEMMA DeletesDoneKeeps ==
    ASSUME IndInv, NEW r \in Runs, DeletesDone(r)
    PROVE  IndInv'
<1> USE DEF IndInv, DeletesDone, Concludes, UnchangedBut, accountVars
<1>1. TypeOK'
  BY DEF TypeOK, AccountTypeOK, Phases
<1>2. PhaseInv'
  BY DEF PhaseInv, TypeOK, Networked, Selecting, Judged
<1>3. SelectInv'
  BY DEF SelectInv, Judged
<1>4. ListInv'
  BY DEF ListInv, Judged
<1>5. CallInv'
  BY DEF CallInv, Remaining
<1>6. ReportInv'
  BY DEF ReportInv, Remaining
<1>7. SignalInv'
  BY DEF SignalInv, TypeOK, IsFailure, ExitCode
<1>8. RequestInv'
  BY DEF RequestInv
<1> QED
  BY <1>1, <1>2, <1>3, <1>4, <1>5, <1>6, <1>7, <1>8

\* The channel follows from an outcome that does not change any more.
LEMMA NotifyKeeps ==
    ASSUME IndInv, NEW r \in Runs, Notify(r)
    PROVE  IndInv'
<1> USE DEF IndInv, Notify, Moves, UnchangedBut, accountVars
<1>1. TypeOK'
  BY DEF TypeOK, AccountTypeOK, Phases, Channels
<1>2. PhaseInv'
  BY DEF PhaseInv, Networked, Selecting, Judged
<1>3. SelectInv'
  BY DEF SelectInv, Judged
<1>4. ListInv'
  BY DEF ListInv, Judged
<1>5. CallInv'
  BY DEF CallInv, Remaining
<1>6. SignalInv'
  <2>1. PICK reached \in SUBSET {IF IsFailure(r) THEN "failure" ELSE "success"} :
            notice' = [notice EXCEPT ![r] = reached]
    OBVIOUS
  <2>2. reached # {} => reached = IF IsFailure(r) THEN {"failure"} ELSE {"success"}
    BY <2>1
  <2>3. \A q \in Runs : IsFailure(q)' = IsFailure(q) /\ ExitCode(q)' = ExitCode(q)
    BY DEF IsFailure, ExitCode
  <2>4. ASSUME NEW q \in Runs, q # r PROVE SignalInv!(q)'
    BY <2>1, <2>3, <2>4 DEF SignalInv
  <2>5. SignalInv!(r)'
    BY <2>1, <2>2, <2>3 DEF SignalInv, TypeOK
  <2> QED
    BY <2>4, <2>5 DEF SignalInv
<1>7. RequestInv' /\ ReportInv'
  BY DEF RequestInv, ReportInv, Remaining
<1> QED
  BY <1>1, <1>2, <1>3, <1>4, <1>5, <1>6, <1>7

\* So does the exit code.
LEMMA ExitKeeps ==
    ASSUME IndInv, NEW r \in Runs, Exit(r)
    PROVE  IndInv'
<1> USE DEF IndInv, Exit, Moves, UnchangedBut, accountVars
<1>1. TypeOK'
  BY DEF TypeOK, AccountTypeOK, Phases, ExitCode
<1>2. PhaseInv'
  BY DEF PhaseInv, Networked, Selecting, Judged
<1>3. SelectInv'
  BY DEF SelectInv, Judged
<1>4. ListInv'
  BY DEF ListInv, Judged
<1>5. CallInv'
  BY DEF CallInv, Remaining
<1>6. SignalInv'
  BY DEF SignalInv, TypeOK, IsFailure, ExitCode
<1>7. RequestInv' /\ ReportInv'
  BY DEF RequestInv, ReportInv, Remaining
<1> QED
  BY <1>1, <1>2, <1>3, <1>4, <1>5, <1>6, <1>7

\* A killed run leaves its requests, which are still for its targets.
LEMMA KillKeeps ==
    ASSUME IndInv, NEW r \in Runs, Kill(r)
    PROVE  IndInv'
<1> USE DEF IndInv, Kill, UnchangedBut, accountVars
<1>1. TypeOK'
  BY DEF TypeOK, AccountTypeOK, Phases, Calls
<1>2. PhaseInv'
  BY DEF PhaseInv, Networked, Selecting, Judged
<1>3. SelectInv'
  BY DEF SelectInv, Judged
<1>4. ListInv'
  BY DEF ListInv, Judged
<1>5. CallInv'
  BY DEF CallInv, TypeOK, Remaining
<1>6. SignalInv'
  BY DEF SignalInv, IsFailure, ExitCode, Over
<1>7. RequestInv' /\ ReportInv'
  BY DEF RequestInv, ReportInv, Remaining
<1> QED
  BY <1>1, <1>2, <1>3, <1>4, <1>5, <1>6, <1>7

\* However late a request arrives, its record was listed, so it exists or is gone.
LEMMA PDSErasesKeeps ==
    ASSUME IndInv, NEW req \in requests, PDSErases(req)
    PROVE  IndInv'
<1> USE DEF IndInv, PDSErases, Erase
<1>1. TypeOK'
  <2>1. call' \in [Runs -> Calls]
    BY AnsweredEffect
  <2>2. live' \subseteq Records /\ gone' \subseteq Records \ live'
    BY DEF TypeOK, AccountTypeOK
  <2>3. requests' \subseteq Requests /\ erased' \subseteq Runs \X Records
    BY DEF TypeOK, Requests
  <2> QED
    BY <2>1, <2>2, <2>3 DEF TypeOK, AccountTypeOK
<1>2. ListInv'
  BY DEF ListInv, Judged
<1>3. RequestInv'
  BY DEF RequestInv
<1>4. CallInv'
  <2>1. PICK answer \in {"ok", "retry", "none"} : Answered(req, answer)
    OBVIOUS
  <2>2. req.rec \in gone'
    BY DEF RequestInv, TypeOK, Requests, SelectInv, ListInv, SelectDeletionTargets
  <2>3. \A q \in Runs :
            \/ call'[q] = call[q]
            \/ /\ call[q] # NoCall /\ call[q].rec = req.rec
               /\ call'[q].rec = req.rec /\ call'[q].answer = answer
    BY <2>1, AnsweredEffect
  <2>4. \A q \in Runs : call'[q] # NoCall =>
            /\ call[q] # NoCall
            /\ call'[q].rec = call[q].rec
            /\ call'[q].answer = "ok" => call'[q].rec \in gone'
    BY <2>2, <2>3 DEF CallInv
  <2> QED
    BY <2>4 DEF CallInv, Remaining
<1>5. ReportInv'
  BY DEF ReportInv, Remaining
<1>6. PhaseInv' /\ SelectInv' /\ SignalInv'
  BY DEF PhaseInv, SelectInv, SignalInv, Judged, IsFailure, ExitCode
<1> QED
  BY <1>1, <1>2, <1>3, <1>4, <1>5, <1>6

\* A request that is refused or lost is never answered with success.
LEMMA PDSRefusesKeeps ==
    ASSUME IndInv, NEW req \in requests, PDSRefuses(req)
    PROVE  IndInv'
<1> USE DEF IndInv, PDSRefuses, UnchangedBut, accountVars
<1>1. TypeOK'
  <2>1. call' \in [Runs -> Calls]
    BY AnsweredEffect
  <2>2. live' \subseteq Records /\ gone' \subseteq Records \ live'
    BY DEF TypeOK, AccountTypeOK
  <2>3. requests' \subseteq Requests /\ erased' \subseteq Runs \X Records
    BY DEF TypeOK
  <2> QED
    BY <2>1, <2>2, <2>3 DEF TypeOK, AccountTypeOK
<1>2. RequestInv'
  BY DEF RequestInv
<1>3. CallInv'
  <2>1. PICK answer \in {"retry", "rejected", "none"} : Answered(req, answer)
    OBVIOUS
  <2>2. answer # "ok"
    BY <2>1
  <2>3. \A q \in Runs :
            \/ call'[q] = call[q]
            \/ /\ call[q] # NoCall /\ call[q].rec = req.rec
               /\ call'[q].rec = req.rec /\ call'[q].answer = answer
    BY <2>1, AnsweredEffect
  <2>4. \A q \in Runs : call'[q] # NoCall =>
            /\ call[q] # NoCall
            /\ call'[q].rec = call[q].rec
            /\ call'[q].answer = "ok" => call'[q].rec \in gone'
    BY <2>2, <2>3 DEF CallInv
  <2> QED
    BY <2>4 DEF CallInv, Remaining
<1>4. PhaseInv' /\ SelectInv' /\ ListInv' /\ ReportInv' /\ SignalInv'
  BY DEF PhaseInv, SelectInv, ListInv, ReportInv, SignalInv, Judged, Remaining, IsFailure,
     ExitCode
<1> QED
  BY <1>1, <1>2, <1>3, <1>4

\* The owner brings no record back that was gone.
LEMMA OwnerActsKeeps ==
    ASSUME IndInv, OwnerActs
    PROVE  IndInv'
<1> USE DEF IndInv, OwnerActs, runVars
<1>1. TypeOK'
  BY DEF TypeOK, AccountTypeOK, Owner, Publish, Pin, Unpin, Erase
<1>2. ListInv'
  BY DEF ListInv, Judged, Owner, Publish, Pin, Unpin, Erase
<1>3. CallInv'
  BY DEF CallInv, Remaining, Owner, Publish, Pin, Unpin, Erase
<1>4. ReportInv'
  BY DEF ReportInv, Remaining, Owner, Publish, Pin, Unpin, Erase
<1>5. PhaseInv' /\ SelectInv' /\ RequestInv' /\ SignalInv'
  BY DEF PhaseInv, SelectInv, RequestInv, SignalInv, Judged, IsFailure, ExitCode
<1> QED
  BY <1>1, <1>2, <1>3, <1>4, <1>5

LEMMA StutterKeeps == IndInv /\ UNCHANGED vars => IndInv'
BY DEF IndInv, vars, accountVars, runVars, TypeOK, AccountTypeOK, PhaseInv, SelectInv,
   ListInv, RequestInv, CallInv, ReportInv, SignalInv, Judged, Remaining, IsFailure,
   ExitCode

LEMMA NextKeeps == IndInv /\ [Next]_vars => IndInv'
<1> SUFFICES ASSUME IndInv, [Next]_vars PROVE IndInv'
  OBVIOUS
<1>1. CASE \E r \in Runs : Step(r)
  <2>1. PICK r \in Runs : Step(r)
    BY <1>1
  <2>2. CASE \/ SetupFails(r) \/ SetupDone(r) \/ CallFails(r)
             \/ \E did \in {OwnDID, OtherDID} : Login(r, did)
    BY <2>2, SetupFailsKeeps, SetupDoneKeeps, CallFailsKeeps, LoginKeeps
  <2>3. CASE ListFeed(r) \/ ListReposts(r) \/ ReadPin(r)
    BY <2>3, ListFeedKeeps, ListRepostsKeeps, ReadPinKeeps
  <2>4. CASE \/ \E rec \in Records : DeleteSent(r, rec) \/ DeleteNotSent(r, rec)
             \/ DeleteRetried(r)
    BY <2>4, DeleteSentKeeps, DeleteNotSentKeeps, DeleteRetriedKeeps
  <2>5. CASE DeleteSucceeded(r) \/ DeleteFailed(r) \/ DeletesDone(r)
    BY <2>5, DeleteSucceededKeeps, DeleteFailedKeeps, DeletesDoneKeeps
  <2>6. CASE Notify(r) \/ Exit(r)
    BY <2>6, NotifyKeeps, ExitKeeps
  <2> QED
    BY <2>1, <2>2, <2>3, <2>4, <2>5, <2>6 DEF Step
<1>2. CASE \E r \in Runs : TimeOut(r) \/ Kill(r)
  BY <1>2, TimeOutKeeps, KillKeeps
<1>3. CASE \E req \in requests : PDSErases(req) \/ PDSRefuses(req)
  BY <1>3, PDSErasesKeeps, PDSRefusesKeeps
<1>4. CASE OwnerActs
  BY <1>4, OwnerActsKeeps
<1>5. CASE AllOver \/ UNCHANGED vars
  BY <1>5, StutterKeeps DEF AllOver
<1> QED
  BY <1>1, <1>2, <1>3, <1>4, <1>5 DEF Next

\* The invariant holds in every reachable state.
THEOREM Invariance == Spec => []IndInv
BY InitIndInv, NextKeeps, PTL DEF Spec

(***************************************************************************)
(* What follows                                                            *)
(***************************************************************************)

\* Whatever the PDS, the network and the owner do, every variable keeps its type; in
\* particular no delete is tried more often than MaxRetries + 1 times (Doer.Do).
THEOREM TypeCorrect == Spec => []TypeOK
<1>1. IndInv => TypeOK
  BY DEF IndInv
<1> QED
  BY <1>1, Invariance, PTL

\* What is erased, by whichever run and however late, was older than that run's
\* threshold and not pinned when the run judged (SelectDeletionTargets, DeleteRecord).
THEOREM OnlyEligibleErased == Spec => []ErasedWasEligible
<1>1. IndInv => ErasedWasEligible
  <2> SUFFICES ASSUME IndInv, NEW pair \in erased
               PROVE  /\ apply[pair[1]] /\ pair[2] \in targets[pair[1]]
                      /\ pair[2].created < Threshold[pair[1]]
                      /\ pinSeen[pair[1]] \notin {Unjudged, pair[2].rkey}
    BY DEF ErasedWasEligible
  <2>1. pair[1] \in Runs /\ apply[pair[1]] /\ pair[2] \in targets[pair[1]]
    BY DEF IndInv, TypeOK, RequestInv
  <2> QED
    BY <2>1 DEF IndInv, SelectInv, Judged, SelectDeletionTargets
<1> QED
  BY <1>1, Invariance, PTL

\* A run that failed before its deletes, one that is dry, and one whose inventory does
\* not decode has no request in the network and has erased nothing (run, ListPosts).
THEOREM RunsFailClosed == Spec => []FailsClosed
<1>1. IndInv => FailsClosed
  <2> SUFFICES ASSUME IndInv, NEW r \in Runs,
                      \/ outcome[r] \in {"setupError", "runError"}
                      \/ ~apply[r]
                      \/ \E rec \in inventory[r] : rec.type = "malformed"
               PROVE  /\ \A req \in requests : req.run # r
                      /\ \A pair \in erased : pair[1] # r
    BY DEF FailsClosed
  <2>1. ~apply[r] \/ targets[r] = {}
    BY DEF IndInv, PhaseInv, SelectInv, Undecodable
  <2> QED
    BY <2>1 DEF IndInv, RequestInv
<1> QED
  BY <1>1, Invariance, PTL

\* Every delete request names the account that was resolved, whichever session
\* createSession answers with (Login).
THEOREM OnlyOwnAccount == Spec => []OwnAccountOnly
<1>1. IndInv => OwnAccountOnly
  BY DEF IndInv, RequestInv, OwnAccountOnly
<1> QED
  BY <1>1, Invariance, PTL

\* What the report calls deleted is gone, and a finished run accounts for every
\* target once, whatever was lost, late or repeated (runner.Run).
THEOREM ReportIsTruthful == Spec => []ReportTruthful
<1>1. IndInv => ReportTruthful
  BY DEF IndInv, ReportInv, TypeOK, AccountTypeOK, Remaining, ReportTruthful
<1> QED
  BY <1>1, Invariance, PTL

\* After a clean exit nothing that the run should have deleted is left (ListPosts,
\* runner.Run, run).
THEOREM CleanExitIsClean == Spec => []CleanExitMeansClean
<1>1. IndInv => CleanExitMeansClean
  <2> SUFFICES ASSUME IndInv, NEW r \in Runs, exit[r] = 0, apply[r],
                      NEW rec \in atStart[r] \cap live
               PROVE  rec.created >= Threshold[r] \/ rec.rkey = pinSeen[r]
    BY DEF CleanExitMeansClean
  <2>1. outcome[r] = "result" /\ failed[r] = {}
    BY DEF IndInv, SignalInv, ExitCode, NoCode
  <2>2. Judged(r) /\ targets[r] \subseteq gone
    BY <2>1 DEF IndInv, PhaseInv, ReportInv, Remaining
  <2>3. rec \in inventory[r] /\ rec \notin targets[r] /\ rec.type # "malformed"
    BY <2>2 DEF IndInv, ListInv, SelectInv, Undecodable, TypeOK, AccountTypeOK
  <2>4. rec.type \in PostTypes /\ rec.created \in Int /\ Threshold[r] \in Int
    BY <2>3, RecordsAssumption, RunAssumption DEF IndInv, TypeOK
  <2> QED
    BY <2>2, <2>3, <2>4 DEF IndInv, SelectInv, SelectDeletionTargets
<1> QED
  BY <1>1, Invariance, PTL

\* The channel that was told and the exit code never contradict each other (Send, run).
THEOREM SignalsDoAgree == Spec => []SignalsAgree
<1>1. IndInv => SignalsAgree
  BY DEF IndInv, SignalInv, IsFailure, ExitCode, SignalsAgree
<1> QED
  BY <1>1, Invariance, PTL

(***************************************************************************)
(* The refinement                                                          *)
(***************************************************************************)

\* The abstract state: what has been authorised, and for which runs.
Authorised == [r \in Runs |-> IF apply[r] THEN targets[r] ELSE {}]
JudgedRuns == {r \in Runs : pinSeen[r] # Unjudged}

LEMMA InitRefines == Init => Policy!PolicyInit
<1> SUFFICES ASSUME Init PROVE Policy!PolicyInit
  OBVIOUS
<1>1. Policy!AccountInit
  BY DEF Init, AccountInit, NoPin, Policy!AccountInit, Policy!NoPin
<1>2. Authorised = [r \in Runs |-> {}]
  BY DEF Init, Authorised
<1>3. JudgedRuns = {}
  BY DEF Init, JudgedRuns
<1> QED
  BY <1>1, <1>2, <1>3 DEF Policy!PolicyInit, Authorised, JudgedRuns

\* Reading the pin is the moment at which a run is authorised.
LEMMA ReadPinRefines ==
    ASSUME IndInv, NEW r \in Runs, ReadPin(r)
    PROVE  Policy!Authorise(r)
<1>1. r \notin JudgedRuns
  BY DEF IndInv, PhaseInv, ReadPin, Selecting, Judged, JudgedRuns
<1>2. JudgedRuns' = JudgedRuns \cup {r}
  BY RecordsAssumption DEF IndInv, TypeOK, AccountTypeOK, ReadPin, JudgedRuns, Unjudged,
     NoPin
<1> DEFINE allowed == IF apply[r] THEN SelectDeletionTargets(inventory[r], pinned, r) ELSE {}
<1>3. allowed \in SUBSET {rec \in Policy!Expired(r) : rec.rkey # pinned}
  BY DEF IndInv, TypeOK, SelectDeletionTargets, Policy!Expired, Policy!PostTypes,
     PostTypes
<1>4. Authorised' = [Authorised EXCEPT ![r] = allowed]
  BY DEF IndInv, TypeOK, ReadPin, PinAnswers, Authorised, UnchangedBut
<1>5. UNCHANGED accountVars
  BY DEF ReadPin, UnchangedBut
<1> QED
  BY <1>1, <1>2, <1>3, <1>4, <1>5 DEF Policy!Authorise, Authorised, JudgedRuns,
     accountVars, Policy!accountVars

\* A request erases what its run was authorised for, or what is gone already.
LEMMA PDSErasesRefines ==
    ASSUME IndInv, NEW req \in requests, PDSErases(req)
    PROVE  Policy!EraseAuthorised
<1>1. req.run \in Runs /\ req.rec \in Authorised[req.run]
  BY DEF IndInv, TypeOK, Requests, RequestInv, Authorised
<1>2. Authorised' = Authorised /\ JudgedRuns' = JudgedRuns
  BY DEF PDSErases, Authorised, JudgedRuns
<1>3. Policy!Erase(req.rec)
  BY DEF PDSErases, Erase, Policy!Erase
<1> QED
  BY <1>1, <1>2, <1>3 DEF Policy!EraseAuthorised, Authorised, JudgedRuns

\* The owner does the same in both.
LEMMA OwnerActsRefines ==
    ASSUME OwnerActs
    PROVE  Policy!OwnerActs
<1>1. Authorised' = Authorised /\ JudgedRuns' = JudgedRuns
  BY DEF OwnerActs, runVars, Authorised, JudgedRuns
<1>2. Policy!Owner
  BY DEF OwnerActs, Owner, Publish, Pin, Unpin, Erase, NoPin, Policy!Owner,
     Policy!Publish, Policy!Pin, Policy!Unpin, Policy!Erase, Policy!NoPin
<1> QED
  BY <1>1, <1>2 DEF Policy!OwnerActs, Authorised, JudgedRuns

\* Every other step is a stutter: it changes neither the account nor what was authorised.
LEMMA OthersStutter ==
    ASSUME UNCHANGED <<accountVars, apply, targets, pinSeen>>
    PROVE  UNCHANGED Policy!policyVars
BY DEF accountVars, Policy!policyVars

LEMMA StepRefines ==
    ASSUME IndInv, NEW r \in Runs, Step(r)
    PROVE  Policy!PolicyNext \/ UNCHANGED Policy!policyVars
<1>1. CASE ReadPin(r)
  BY <1>1, ReadPinRefines DEF Policy!PolicyNext
<1>2. CASE ~ReadPin(r)
  <2>1. UNCHANGED <<accountVars, apply, targets, pinSeen>>
    BY <1>2 DEF Step, SetupFails, SetupDone, CallFails, Login, ListFeed, ListReposts,
       DeleteSent, DeleteNotSent, DeleteRetried, DeleteSucceeded, DeleteFailed,
       DeletesDone, Notify, Exit, UnchangedBut
  <2> QED
    BY <2>1, OthersStutter
<1> QED
  BY <1>1, <1>2

LEMMA NextRefines == IndInv /\ [Next]_vars => [Policy!PolicyNext]_(Policy!policyVars)
<1> SUFFICES ASSUME IndInv, [Next]_vars
             PROVE  Policy!PolicyNext \/ UNCHANGED Policy!policyVars
  OBVIOUS
<1>1. CASE \E r \in Runs : Step(r)
  BY <1>1, StepRefines
<1>2. CASE \E r \in Runs : TimeOut(r) \/ Kill(r)
  BY <1>2, OthersStutter DEF TimeOut, Kill, UnchangedBut
<1>3. CASE \E req \in requests : PDSErases(req)
  BY <1>3, PDSErasesRefines DEF Policy!PolicyNext
<1>4. CASE \E req \in requests : PDSRefuses(req)
  BY <1>4, OthersStutter DEF PDSRefuses, UnchangedBut
<1>5. CASE OwnerActs
  BY <1>5, OwnerActsRefines DEF Policy!PolicyNext
<1>6. CASE AllOver \/ UNCHANGED vars
  BY <1>6, OthersStutter DEF AllOver, vars, runVars
<1> QED
  BY <1>1, <1>2, <1>3, <1>4, <1>5, <1>6 DEF Next

\* The runs implement the retention policy: each is authorised once, when it reads the
\* pin, for expired records that are not pinned at that moment, and everything that is
\* erased was authorised (runner.Run over RetentionPolicy).
THEOREM RunsKeepThePromise == Spec => Promise
BY InitRefines, NextRefines, Invariance, PTL DEF Spec, Promise, Policy!PolicySpec
=============================================================================
