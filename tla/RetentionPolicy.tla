--------------------------- MODULE RetentionPolicy ---------------------------
(***************************************************************************)
(* What the cleaner promises the owner, without its protocol: a run may    *)
(* erase nothing until it is authorised, it is authorised at one moment    *)
(* and once, and only for records that are older than its threshold and    *)
(* not pinned at that moment.  Erasing may come late, even after the run.  *)
(***************************************************************************)
EXTENDS Account

CONSTANTS
    Runs,        \* the runs of the program
    Threshold    \* Threshold[r]: run r's judgment time less the retention period

VARIABLES
    authorised,  \* authorised[r]: the records run r may erase
    judged       \* the runs that have been authorised

policyVars == <<live, gone, pinned, authorised, judged>>

Expired(r) == {rec \in Records : rec.type \in PostTypes /\ rec.created < Threshold[r]}

PolicyInit ==
    /\ AccountInit
    /\ authorised = [r \in Runs |-> {}]
    /\ judged = {}

Authorise(r) ==
    /\ r \notin judged
    /\ judged' = judged \cup {r}
    /\ \E allowed \in SUBSET {rec \in Expired(r) : rec.rkey # pinned} :
           authorised' = [authorised EXCEPT ![r] = allowed]
    /\ UNCHANGED accountVars

EraseAuthorised ==
    /\ \E r \in Runs : \E rec \in authorised[r] : Erase(rec)
    /\ UNCHANGED <<authorised, judged>>

OwnerActs == Owner /\ UNCHANGED <<authorised, judged>>

PolicyNext ==
    \/ \E r \in Runs : Authorise(r)
    \/ EraseAuthorised
    \/ OwnerActs

PolicySpec == PolicyInit /\ [][PolicyNext]_policyVars

=============================================================================
