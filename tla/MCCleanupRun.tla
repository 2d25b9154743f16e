---------------------------- MODULE MCCleanupRun ----------------------------
(***************************************************************************)
(* Small accounts and runs for model checking CleanupRun.                  *)
(***************************************************************************)
EXTENDS CleanupRun, TLC

CONSTANTS r1, r2

Rec(key, type, created) == [rkey |-> key, type |-> type, created |-> created]

OldPost   == Rec(1, "original", 1)
OldReply  == Rec(2, "reply", 2)
OldRepost == Rec(3, "repost", 3)
Broken    == Rec(4, "malformed", 1)

\* One run over every sort of record.
OneRun          == {r1}
OneThreshold    == (r1 :> 5)
ManyRecords     == {OldPost, OldRepost, Broken}
ManyInitially   == {OldPost, OldRepost}

\* Two runs that may overlap, the second with a longer retention period, for which
\* the reply is exactly as old as the threshold.
TwoRuns         == {r1, r2}
TwoThresholds   == (r1 :> 5) @@ (r2 :> 2)
FewRecords      == {OldPost, OldReply}

=============================================================================
